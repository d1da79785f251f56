-------------------------- MODULE ImageCacheProofs --------------------------
(***************************************************************************)
(* Proofs about ImageCache, for any number of commands and of versions.    *)
(*                                                                         *)
(* A .tmp file is never an image, nor the disk of a VM, so that os.Create  *)
(* truncates neither.  A file that is not whole is being written by a      *)
(* download that has written all it has received.  The images are ranked   *)
(* by when they came to the cache: an update removes only images that came *)
(* before its own, hence never the last one that came.                     *)
(***************************************************************************)
EXTENDS ImageCache, TLAPS

\* A .tmp is a file of its own.
TmpApart ==
    \A v \in Versions : tmp[v] # 0 =>
        /\ \A w \in Versions : image[w] # tmp[v] /\ (tmp[w] = tmp[v] => w = v)
        /\ \A m \in Mounts : base[m] # tmp[v]

\* A download that met no other one of its version has its .tmp for itself.
Alone ==
    /\ \A c, d \in Commands :
          /\ Version[c] = Version[d] /\ Version[c] \notin shared
          /\ pc[c] \in {"receive", "rename"} /\ pc[d] \in {"receive", "rename"}
          => c = d
    /\ \A c \in Commands : pc[c] = "receive" =>
          fd[c] # 0 /\ (Version[c] \notin shared => fd[c] = tmp[Version[c]])

\* Download c writes to inode i, which has all that c has received.
Fills(c, i) == pc[c] = "receive" /\ fd[c] = i /\ 1 .. got[c] \subseteq content[i]

BeingFilled(v, i) == \E c \in Commands : Version[c] = v /\ Fills(c, i)

\* A file that will be read is whole, or is being filled.
Filled ==
    \A v \in Versions \ cut :
        /\ image[v] # 0 => content[image[v]] = Whole \/ BeingFilled(v, image[v])
        /\ tmp[v] # 0 /\ (\E d \in Commands : Downloads(d, v)) =>
              content[tmp[v]] = Whole \/ BeingFilled(v, tmp[v])

\* The disk of a VM is a file.
DiskInv ==
    \A m \in Mounts : pc[m] = "running" =>
        /\ m \in overlay /\ base[m] # 0
        /\ Version[m] \in shared \/ content[base[m]] = Whole

FileInv == TmpApart /\ Alone /\ Filled /\ DiskInv

\* Versions are ranked in the order in which they first came to the cache, n of
\* them so far: the last one is still there.  An update lists versions that
\* came before its own, unless its own was removed and is going to come back.
Ranked(n, r) ==
    /\ n = 0 \/ \E v \in Versions : r[v] = n /\ Cached(v)
    /\ \A v \in Versions : Cached(v) => r[v] > 0
    /\ \A v \in Versions : r[v] > 0 => Cached(v) \/ fate[v] = "removed"
    /\ \A u \in Updates : \A f \in old[u] \cap Versions :
          /\ r[f] > 0
          /\ pc[u] \in {"get", "receive", "rename"} =>
                \/ r[Version[u]] = 0 \/ r[f] < r[Version[u]]
                \/ fate[Version[u]] = "removed"
          /\ pc[u] = "remove" /\ f # Version[u] => r[f] < r[Version[u]]

RankInv ==
    \/ \E v \in Versions : fate[v] = "back"
    \/ \E n \in Nat : \E r \in [Versions -> 0 .. n] : Ranked(n, r)

IInv == TypeOK /\ FileInv /\ RankInv

-----------------------------------------------------------------------------
(* Commands, and the inodes' contents                                      *)

\* The version of a command is a version, and not the name of an overlay.
LEMMA CommandFacts ==
  /\ Mounts \subseteq Commands /\ Updates \subseteq Commands
  /\ \A c \in Commands : Version[c] \in Versions /\ Version[c] \notin Mounts
  /\ \A m \in Mounts : m \notin Updates /\ m \notin Versions
BY CacheAssumption, Zenon DEF Commands, Versions

\* os.Create of a new file leaves the others as they are.
LEMMA NewInode ==
  ASSUME NEW S, NEW s \in Seq(S), NEW x \in S
  PROVE  /\ Append(s, x) \in Seq(S) /\ Len(Append(s, x)) = Len(s) + 1
         /\ \A i \in 1 .. Len(s) : Append(s, x)[i] = s[i]
         /\ Append(s, x)[Len(s) + 1] = x
OBVIOUS

\* A write to one file leaves the others as they are.
LEMMA OneInode ==
  ASSUME NEW S, NEW s \in Seq(S), NEW k \in 1 .. Len(s), NEW x \in S
  PROVE  /\ [s EXCEPT ![k] = x] \in Seq(S) /\ Len([s EXCEPT ![k] = x]) = Len(s)
         /\ \A i \in 1 .. Len(s) : i # k => [s EXCEPT ![k] = x][i] = s[i]
         /\ [s EXCEPT ![k] = x][k] = x
OBVIOUS

-----------------------------------------------------------------------------
(* Types                                                                   *)

\* What Create does to the files: the others keep their contents.
LEMMA CreateFacts ==
  ASSUME TypeOK, NEW c \in Commands, Create(c)
  PROVE  /\ content' \in Seq(SUBSET Whole) /\ Len(content') >= Len(content)
         /\ fd'[c] = tmp'[Version[c]] /\ fd'[c] \in 1 .. Len(content')
         /\ content'[fd'[c]] = {}
         /\ \A i \in 1 .. Len(content) : i # fd'[c] => content'[i] = content[i]
         /\ tmp[Version[c]] = 0 => fd'[c] > Len(content)
         /\ tmp[Version[c]] # 0 => fd'[c] = tmp[Version[c]]
<1> DEFINE v == Version[c]
<1>1. v \in Versions
  BY CommandFacts, Zenon
<1>2. content \in Seq(SUBSET Whole) /\ {} \in SUBSET Whole /\ tmp \in [Versions -> 0 .. Len(content)]
      /\ fd \in [Commands -> 0 .. Len(content)] /\ Len(content) \in Nat
  BY DEF TypeOK, Inodes
<1>3. CASE tmp[v] = 0
  <2>1. content' = Append(content, {}) /\ tmp' = [tmp EXCEPT ![v] = Len(content) + 1]
        /\ fd' = [fd EXCEPT ![c] = Len(content) + 1]
    BY <1>3, Zenon DEF Create
  <2> QED
    BY <1>1, <1>2, <1>3, <2>1, NewInode
<1>4. CASE tmp[v] # 0
  <2>1. content' = [content EXCEPT ![tmp[v]] = {}] /\ tmp' = [tmp EXCEPT ![v] = tmp[v]]
        /\ fd' = [fd EXCEPT ![c] = tmp[v]]
    BY <1>4, Zenon DEF Create
  <2>2. tmp[v] \in 1 .. Len(content)
    BY <1>1, <1>2, <1>4
  <2>3. /\ content' \in Seq(SUBSET Whole) /\ Len(content') = Len(content)
        /\ \A i \in 1 .. Len(content) : i # tmp[v] => content'[i] = content[i]
        /\ content'[tmp[v]] = {}
    BY <1>2, <2>1, <2>2, OneInode
  <2> HIDE DEF v
  <2>4. tmp'[v] = tmp[v] /\ fd'[c] = tmp[v]
    BY <1>1, <1>2, <2>1, Zenon
  <2> QED
    BY <1>2, <1>4, <2>2, <2>3, <2>4 DEF v
<1> QED
  BY <1>3, <1>4, Zenon

\* What Receive does: the file it writes to has one part more.
LEMMA ReceiveFacts ==
  ASSUME TypeOK, NEW c \in Commands, Receive(c), fd[c] # 0
  PROVE  /\ content' \in Seq(SUBSET Whole) /\ Len(content') = Len(content)
         /\ fd[c] \in 1 .. Len(content)
         /\ content'[fd[c]] = content[fd[c]] \cup {got[c] + 1}
         /\ \A i \in 1 .. Len(content) : i # fd[c] => content'[i] = content[i]
         /\ got'[c] = got[c] + 1 /\ got[c] \in Nat /\ got[c] < NChunks
<1>1. /\ content \in Seq(SUBSET Whole) /\ fd[c] \in 1 .. Len(content) /\ got[c] \in 0 .. NChunks
      /\ got \in [Commands -> 0 .. NChunks]
  BY DEF TypeOK, Inodes
<1>2. got[c] < NChunks /\ got' = [got EXCEPT ![c] = got[c] + 1]
      /\ content' = [content EXCEPT ![fd[c]] = content[fd[c]] \cup {got[c] + 1}]
  BY Zenon DEF Receive
<1>3. content[fd[c]] \cup {got[c] + 1} \in SUBSET Whole
  BY <1>1, <1>2, CacheAssumption DEF Whole
<1> HIDE DEF Whole
<1>4. got'[c] = got[c] + 1 /\ got[c] \in Nat
  BY <1>1, <1>2, CacheAssumption
<1> QED
  BY <1>1, <1>2, <1>3, <1>4, OneInode

\* A step of an action leaves the types as they are.
LEMMA TypeStep ==
  ASSUME TypeOK, FileInv, [Next]_vars
  PROVE  TypeOK'
<1> USE CommandFacts
<1>1. ASSUME NEW c \in Commands, Create(c) PROVE TypeOK'
  <2>1. content' \in Seq(SUBSET Whole) /\ Len(content') >= Len(content)
        /\ fd'[c] \in 1 .. Len(content')
    BY <1>1, CreateFacts, Zenon
  <2>2. PICK i : tmp' = [tmp EXCEPT ![Version[c]] = i] /\ fd' = [fd EXCEPT ![c] = i]
    BY <1>1, Zenon DEF Create
  <2>3. i \in 1 .. Len(content') /\ Len(content) \in Nat /\ Len(content') \in Nat
        /\ content \in Seq(SUBSET Whole)
    BY <2>1, <2>2 DEF TypeOK
  <2>4. /\ tmp' \in [Versions -> Inodes'] /\ fd' \in [Commands -> Inodes']
        /\ image' \in [Versions -> Inodes'] /\ base' \in [Mounts -> Inodes']
    BY <1>1, <2>1, <2>2, <2>3 DEF TypeOK, Inodes, Create, vms
  <2>5. pc' \in [Commands -> {"start", "stat", "get", "receive", "rename", "remove",
                              "overlay", "qemu", "running", "done", "failed"}]
    BY <1>1, Zenon DEF TypeOK, Create, Goto
  <2>6. got' \in [Commands -> 0 .. NChunks]
    BY <1>1, CacheAssumption DEF TypeOK, Create
  <2>7. shared' \subseteq Versions /\ cut' \subseteq shared'
    BY <1>1, Zenon DEF Create, TypeOK
  <2>8. UNCHANGED <<old, overlay, deaths, fate>>
    BY <1>1, Zenon DEF Create, vms
  <2> QED
    BY <2>1, <2>4, <2>5, <2>6, <2>7, <2>8, Zenon DEF TypeOK
<1>2. ASSUME NEW c \in Commands, Receive(c) PROVE TypeOK'
  <2>1. fd[c] # 0
    BY <1>2, Zenon DEF Receive, FileInv, Alone
  <2>2. content' \in Seq(SUBSET Whole) /\ Len(content') = Len(content)
    BY <1>2, <2>1, ReceiveFacts, Zenon
  <2>3. got' \in [Commands -> 0 .. NChunks]
    BY <1>2, CacheAssumption DEF TypeOK, Receive
  <2> QED
    BY <1>2, <2>2, <2>3, Zenon DEF TypeOK, Inodes, Receive, names, vms, past
<1> USE DEF TypeOK, Inodes, Goto, names, vms, past
<1>3. ASSUME NEW c \in Commands, GetFails(c) PROVE TypeOK'
  BY <1>3, Zenon DEF GetFails
<1>4. ASSUME NEW c \in Commands, ReceiveFails(c) PROVE TypeOK'
  BY <1>4, CacheAssumption DEF ReceiveFails, CutShort, Close
<1>5. ASSUME NEW c \in Commands, Received(c) PROVE TypeOK'
  BY <1>5, CacheAssumption DEF Received, Close
<1>6. ASSUME NEW c \in Commands, CloseFails(c) PROVE TypeOK'
  BY <1>6, CacheAssumption DEF CloseFails, CutShort, Close
<1>7. ASSUME NEW c \in Commands, Rename(c) PROVE TypeOK'
  BY <1>7 DEF Rename
<1>8. ASSUME NEW c \in Commands, RenameFails(c) PROVE TypeOK'
  BY <1>8, Zenon DEF RenameFails
<1>9. ASSUME NEW u \in Updates, List(u) PROVE TypeOK'
  BY <1>9, Zenon DEF List
<1>10. ASSUME NEW u \in Updates, UpToDate(u) PROVE TypeOK'
  BY <1>10, Zenon DEF UpToDate
<1>11. ASSUME NEW u \in Updates, Outdated(u) PROVE TypeOK'
  BY <1>11, Zenon DEF Outdated
<1>12. ASSUME NEW u \in Updates, RemoveOld(u) PROVE TypeOK'
  BY <1>12 DEF RemoveOld, Remove
<1>13. ASSUME NEW u \in Updates, Updated(u) PROVE TypeOK'
  BY <1>13, Zenon DEF Updated
<1>14. ASSUME NEW m \in Mounts, Ensure(m) PROVE TypeOK'
  BY <1>14, Zenon DEF Ensure
<1>15. ASSUME NEW m \in Mounts, CreateOverlay(m) PROVE TypeOK'
  BY <1>15, Zenon DEF CreateOverlay
<1>16. ASSUME NEW m \in Mounts, StartVM(m) PROVE TypeOK'
  BY <1>16, Zenon DEF StartVM
<1>17. ASSUME NEW m \in Mounts, StartFails(m) PROVE TypeOK'
  BY <1>17, Zenon DEF StartFails
<1>18. ASSUME NEW m \in Mounts, StopVM(m) PROVE TypeOK'
  BY <1>18 DEF StopVM
<1>19. ASSUME NEW c \in Commands, Dies(c) PROVE TypeOK'
  BY <1>19, CacheAssumption DEF Dies, CutShort, Close
<1>20. ASSUME UNCHANGED vars PROVE TypeOK'
  BY <1>20, Zenon DEF vars
<1> QED
  BY <1>1, <1>2, <1>3, <1>4, <1>5, <1>6, <1>7, <1>8, <1>9, <1>10, <1>11, <1>12, <1>13,
     <1>14, <1>15, <1>16, <1>17, <1>18, <1>19, <1>20, Zenon DEF Next, Download, Finished

-----------------------------------------------------------------------------
(* Files                                                                   *)

Downloading == {"receive", "rename"}

\* A step that is not part of a download.
Quiet ==
    /\ UNCHANGED <<tmp, content, shared, cut>>
    /\ \A c \in Commands :
          \/ pc'[c] = pc[c] /\ fd'[c] = fd[c] /\ got'[c] = got[c]
          \/ pc[c] \notin Downloading /\ pc'[c] \notin Downloading
    /\ \A v \in Versions : image'[v] = image[v] \/ image'[v] = 0
    /\ \A m \in Mounts : base'[m] = base[m] \/ base'[m] = 0 \/ base'[m] = image[Version[m]]
    /\ \A m \in Mounts : pc'[m] = "running" =>
          /\ m \in overlay'
          /\ \/ pc[m] = "running" /\ base'[m] = base[m]
             \/ image[Version[m]] # 0 /\ base'[m] = image[Version[m]]

\* A step that is not part of a download leaves the files as they are.
LEMMA QuietStep ==
  ASSUME TypeOK, FileInv, Quiet
  PROVE  FileInv'
<1> USE CommandFacts
<1>1. TmpApart'
  BY DEF FileInv, TmpApart, Quiet
<1>2. Alone'
  BY Zenon DEF FileInv, Alone, Quiet, Downloading
<1>3. ASSUME NEW v \in Versions, NEW i, BeingFilled(v, i) PROVE BeingFilled(v, i)'
  BY <1>3, Zenon DEF BeingFilled, Fills, Quiet, Downloading
<1>4. ASSUME NEW d \in Commands, NEW v \in Versions, Downloads(d, v)' PROVE Downloads(d, v)
  BY <1>4, Zenon DEF Downloads, Quiet, Downloading
<1>5. Filled'
  BY <1>3, <1>4, Zenon DEF FileInv, Filled, Quiet
<1>6. DiskInv'
  <2> SUFFICES ASSUME NEW m \in Mounts, pc'[m] = "running"
               PROVE  /\ m \in overlay' /\ base'[m] # 0
                      /\ Version[m] \in shared' \/ content'[base'[m]] = Whole
    BY Zenon DEF DiskInv
  <2>1. CASE pc[m] = "running" /\ base'[m] = base[m]
    BY <2>1, Zenon DEF Quiet, FileInv, DiskInv
  <2>2. CASE image[Version[m]] # 0 /\ base'[m] = image[Version[m]]
    <3>1. Version[m] \notin shared => ~BeingFilled(Version[m], image[Version[m]])
      BY <2>2, Zenon DEF FileInv, Alone, TmpApart, BeingFilled, Fills
    <3>2. Version[m] \notin shared => Version[m] \in Versions \ cut
      BY Zenon DEF TypeOK
    <3> QED
      BY <2>2, <3>1, <3>2, Zenon DEF FileInv, Filled, Quiet
  <2> QED
    BY <2>1, <2>2, Zenon DEF Quiet
<1> QED
  BY <1>1, <1>2, <1>5, <1>6, Zenon DEF FileInv

\* A file goes on being filled when the download that fills it does.
LEMMA StillFilled ==
  ASSUME NEW v \in Versions, NEW i, BeingFilled(v, i), content[i] \subseteq content'[i],
         \A d \in Commands : Version[d] = v /\ Fills(d, i) =>
            pc'[d] = "receive" /\ fd'[d] = fd[d] /\ got'[d] = got[d]
  PROVE  BeingFilled(v, i)'
BY Zenon DEF BeingFilled, Fills

\* A download that met no other one writes to no image.
LEMMA AloneFills ==
  ASSUME TypeOK, FileInv, NEW v \in Versions, v \notin shared, image[v] # 0
  PROVE  content[image[v]] = Whole /\ ~BeingFilled(v, image[v])
<1>1. ~BeingFilled(v, image[v])
  BY Zenon DEF FileInv, Alone, TmpApart, BeingFilled, Fills
<1> QED
  BY <1>1, Zenon DEF FileInv, Filled, TypeOK

\* A download writes to its .tmp, a new file or one that is neither an image
\* nor a disk, so the images stay whole.
LEMMA CreateStep ==
  ASSUME TypeOK, FileInv, NEW c \in Commands, Create(c)
  PROVE  FileInv'
<1> DEFINE v == Version[c]
<1>1. v \in Versions /\ Mounts \subseteq Commands /\ \A m \in Mounts : Version[m] \in Versions
  BY CommandFacts, Zenon
<1>2. /\ fd'[c] = tmp'[v] /\ fd'[c] \in 1 .. Len(content') /\ content'[fd'[c]] = {}
      /\ \A i \in 1 .. Len(content) : i # fd'[c] => content'[i] = content[i]
      /\ tmp[v] = 0 => fd'[c] > Len(content)
      /\ tmp[v] # 0 => fd'[c] = tmp[v]
  BY CreateFacts, Zenon
<1>3. /\ pc[c] = "get" /\ pc' = [pc EXCEPT ![c] = "receive"]
      /\ \A w \in Versions : w # v => tmp'[w] = tmp[w]
      /\ \A d \in Commands : d # c => fd'[d] = fd[d] /\ got'[d] = got[d]
      /\ got'[c] = 0 /\ UNCHANGED <<image, overlay, base, cut>>
      /\ shared \subseteq shared'
      /\ (\E d \in Commands : Downloads(d, v)) => v \in shared'
  BY <1>1, Zenon DEF Create, Goto, vms, TypeOK
<1>4. /\ \A w \in Versions : image[w] \in 0 .. Len(content) /\ tmp[w] \in 0 .. Len(content)
      /\ \A m \in Mounts : base[m] \in 0 .. Len(content)
      /\ \A d \in Commands : fd[d] \in 0 .. Len(content)
      /\ Len(content) \in Nat
      /\ pc'[c] = "receive" /\ \A d \in Commands : d # c => pc'[d] = pc[d]
  BY <1>3 DEF TypeOK, Inodes
<1> HIDE DEF v
<1>5. /\ \A w \in Versions : image[w] # fd'[c] /\ (w # v /\ tmp[w] # 0 => tmp[w] # fd'[c])
      /\ \A m \in Mounts : base[m] # fd'[c]
  BY <1>1, <1>2, <1>4 DEF FileInv, TmpApart
<1>6. TmpApart'
  <2> SUFFICES ASSUME NEW w \in Versions, tmp'[w] # 0
               PROVE  /\ \A x \in Versions : image'[x] # tmp'[w] /\ (tmp'[x] = tmp'[w] => x = w)
                      /\ \A m \in Mounts : base'[m] # tmp'[w]
    BY Zenon DEF TmpApart
  <2> QED
    BY <1>2, <1>3, <1>5 DEF FileInv, TmpApart
<1>7. Alone'
  <2>1. ASSUME NEW d \in Commands, NEW e \in Commands,
               Version[d] = Version[e], Version[d] \notin shared',
               pc'[d] \in {"receive", "rename"}, pc'[e] \in {"receive", "rename"}
        PROVE  d = e
    BY <1>3, <1>4, <2>1 DEF FileInv, Alone, Downloads, v
  <2>2. ASSUME NEW d \in Commands, pc'[d] = "receive"
        PROVE  fd'[d] # 0 /\ (Version[d] \notin shared' => fd'[d] = tmp'[Version[d]])
    <3>1. CASE d = c
      BY <3>1, <1>2 DEF v
    <3>2. CASE d # c
      <4>1. pc[d] = "receive" /\ fd'[d] = fd[d]
        BY <3>2, <2>2, <1>3, <1>4, Zenon
      <4>2. Version[d] \notin shared' => Version[d] # v
        BY <4>1, <1>3, Zenon DEF Downloads
      <4> QED
        BY <4>1, <4>2, <1>3, CommandFacts, Zenon DEF FileInv, Alone
    <3> QED
      BY <3>1, <3>2, Zenon
  <2> QED
    BY <2>1, <2>2, Zenon DEF Alone
<1>8. ASSUME NEW w \in Versions, NEW i \in 1 .. Len(content), BeingFilled(w, i), i # fd'[c]
      PROVE  BeingFilled(w, i)'
  <2>1. content[i] \subseteq content'[i]
    BY <1>2, <1>8, Zenon
  <2>2. \A d \in Commands : Version[d] = w /\ Fills(d, i) =>
            pc'[d] = "receive" /\ fd'[d] = fd[d] /\ got'[d] = got[d]
    BY <1>3, <1>4, Zenon DEF Fills
  <2> QED
    BY <1>8, <2>1, <2>2, StillFilled, Zenon
<1>9. Filled'
  <2> SUFFICES ASSUME NEW w \in Versions \ cut
               PROVE  /\ image'[w] # 0 => content'[image'[w]] = Whole \/ BeingFilled(w, image[w])'
                      /\ tmp'[w] # 0 /\ (\E d \in Commands : Downloads(d, w)') =>
                            content'[tmp'[w]] = Whole \/ BeingFilled(w, tmp[w])'
    BY <1>3, Zenon DEF Filled
  <2>1. image[w] # 0 => content'[image'[w]] = Whole \/ BeingFilled(w, image[w])'
    <3> SUFFICES ASSUME image[w] # 0 PROVE content'[image[w]] = Whole \/ BeingFilled(w, image[w])'
      BY <1>3, Zenon
    <3>1. image[w] \in 1 .. Len(content) /\ image[w] # fd'[c]
      BY <1>4, <1>5
    <3> QED
      BY <3>1, <1>2, <1>3, <1>8 DEF FileInv, Filled, BeingFilled
  <2>2. CASE w = v
    <3>1. BeingFilled(v, tmp[v])'
      BY <1>2, <1>3, <1>4 DEF BeingFilled, Fills, v
    <3> QED
      BY <2>1, <2>2, <3>1, <1>3, Zenon
  <2>3. CASE w # v
    <3> SUFFICES ASSUME tmp[w] # 0, NEW d \in Commands, Downloads(d, w)'
                 PROVE  content'[tmp[w]] = Whole \/ BeingFilled(w, tmp[w])'
      BY <2>1, <2>3, <1>3, Zenon
    <3>1. tmp[w] \in 1 .. Len(content) /\ tmp[w] # fd'[c]
      BY <1>4, <1>5, <2>3
    <3>2. Downloads(d, w)
      BY <2>3, <1>4, Zenon DEF Downloads, v
    <3>3. content[tmp[w]] = Whole \/ BeingFilled(w, tmp[w])
      BY <3>2, Zenon DEF FileInv, Filled
    <3> QED
      BY <3>1, <3>3, <1>2, <1>3, <1>8, <2>3 DEF BeingFilled
  <2> QED
    BY <2>2, <2>3, Zenon
<1>10. DiskInv'
  <2> SUFFICES ASSUME NEW m \in Mounts, pc'[m] = "running"
               PROVE  /\ m \in overlay' /\ base'[m] # 0
                      /\ Version[m] \in shared' \/ content'[base'[m]] = Whole
    BY Zenon DEF DiskInv
  <2>1. pc[m] = "running" /\ base[m] # fd'[c]
    BY <1>1, <1>4, <1>5, Zenon
  <2> QED
    BY <2>1, <1>2, <1>3, <1>4 DEF FileInv, DiskInv
<1> QED
  BY <1>6, <1>7, <1>9, <1>10, Zenon DEF FileInv

\* A download adds a part to the file it writes to.
LEMMA ReceiveStep ==
  ASSUME TypeOK, FileInv, NEW c \in Commands, Receive(c)
  PROVE  FileInv'
<1>1. /\ UNCHANGED <<image, tmp, pc, fd, overlay, base, shared, cut>>
      /\ pc[c] = "receive" /\ fd[c] # 0
      /\ \A d \in Commands : d # c => got'[d] = got[d]
  BY Zenon DEF Receive, names, vms, past, TypeOK, FileInv, Alone
<1>2. /\ \A i \in 1 .. Len(content) : content[i] \subseteq content'[i] /\ content'[i] \subseteq Whole
      /\ content'[fd[c]] = content[fd[c]] \cup {got[c] + 1} /\ got'[c] = got[c] + 1
      /\ got[c] \in Nat
  BY <1>1, ReceiveFacts DEF TypeOK
<1>3. ASSUME NEW v \in Versions, NEW i \in 1 .. Len(content),
             content[i] = Whole \/ BeingFilled(v, i)
      PROVE  content'[i] = Whole \/ BeingFilled(v, i)'
  <2>1. CASE content[i] = Whole
    BY <2>1, <1>2, Zenon
  <2>2. ASSUME NEW d \in Commands, Version[d] = v, Fills(d, i) PROVE Fills(d, i)'
    <3>1. CASE d = c
      BY <3>1, <2>2, <1>1, <1>2 DEF Fills
    <3>2. CASE d # c
      BY <3>2, <2>2, <1>1, <1>2, Zenon DEF Fills
    <3> QED
      BY <3>1, <3>2, Zenon
  <2> QED
    BY <1>3, <2>1, <2>2, Zenon DEF BeingFilled
<1>4. /\ \A v \in Versions : image[v] # 0 => image[v] \in 1 .. Len(content)
      /\ \A v \in Versions : tmp[v] # 0 => tmp[v] \in 1 .. Len(content)
      /\ \A m \in Mounts : base[m] # 0 => base[m] \in 1 .. Len(content)
  BY DEF TypeOK, Inodes
<1>5. Filled'
  <2> SUFFICES ASSUME NEW v \in Versions \ cut
               PROVE  /\ image[v] # 0 => content'[image[v]] = Whole \/ BeingFilled(v, image[v])'
                      /\ tmp[v] # 0 /\ (\E d \in Commands : Downloads(d, v)') =>
                            content'[tmp[v]] = Whole \/ BeingFilled(v, tmp[v])'
    BY <1>1, Zenon DEF Filled
  <2>1. ASSUME NEW d \in Commands, Downloads(d, v)' PROVE Downloads(d, v)
    BY <2>1, <1>1, Zenon DEF Downloads
  <2>2. image[v] # 0 => content'[image[v]] = Whole \/ BeingFilled(v, image[v])'
    BY <1>1, <1>3, <1>4 DEF FileInv, Filled, BeingFilled, Fills
  <2>3. tmp[v] # 0 /\ (\E d \in Commands : Downloads(d, v)') =>
                            content'[tmp[v]] = Whole \/ BeingFilled(v, tmp[v])'
    BY <1>1, <1>3, <1>4, <2>1 DEF FileInv, Filled, BeingFilled, Fills
  <2> QED
    BY <2>2, <2>3, Zenon
<1>6. DiskInv'
  <2> SUFFICES ASSUME NEW m \in Mounts, pc[m] = "running", content[base[m]] = Whole, base[m] # 0
               PROVE  content'[base[m]] = Whole
    BY <1>1, Zenon DEF FileInv, DiskInv
  <2>1. base[m] \in 1 .. Len(content)
    BY <1>4, Zenon
  <2>2. Whole \subseteq content'[base[m]] /\ content'[base[m]] \subseteq Whole
    BY <1>2, <2>1, Zenon
  <2> QED
    BY <2>2, Zenon
<1>7. TmpApart' /\ Alone'
  BY <1>1, Zenon DEF FileInv, TmpApart, Alone
<1> QED
  BY <1>5, <1>6, <1>7, Zenon DEF FileInv

\* A download that ends, for whatever reason but a rename, leaves no file half
\* written, unless it met another one.
Ends(c) ==
    /\ pc[c] \in Downloading
    /\ \A d \in Commands : d # c => pc'[d] = pc[d] /\ fd'[d] = fd[d] /\ got'[d] = got[d]
    /\ pc'[c] \notin Downloading /\ pc'[c] # "running"
    /\ tmp' = tmp \/ tmp' = [tmp EXCEPT ![Version[c]] = 0]
    /\ cut' = (IF Version[c] \in shared THEN cut \cup {Version[c]} ELSE cut)
    /\ UNCHANGED <<image, content, overlay, base, shared>>

LEMMA EndsStep ==
  ASSUME TypeOK, FileInv, NEW c \in Commands, Ends(c)
  PROVE  FileInv'
<1> DEFINE v == Version[c]
<1> USE CommandFacts
<1>1. v \in Versions /\ tmp \in [Versions -> Inodes] /\ cut \subseteq shared
  BY Zenon DEF TypeOK
<1>2. /\ \A w \in Versions : tmp'[w] = tmp[w] \/ tmp'[w] = 0
      /\ \A w \in Versions : w # v => tmp'[w] = tmp[w]
  BY <1>1, Zenon DEF Ends
<1>3. TmpApart'
  BY <1>2 DEF FileInv, TmpApart, Ends
<1>4. Alone'
  <2>1. ASSUME NEW d \in Commands, pc'[d] \in Downloading
        PROVE  d # c /\ pc'[d] = pc[d] /\ fd'[d] = fd[d]
    BY <2>1, Zenon DEF Ends
  <2>2. ASSUME NEW d \in Commands, pc'[d] \in Downloading, Version[d] \notin shared
        PROVE  Version[d] # v
    BY <2>1, <2>2, Zenon DEF FileInv, Alone, Ends, Downloading
  <2> QED
    BY <1>2, <2>1, <2>2 DEF FileInv, Alone, Ends, Downloading
<1>5. ASSUME NEW w \in Versions, w # v, NEW i, BeingFilled(w, i) PROVE BeingFilled(w, i)'
  BY <1>5, Zenon DEF BeingFilled, Fills, Ends
<1>6. Filled'
  <2> SUFFICES ASSUME NEW w \in Versions \ cut'
               PROVE  /\ image[w] # 0 => content[image[w]] = Whole \/ BeingFilled(w, image[w])'
                      /\ tmp'[w] # 0 /\ (\E d \in Commands : Downloads(d, w)') =>
                            content[tmp'[w]] = Whole \/ BeingFilled(w, tmp[w])'
    BY Zenon DEF Filled, Ends
  <2>1. CASE w = v
    <3>1. v \notin shared
      BY <2>1, Zenon DEF Ends
    <3>2. image[v] # 0 => content[image[v]] = Whole
      BY <3>1, <1>1, AloneFills, Zenon
    <3>3. ASSUME NEW d \in Commands, Downloads(d, v)' PROVE FALSE
      BY <3>1, <3>3, Zenon DEF FileInv, Alone, Downloads, Ends, Downloading
    <3> QED
      BY <2>1, <3>2, <3>3, Zenon
  <2>2. CASE w # v
    <3>1. \A d \in Commands : Downloads(d, w)' => Downloads(d, w)
      BY Zenon DEF Downloads, Ends, Downloading
    <3>2. w \in Versions \ cut /\ tmp'[w] = tmp[w] /\ image'[w] = image[w]
      BY <2>2, <1>2, Zenon DEF Ends
    <3>3. image[w] # 0 => content[image[w]] = Whole \/ BeingFilled(w, image[w])'
      BY <2>2, <3>2, <1>5, Zenon DEF FileInv, Filled, BeingFilled
    <3>4. tmp'[w] # 0 /\ (\E d \in Commands : Downloads(d, w)') =>
                            content[tmp'[w]] = Whole \/ BeingFilled(w, tmp[w])'
      BY <2>2, <3>1, <3>2, <1>5, Zenon DEF FileInv, Filled, BeingFilled
    <3> QED
      BY <3>3, <3>4, Zenon
  <2> QED
    BY <2>1, <2>2, Zenon
<1>7. DiskInv'
  BY Zenon DEF FileInv, DiskInv, Ends
<1> QED
  BY <1>3, <1>4, <1>6, <1>7, Zenon DEF FileInv

\* A download that has received all has filled its file.
LEMMA ReceivedStep ==
  ASSUME TypeOK, FileInv, NEW c \in Commands, Received(c)
  PROVE  FileInv'
<1>1. /\ pc[c] = "receive" /\ got[c] = NChunks /\ pc'[c] = "rename"
      /\ \A d \in Commands : d # c => pc'[d] = pc[d] /\ fd'[d] = fd[d] /\ got'[d] = got[d]
      /\ UNCHANGED <<image, tmp, content, overlay, base, shared, cut>>
  BY Zenon DEF Received, Goto, Close, names, vms, past, TypeOK
<1>2. \A i \in 1 .. Len(content) : content[i] \subseteq Whole
  BY DEF TypeOK
<1>3. ASSUME NEW v \in Versions, NEW i \in 1 .. Len(content), BeingFilled(v, i)
      PROVE  content[i] = Whole \/ BeingFilled(v, i)'
  <2>1. PICK d \in Commands : Version[d] = v /\ Fills(d, i)
    BY <1>3, Zenon DEF BeingFilled
  <2>2. CASE d = c
    BY <2>1, <2>2, <1>1, <1>2, Zenon DEF Fills, Whole
  <2>3. CASE d # c
    BY <2>1, <2>3, <1>1, Zenon DEF Fills, BeingFilled
  <2> QED
    BY <2>2, <2>3, Zenon
<1>4. /\ \A v \in Versions : image[v] # 0 => image[v] \in 1 .. Len(content)
      /\ \A v \in Versions : tmp[v] # 0 => tmp[v] \in 1 .. Len(content)
  BY DEF TypeOK, Inodes
<1>5. \A d \in Commands, v \in Versions : Downloads(d, v)' => Downloads(d, v)
  BY <1>1, Zenon DEF Downloads
<1>6. Filled'
  <2> SUFFICES ASSUME NEW v \in Versions \ cut
               PROVE  /\ image[v] # 0 => content[image[v]] = Whole \/ BeingFilled(v, image[v])'
                      /\ tmp[v] # 0 /\ (\E d \in Commands : Downloads(d, v)') =>
                            content[tmp[v]] = Whole \/ BeingFilled(v, tmp[v])'
    BY <1>1, Zenon DEF Filled
  <2>1. image[v] # 0 => content[image[v]] = Whole \/ BeingFilled(v, image[v])'
    BY <1>1, <1>3, <1>4, Zenon DEF FileInv, Filled, BeingFilled
  <2>2. tmp[v] # 0 /\ (\E d \in Commands : Downloads(d, v)') =>
                            content[tmp[v]] = Whole \/ BeingFilled(v, tmp[v])'
    BY <1>1, <1>3, <1>4, <1>5, Zenon DEF FileInv, Filled, BeingFilled
  <2> QED
    BY <2>1, <2>2, Zenon
<1>7. TmpApart' /\ Alone' /\ DiskInv'
  BY <1>1, CommandFacts DEF FileInv, TmpApart, Alone, DiskInv
<1> QED
  BY <1>6, <1>7, Zenon DEF FileInv

\* A rename puts a file into the cache that is whole or is being filled.
LEMMA RenameStep ==
  ASSUME TypeOK, FileInv, NEW c \in Commands, Rename(c)
  PROVE  FileInv'
<1> DEFINE v == Version[c]
<1> USE CommandFacts
<1>1. v \in Versions /\ tmp \in [Versions -> Inodes] /\ image \in [Versions -> Inodes]
  BY Zenon DEF TypeOK
<1>2. /\ pc[c] = "rename" /\ pc'[c] \notin Downloading /\ pc'[c] # "running"
      /\ \A d \in Commands : d # c => pc'[d] = pc[d]
      /\ tmp[v] # 0 /\ image'[v] = tmp[v] /\ tmp'[v] = 0
      /\ \A w \in Versions : w # v => image'[w] = image[w] /\ tmp'[w] = tmp[w]
      /\ UNCHANGED <<content, fd, got, overlay, base, shared, cut>>
  BY <1>1, Zenon DEF Rename, Goto, Downloading, vms, past, TypeOK
<1> HIDE DEF v
<1>3. TmpApart'
  <2> SUFFICES ASSUME NEW w \in Versions, tmp'[w] # 0
               PROVE  /\ \A x \in Versions : image'[x] # tmp'[w] /\ (tmp'[x] = tmp'[w] => x = w)
                      /\ \A m \in Mounts : base'[m] # tmp'[w]
    BY Zenon DEF TmpApart
  <2> QED
    BY <1>1, <1>2 DEF FileInv, TmpApart
<1>4. Alone'
  <2>1. ASSUME NEW d \in Commands, pc'[d] \in Downloading
        PROVE  d # c /\ pc'[d] = pc[d]
    BY <2>1, <1>2, Zenon
  <2>2. ASSUME NEW d \in Commands, pc'[d] \in Downloading, Version[d] \notin shared
        PROVE  Version[d] # v
    BY <2>1, <2>2, <1>2, Zenon DEF FileInv, Alone, Downloading, v
  <2> QED
    BY <1>2, <2>1, <2>2 DEF FileInv, Alone, Downloading
<1>5. ASSUME NEW w \in Versions, NEW i, BeingFilled(w, i) PROVE BeingFilled(w, i)'
  BY <1>2, <1>5, Zenon DEF BeingFilled, Fills
<1>6. Filled'
  <2> SUFFICES ASSUME NEW w \in Versions \ cut
               PROVE  /\ image'[w] # 0 => content[image'[w]] = Whole \/ BeingFilled(w, image[w])'
                      /\ tmp'[w] # 0 /\ (\E d \in Commands : Downloads(d, w)') =>
                            content[tmp'[w]] = Whole \/ BeingFilled(w, tmp[w])'
    BY <1>2, Zenon DEF Filled
  <2>1. CASE w = v
    <3>1. Downloads(c, v)
      BY <1>2, Zenon DEF Downloads, v
    <3>2. content[tmp[v]] = Whole \/ BeingFilled(v, tmp[v])
      BY <2>1, <3>1, <1>2, Zenon DEF FileInv, Filled
    <3> QED
      BY <2>1, <3>2, <1>2, <1>5, Zenon DEF BeingFilled
  <2>2. CASE w # v
    <3>1. \A d \in Commands : Downloads(d, w)' => Downloads(d, w)
      BY <1>2, Zenon DEF Downloads, Downloading
    <3>2. tmp'[w] = tmp[w] /\ image'[w] = image[w]
      BY <2>2, <1>2, Zenon
    <3>3. image[w] # 0 => content[image[w]] = Whole \/ BeingFilled(w, image[w])'
      BY <3>2, <1>5, Zenon DEF FileInv, Filled, BeingFilled
    <3>4. tmp'[w] # 0 /\ (\E d \in Commands : Downloads(d, w)') =>
                            content[tmp'[w]] = Whole \/ BeingFilled(w, tmp[w])'
      BY <3>1, <3>2, <1>5, Zenon DEF FileInv, Filled, BeingFilled
    <3> QED
      BY <3>2, <3>3, <3>4, Zenon
  <2> QED
    BY <2>1, <2>2, Zenon
<1>7. DiskInv'
  BY <1>2 DEF FileInv, DiskInv
<1> QED
  BY <1>3, <1>4, <1>6, <1>7, Zenon DEF FileInv

\* A rename that fails has no .tmp to leave behind.
LEMMA RenameFailsStep ==
  ASSUME TypeOK, FileInv, NEW c \in Commands, RenameFails(c)
  PROVE  FileInv'
<1>1. /\ pc[c] = "rename" /\ pc'[c] \notin Downloading /\ pc'[c] # "running"
      /\ \A d \in Commands : d # c => pc'[d] = pc[d]
      /\ UNCHANGED <<image, tmp, content, fd, got, overlay, base, shared, cut>>
  BY Zenon DEF RenameFails, Goto, Downloading, names, vms, past, TypeOK
<1>2. ASSUME NEW v \in Versions, NEW i, BeingFilled(v, i) PROVE BeingFilled(v, i)'
  BY <1>1, <1>2, Zenon DEF BeingFilled, Fills
<1>3. ASSUME NEW d \in Commands, NEW v \in Versions, Downloads(d, v)' PROVE Downloads(d, v)
  BY <1>1, <1>3, Zenon DEF Downloads
<1>4. Filled'
  BY <1>1, <1>2, <1>3, Zenon DEF FileInv, Filled
<1>5. TmpApart' /\ Alone' /\ DiskInv'
  BY <1>1, CommandFacts DEF FileInv, TmpApart, Alone, DiskInv, Downloading
<1> QED
  BY <1>4, <1>5, Zenon DEF FileInv

\* Every step leaves the files in order.
LEMMA FileStep ==
  ASSUME TypeOK, FileInv, [Next]_vars
  PROVE  FileInv'
<1> USE CommandFacts
<1>1. ASSUME NEW c \in Commands, Download(c) PROVE FileInv'
  <2>1. GetFails(c) => Quiet
    BY Zenon DEF GetFails, Goto, Quiet, Downloading, names, vms, past, TypeOK, FileInv, DiskInv
  <2>2. ReceiveFails(c) => Ends(c)
    BY DEF ReceiveFails, Goto, Ends, Downloading, CutShort, Close, names, vms, past, TypeOK
  <2>3. CloseFails(c) => Ends(c)
    BY DEF CloseFails, Goto, Ends, Downloading, CutShort, Close, names, vms, past, TypeOK
  <2> QED
    BY <1>1, <2>1, <2>2, <2>3, QuietStep, CreateStep, ReceiveStep, EndsStep, ReceivedStep,
       RenameStep, RenameFailsStep, Zenon DEF Download
<1>2. ASSUME NEW c \in Commands, Dies(c) PROVE FileInv'
  <2>1. CASE Downloads(c, Version[c])
    <3>1. Ends(c)
      BY <1>2, <2>1, Zenon DEF Dies, Downloads, Ends, Downloading, CutShort, Close, names, vms, TypeOK
    <3> QED
      BY <3>1, EndsStep, Zenon
  <2>2. CASE ~Downloads(c, Version[c])
    <3>1. Quiet
      BY <1>2, <2>2, Zenon DEF Dies, Downloads, Quiet, Downloading, Close, names, vms, TypeOK, FileInv, DiskInv
    <3> QED
      BY <3>1, QuietStep, Zenon
  <2> QED
    BY <2>1, <2>2, Zenon
<1>3. ASSUME NEW u \in Updates,
             List(u) \/ UpToDate(u) \/ Outdated(u) \/ RemoveOld(u) \/ Updated(u)
      PROVE  FileInv'
  <2> USE DEF Goto, Quiet, Downloading, names, vms, past, TypeOK, FileInv, DiskInv
  <2>1. List(u) => Quiet
    BY DEF List
  <2>2. UpToDate(u) => Quiet
    BY Zenon DEF UpToDate
  <2>3. Outdated(u) => Quiet
    BY Zenon DEF Outdated
  <2>4. RemoveOld(u) => Quiet
    BY Zenon DEF RemoveOld, Remove
  <2>5. Updated(u) => Quiet
    BY Zenon DEF Updated
  <2> QED
    BY <1>3, <2>1, <2>2, <2>3, <2>4, <2>5, QuietStep, Zenon
<1>4. ASSUME NEW m \in Mounts,
             Ensure(m) \/ CreateOverlay(m) \/ StartVM(m) \/ StartFails(m) \/ StopVM(m)
      PROVE  FileInv'
  <2> USE DEF Goto, Quiet, Downloading, names, vms, past, TypeOK, FileInv, DiskInv
  <2>1. Ensure(m) => Quiet
    BY DEF Ensure
  <2>2. CreateOverlay(m) => Quiet
    BY DEF CreateOverlay
  <2>3. StartVM(m) => Quiet
    BY DEF StartVM, Cached
  <2>4. StartFails(m) => Quiet
    BY DEF StartFails
  <2>5. StopVM(m) => Quiet
    BY DEF StopVM
  <2> QED
    BY <1>4, <2>1, <2>2, <2>3, <2>4, <2>5, QuietStep, Zenon
<1>5. ASSUME UNCHANGED vars PROVE FileInv'
  <2>1. Quiet
    BY <1>5, Zenon DEF vars, Quiet, FileInv, DiskInv
  <2> QED
    BY <2>1, QuietStep, Zenon
<1> QED
  BY <1>1, <1>2, <1>3, <1>4, <1>5, Zenon DEF Next, Finished

-----------------------------------------------------------------------------
(* Ranks                                                                   *)

BeforeRename == {"get", "receive", "rename"}

\* A step that changes no image; it may list the images there are, or find the
\* one it wants missing.
Lists ==
    /\ UNCHANGED <<image, fate>>
    /\ \A u \in Updates :
          \/ /\ old'[u] \subseteq old[u]
             /\ \/ pc'[u] = pc[u]
                \/ pc'[u] \notin BeforeRename \cup {"remove"}
                \/ pc[u] \in BeforeRename /\ pc'[u] \in BeforeRename
                \/ pc'[u] = "get" /\ ~Cached(Version[u])
          \/ old'[u] = {v \in Versions : Cached(v)} \cup overlay /\ pc'[u] = "stat"

\* A step that changes no image leaves the ranks as they are.
LEMMA ListsStep ==
  ASSUME TypeOK, Lists, NEW n \in Nat, NEW r \in [Versions -> 0 .. n], Ranked(n, r)
  PROVE  Ranked(n, r)'
<1> USE CommandFacts
<1>1. /\ n = 0 \/ \E v \in Versions : r[v] = n /\ Cached(v)'
      /\ \A v \in Versions : Cached(v)' => r[v] > 0
      /\ \A v \in Versions : r[v] > 0 => Cached(v)' \/ fate'[v] = "removed"
  BY Zenon DEF Ranked, Lists, Cached
<1>2. ASSUME NEW u \in Updates, NEW f \in old'[u] \cap Versions
      PROVE  /\ r[f] > 0
             /\ pc'[u] \in BeforeRename =>
                   \/ r[Version[u]] = 0 \/ r[f] < r[Version[u]]
                   \/ fate'[Version[u]] = "removed"
             /\ pc'[u] = "remove" /\ f # Version[u] => r[f] < r[Version[u]]
  <2>1. CASE old'[u] = {v \in Versions : Cached(v)} \cup overlay /\ pc'[u] = "stat"
    <3>1. f \notin Mounts
      BY <1>2, Zenon
    <3>2. Cached(f)
      BY <1>2, <2>1, <3>1, Zenon DEF TypeOK
    <3> QED
      BY <2>1, <3>2, <1>2, Zenon DEF Ranked, BeforeRename
  <2>2. CASE old'[u] \subseteq old[u]
    <3>1. f \in old[u] \cap Versions /\ Version[u] \in Versions /\ r[Version[u]] \in Nat
      BY <1>2, <2>2
    <3>2. r[f] > 0
      BY <3>1, Zenon DEF Ranked
    <3>3. CASE pc'[u] = pc[u]
      BY <3>1, <3>3, Zenon DEF Ranked, Lists, BeforeRename
    <3>4. CASE pc'[u] \notin BeforeRename \cup {"remove"}
      BY <3>2, <3>4, Zenon
    <3>5. CASE pc[u] \in BeforeRename /\ pc'[u] \in BeforeRename
      BY <3>1, <3>5, Zenon DEF Ranked, Lists, BeforeRename
    <3>6. CASE pc'[u] = "get" /\ ~Cached(Version[u])
      BY <3>1, <3>2, <3>6 DEF Ranked, Lists
    <3>7. CASE old'[u] = {v \in Versions : Cached(v)} \cup overlay /\ pc'[u] = "stat"
      BY <2>1, <3>7, Zenon
    <3> QED
      BY <3>3, <3>4, <3>5, <3>6, <3>7, Zenon DEF Lists
  <2> QED
    BY <2>1, <2>2, Zenon DEF Lists
<1> QED
  BY <1>1, <1>2, Zenon DEF Ranked, BeforeRename

\* An image that comes to the cache for the first time is ranked last.
LEMMA RenameRanks ==
  ASSUME TypeOK, NEW c \in Commands, Rename(c), fate[Version[c]] # "removed",
         NEW n \in Nat, NEW r \in [Versions -> 0 .. n], Ranked(n, r)
  PROVE  \E k \in Nat : \E q \in [Versions -> 0 .. k] : Ranked(k, q)'
<1> DEFINE v == Version[c]
<1> USE CommandFacts
<1>1. v \in Versions /\ r[v] \in 0 .. n
  BY Zenon
<1>2. /\ pc[c] = "rename" /\ pc'[c] \in {"overlay", "remove"} /\ (c \in Updates => pc'[c] = "remove")
      /\ \A d \in Commands : d # c => pc'[d] = pc[d]
      /\ Cached(v)' /\ \A w \in Versions : w # v => Cached(w)' = Cached(w)
      /\ UNCHANGED <<old, fate>>
  BY <1>1, Zenon DEF Rename, Goto, Cached, TypeOK
<1> HIDE DEF v
<1>3. CASE r[v] > 0
  <2>1. /\ n = 0 \/ \E w \in Versions : r[w] = n /\ Cached(w)'
        /\ \A w \in Versions : Cached(w)' => r[w] > 0
        /\ \A w \in Versions : r[w] > 0 => Cached(w)' \/ fate'[w] = "removed"
    BY <1>1, <1>2, <1>3, Zenon DEF Ranked
  <2>2. ASSUME NEW u \in Updates, NEW f \in old'[u] \cap Versions
        PROVE  /\ r[f] > 0
               /\ pc'[u] \in BeforeRename =>
                     \/ r[Version[u]] = 0 \/ r[f] < r[Version[u]]
                     \/ fate'[Version[u]] = "removed"
               /\ pc'[u] = "remove" /\ f # Version[u] => r[f] < r[Version[u]]
    <3>1. CASE u = c
      BY <3>1, <2>2, <1>2, <1>3 DEF Ranked, BeforeRename, v
    <3>2. CASE u # c
      BY <3>2, <2>2, <1>2, Zenon DEF Ranked, BeforeRename
    <3> QED
      BY <3>1, <3>2, Zenon
  <2>3. Ranked(n, r)'
    BY <2>1, <2>2, Zenon DEF Ranked, BeforeRename
  <2> QED
    BY <2>3, Zenon
<1>4. CASE r[v] = 0
  <2> DEFINE q == [r EXCEPT ![v] = n + 1]
  <2>1. q \in [Versions -> 0 .. n + 1] /\ q[v] = n + 1 /\ \A w \in Versions : w # v => q[w] = r[w]
    BY <1>1
  <2> HIDE DEF q
  <2>2. /\ \E w \in Versions : q[w] = n + 1 /\ Cached(w)'
        /\ \A w \in Versions : Cached(w)' => q[w] > 0
        /\ \A w \in Versions : q[w] > 0 => Cached(w)' \/ fate'[w] = "removed"
    BY <1>1, <1>2, <2>1 DEF Ranked
  <2>3. ASSUME NEW u \in Updates, NEW f \in old'[u] \cap Versions
        PROVE  /\ q[f] > 0
               /\ pc'[u] \in BeforeRename =>
                     \/ q[Version[u]] = 0 \/ q[f] < q[Version[u]]
                     \/ fate'[Version[u]] = "removed"
               /\ pc'[u] = "remove" /\ f # Version[u] => q[f] < q[Version[u]]
    <3>1. f \in Versions /\ r[f] > 0 /\ f # v /\ q[f] = r[f] /\ r[f] \in 0 .. n
      BY <2>3, <1>2, <1>4, <2>1 DEF Ranked
    <3>2. CASE Version[u] = v
      BY <3>1, <3>2, <2>1
    <3>3. CASE Version[u] # v
      <4>1. u # c /\ q[Version[u]] = r[Version[u]] /\ pc'[u] = pc[u] /\ f \in old[u] \cap Versions
        BY <3>3, <2>1, <2>3, <1>2, Zenon DEF v
      <4> QED
        BY <3>1, <4>1, <1>2, Zenon DEF Ranked, BeforeRename
    <3> QED
      BY <3>2, <3>3, Zenon
  <2>4. Ranked(n + 1, q)'
    BY <2>2, <2>3, Zenon DEF Ranked, BeforeRename
  <2> QED
    BY <2>1, <2>4
<1>5. r[v] > 0 \/ r[v] = 0
  BY <1>1
<1> QED
  BY <1>3, <1>4, <1>5, Zenon

\* An update removes no image that came after its own: not the last one.
LEMMA RemoveRanks ==
  ASSUME TypeOK, NEW u \in Updates, RemoveOld(u), \A v \in Versions : fate[v] # "back",
         NEW n \in Nat, NEW r \in [Versions -> 0 .. n], Ranked(n, r)
  PROVE  Ranked(n, r)'
<1> USE CommandFacts
<1>1. PICK f \in old[u] : old' = [old EXCEPT ![u] = @ \ {f}] /\ Remove(f, u)
  BY Zenon DEF RemoveOld
<1>2. /\ pc' = pc /\ pc[u] = "remove"
      /\ \A w \in Updates : old'[w] \subseteq old[w]
      /\ \A v \in Versions : Cached(v)' <=> Cached(v) /\ ~(v = f /\ v # Version[u])
      /\ \A v \in Versions : fate[v] = "removed" => fate'[v] = "removed"
      /\ \A v \in Versions : Cached(v) /\ ~Cached(v)' => fate'[v] = "removed"
  <2>1. pc' = pc /\ pc[u] = "remove" /\ \A w \in Updates : old'[w] \subseteq old[w]
    BY <1>1, Zenon DEF RemoveOld, TypeOK
  <2>2. \A v \in Versions : image'[v] = IF v = f /\ v # Version[u] THEN 0 ELSE image[v]
    BY <1>1, Zenon DEF Remove
  <2>3. \A v \in Versions :
            fate'[v] = IF image[v] # 0 /\ image'[v] = 0 /\ fate[v] = "kept"
                       THEN "removed" ELSE fate[v]
    BY <1>1, Zenon DEF Remove, Cached
  <2>4. \A v \in Versions : fate[v] \in {"kept", "removed"}
    BY Zenon DEF TypeOK
  <2> QED
    BY <2>1, <2>2, <2>3, <2>4, Zenon DEF Cached
<1>3. n = 0 \/ \E v \in Versions : r[v] = n /\ Cached(v)'
  <2> SUFFICES ASSUME n # 0, NEW v \in Versions, r[v] = n, Cached(v) PROVE Cached(v)'
    BY Zenon DEF Ranked
  <2>1. v = f => v = Version[u]
    BY <1>2 DEF Ranked
  <2> QED
    BY <2>1, <1>2, Zenon
<1>4. /\ \A v \in Versions : Cached(v)' => r[v] > 0
      /\ \A v \in Versions : r[v] > 0 => Cached(v)' \/ fate'[v] = "removed"
  BY <1>2, Zenon DEF Ranked
<1>5. ASSUME NEW w \in Updates, NEW g \in old'[w] \cap Versions
      PROVE  /\ r[g] > 0
             /\ pc'[w] \in BeforeRename =>
                   \/ r[Version[w]] = 0 \/ r[g] < r[Version[w]]
                   \/ fate'[Version[w]] = "removed"
             /\ pc'[w] = "remove" /\ g # Version[w] => r[g] < r[Version[w]]
  BY <1>2, <1>5, Zenon DEF Ranked, BeforeRename
<1> QED
  BY <1>3, <1>4, <1>5, Zenon DEF Ranked, BeforeRename

\* What a step that is neither a rename nor a removal does to the lists.
LEMMA OtherStepLists ==
  ASSUME TypeOK, [Next]_vars,
         \A c \in Commands : ~Rename(c), \A u \in Updates : ~RemoveOld(u)
  PROVE  Lists
<1> USE CommandFacts
<1> USE DEF Lists, BeforeRename
<1>1. ASSUME NEW c \in Commands, Download(c) PROVE Lists
  <2> USE DEF Goto, names, vms, past, TypeOK
  <2>1. GetFails(c) => Lists
    BY Zenon DEF GetFails
  <2>2. Create(c) => Lists
    BY Zenon DEF Create
  <2>3. Receive(c) => Lists
    BY Zenon DEF Receive
  <2>4. ReceiveFails(c) => Lists
    BY Zenon DEF ReceiveFails
  <2>5. Received(c) => Lists
    BY Zenon DEF Received
  <2>6. CloseFails(c) => Lists
    BY Zenon DEF CloseFails
  <2>7. RenameFails(c) => Lists
    BY Zenon DEF RenameFails
  <2> QED
    BY <1>1, <2>1, <2>2, <2>3, <2>4, <2>5, <2>6, <2>7, Zenon DEF Download
<1>2. ASSUME NEW c \in Commands, Dies(c) PROVE Lists
  BY <1>2, Zenon DEF Dies, names, TypeOK
<1>3. ASSUME NEW u \in Updates, List(u) \/ UpToDate(u) \/ Outdated(u) \/ Updated(u)
      PROVE  Lists
  <2> USE DEF Goto, names, vms, past, TypeOK
  <2>1. List(u) => Lists
    BY DEF List
  <2>2. UpToDate(u) => Lists
    BY DEF UpToDate
  <2>3. Outdated(u) => Lists
    BY Zenon DEF Outdated
  <2>4. Updated(u) => Lists
    BY Zenon DEF Updated
  <2> QED
    BY <1>3, <2>1, <2>2, <2>3, <2>4, Zenon
<1>4. ASSUME NEW m \in Mounts,
             Ensure(m) \/ CreateOverlay(m) \/ StartVM(m) \/ StartFails(m) \/ StopVM(m)
      PROVE  Lists
  <2>1. UNCHANGED <<image, fate, old>> /\ \A u \in Updates : pc'[u] = pc[u]
    BY <1>4 DEF Ensure, CreateOverlay, StartVM, StartFails, StopVM, Goto, names, past, vms, TypeOK
  <2> QED
    BY <2>1, Zenon
<1>5. ASSUME UNCHANGED vars PROVE Lists
  BY <1>5, Zenon DEF vars
<1> QED
  BY <1>1, <1>2, <1>3, <1>4, <1>5, Zenon DEF Next, Finished

\* Every step leaves a ranking.
LEMMA RankStep ==
  ASSUME TypeOK, RankInv, [Next]_vars
  PROVE  RankInv'
<1> USE CommandFacts
<1>1. ASSUME NEW v \in Versions, fate[v] = "back" PROVE fate'[v] = "back"
  <2>1. CASE \E c \in Commands : Rename(c)
    BY <1>1, <2>1 DEF Rename, TypeOK
  <2>2. CASE \E u \in Updates : RemoveOld(u)
    BY <1>1, <2>2, Zenon DEF RemoveOld, Remove, TypeOK
  <2> QED
    BY <1>1, <2>1, <2>2, OtherStepLists, Zenon DEF Lists
<1>2. CASE \E v \in Versions : fate[v] = "back"
  BY <1>1, <1>2, Zenon DEF RankInv
<1>3. ASSUME NEW n \in Nat, NEW r \in [Versions -> 0 .. n], Ranked(n, r),
             \A v \in Versions : fate[v] # "back"
      PROVE  RankInv'
  <2>1. ASSUME NEW c \in Commands, Rename(c) PROVE RankInv'
    <3>1. CASE fate[Version[c]] = "removed"
      <4>1. fate'[Version[c]] = "back"
        BY <2>1, <3>1, Zenon DEF Rename, TypeOK
      <4> QED
        BY <4>1, Zenon DEF RankInv
    <3>2. CASE fate[Version[c]] # "removed"
      BY <1>3, <2>1, <3>2, RenameRanks, Zenon DEF RankInv
    <3> QED
      BY <3>1, <3>2, Zenon
  <2>2. ASSUME NEW u \in Updates, RemoveOld(u) PROVE RankInv'
    BY <1>3, <2>2, RemoveRanks, Zenon DEF RankInv
  <2>3. CASE Lists
    BY <1>3, <2>3, ListsStep, Zenon DEF RankInv
  <2> QED
    BY <2>1, <2>2, <2>3, OtherStepLists, Zenon
<1> QED
  BY <1>2, <1>3, Zenon DEF RankInv

-----------------------------------------------------------------------------
(* Theorems                                                                *)

\* The inductive invariant.
THEOREM Invariance == Spec => []IInv
<1>1. Init => IInv
  <2> SUFFICES ASSUME Init PROVE IInv
    BY Zenon
  <2> USE CommandFacts
  <2>1. TypeOK
    <3>1. content \in Seq(SUBSET Whole) /\ Len(content) = 1
      BY DEF Init, Whole
    <3>2. image \in [Versions -> 0 .. 1]
      BY DEF Init
    <3> QED
      BY <3>1, <3>2, CacheAssumption DEF Init, TypeOK, Inodes
  <2>2. FileInv
    BY DEF Init, FileInv, TmpApart, Alone, Filled, DiskInv
  <2>3. RankInv
    <3>1. CASE \E v \in Versions : Cached(v)
      <4> DEFINE r == [v \in Versions |-> IF Cached(v) THEN 1 ELSE 0]
      <4>1. r \in [Versions -> 0 .. 1] /\ Ranked(1, r)
        BY <3>1 DEF Init, Ranked
      <4> QED
        BY <4>1, Zenon DEF RankInv
    <3>2. CASE ~\E v \in Versions : Cached(v)
      <4> DEFINE r == [v \in Versions |-> 0]
      <4>1. r \in [Versions -> 0 .. 0] /\ Ranked(0, r)
        BY <3>2 DEF Init, Ranked
      <4> QED
        BY <4>1, Zenon DEF RankInv
    <3> QED
      BY <3>1, <3>2, Zenon
  <2> QED
    BY <2>1, <2>2, <2>3, Zenon DEF IInv
<1>2. IInv /\ [Next]_vars => IInv'
  BY TypeStep, FileStep, RankStep, Zenon DEF IInv
<1> QED
  BY <1>1, <1>2, PTL DEF Spec

\* "DownloadFile downloads url to dest atomically": a cached image is whole,
\* unless two downloads of it met and are not over, or one was cut short.
THEOREM CachedImagesAreWhole == Spec => []CachedIsWhole
<1>1. IInv => CachedIsWhole
  <2> SUFFICES ASSUME IInv, NEW v \in Versions, Cached(v), content[image[v]] # Whole
               PROVE  v \in shared /\ (v \in cut \/ \E c \in Commands : Downloads(c, v))
    BY Zenon DEF CachedIsWhole
  <2>1. v \in shared
    BY AloneFills, Zenon DEF IInv, Cached
  <2>2. v \notin cut => BeingFilled(v, image[v])
    BY Zenon DEF IInv, FileInv, Filled, Cached
  <2> QED
    BY <2>1, <2>2, Zenon DEF BeingFilled, Fills, Downloads
<1> QED
  BY <1>1, Invariance, PTL

\* "the base image is never modified": a running VM keeps its overlay, and the
\* image under it stays whole unless two downloads of it met.
THEOREM RunningDisksAreKept == Spec => []RunningDiskIsKept
<1>1. IInv => RunningDiskIsKept
  BY Zenon DEF IInv, FileInv, DiskInv, RunningDiskIsKept
<1> QED
  BY <1>1, Invariance, PTL

\* Updates never leave the cache empty, as long as no image that one of them
\* removed was downloaded again.
THEOREM CacheIsNeverEmptied == Spec => SomeImageStays
<1>1. ASSUME IInv, [Next]_vars, \A v \in Versions : fate[v] # "back",
             NEW w \in Versions, Cached(w)
      PROVE  \E v \in Versions : Cached(v)'
  <2> USE CommandFacts
  <2>1. ASSUME NEW c \in Commands, Rename(c) PROVE \E v \in Versions : Cached(v)'
    BY <2>1, <1>1, Zenon DEF IInv, TypeOK, Rename, Cached
  <2>2. ASSUME NEW u \in Updates, RemoveOld(u) PROVE \E v \in Versions : Cached(v)'
    <3>1. PICK n \in Nat : \E r \in [Versions -> 0 .. n] : Ranked(n, r)
      BY <1>1, Zenon DEF IInv, RankInv
    <3>2. PICK r \in [Versions -> 0 .. n] : Ranked(n, r)
      BY <3>1, Zenon
    <3>3. Ranked(n, r)'
      BY <1>1, <2>2, <3>2, RemoveRanks, Zenon DEF IInv
    <3>4. n # 0
      BY <1>1, <3>2 DEF Ranked
    <3> QED
      BY <3>3, <3>4, Zenon DEF Ranked
  <2>3. CASE Lists
    BY <1>1, <2>3, Zenon DEF Lists, Cached
  <2> QED
    BY <1>1, <2>1, <2>2, <2>3, OtherStepLists, Zenon DEF IInv
<1>2. IInv /\ [Next]_vars =>
        [(\A v \in Versions : fate[v] # "back") /\ (\E v \in Versions : Cached(v))
           => (\E v \in Versions : Cached(v))']_vars
  BY <1>1, Zenon
<1> QED
  BY <1>2, Invariance, PTL DEF Spec, SomeImageStays

=============================================================================

-------------------------- MODULE PartitionRegistry --------------------------
(***************************************************************************)
(* The ioctls of the kernel module on its registry of partitions           *)
(* (bdfs_main.c), on the image and subvolume lists of the partitions       *)
(* (bdfs_dwarfs_part.c, bdfs_btrfs_part.c) and on the list of blend mounts *)
(* (bdfs_blend.c), called by any number of processes at once.              *)
(*                                                                         *)
(* An ioctl holds a lock only while it searches or changes one list, so it *)
(* is split where it lets go of one, and at its event.  A listener of the  *)
(* netlink group sees the events in the order of emission; what it has     *)
(* been told is in the history variables.  A request for the lists of a    *)
(* kind of partition is made for a partition of that kind.                 *)
(***************************************************************************)
EXTENDS Naturals, Sequences, Functions

CONSTANTS Procs,
          Uuids,
          BlendPoints,     \* mount points of blends
          MountPoints,     \* mount points of images
          NoMount,
          MaxEntries,      \* bound: registrations and blend mounts
          MaxImages, MaxSubvols  \* bounds: items of a partition

MaxIds == [images |-> MaxImages, subvols |-> MaxSubvols]

ASSUME RegistryAssumption ==
    /\ Uuids \cap BlendPoints = {}
    /\ MaxEntries \in Nat

VARIABLES
    registry,   \* bdfs_partition_list: entries, oldest first
    part,       \* part[e]: partition entry e and its lists, or blend mount e
    blends,     \* bdfs_blend_mounts: blend mounts, oldest first
    req,        \* req[p]: the ioctl process p is in
    last,       \* history: the last added/removed event of an object
    announced,  \* history: <<uuid, list, id>> an event or a reply has named
    twin,       \* history: objects added while they were there
    raced       \* history: objects with overlapping requests

vars == <<registry, part, blends, req, last, announced, twin, raced>>
history == <<last, announced, twin, raced>>

Objects == Uuids \cup BlendPoints
Kinds   == {"dwarfs", "btrfs", "blend"}
Lists   == {"images", "subvols"}

\* A request op on entry of obj; id and mount are the arguments of some.
Request(op, at, obj, entry, id, mount) ==
    [op |-> op, at |-> at, obj |-> obj, entry |-> entry, id |-> id, mount |-> mount]
Requests ==
    [op : {"none", "register", "unregister", "blend", "export", "store", "import", "snapshot",
           "mount", "umount"},
     at : {"idle", "emit", "destroy", "find", "allocate", "add", "reply", "record", "told", "clear"},
     obj : Objects \cup {NoMount}, entry : Nat, id : Nat, mount : MountPoints \cup {NoMount}]
Idle == Request("none", "idle", NoMount, 0, 0, NoMount)

\* An item of a list; told is the mount point of the last event on it, clash
\* is set when a mount and an unmount, or two mounts of it, overlap.
Items == [id : Nat, mount : MountPoints \cup {NoMount}, told : MountPoints \cup {NoMount},
          clash : BOOLEAN]
Item(id) == [id |-> id, mount |-> NoMount, told |-> NoMount, clash |-> FALSE]

Entries == [uuid : Objects, kind : Kinds \cup {"mount"}, live : BOOLEAN,
            next : [Lists -> Nat], list : [Lists -> Seq(Items)]]
NewEntry(u, kind) ==
    [uuid |-> u, kind |-> kind, live |-> TRUE,
     next |-> [l \in Lists |-> 1], list |-> [l \in Lists |-> <<>>]]

\* ops->destroy and kfree.
Freed(entry) == [NewEntry(entry.uuid, entry.kind) EXCEPT !.live = FALSE]

Init ==
    /\ registry = <<>> /\ part = <<>> /\ blends = <<>>
    /\ req = [p \in Procs |-> Idle]
    /\ last = [o \in Objects |-> "none"]
    /\ announced = {} /\ twin = {} /\ raced = {}

\* The first entry with the UUID (bdfs_find_partition_locked, and the loop
\* each ioctl has of its own), or the first blend mount with the mount point.
EntriesFor(o) == IF o \in Uuids THEN registry ELSE blends
Matching(o)   == {i \in DOMAIN EntriesFor(o) : part[EntriesFor(o)[i]].uuid = o}
Registered(o) == Matching(o) # {}
Position(o)   == CHOOSE i \in Matching(o) : \A j \in Matching(o) : i <= j
Find(o)       == EntriesFor(o)[Position(o)]

\* list_del of the i-th entry.
Delete(entries, i) ==
    [j \in 1 .. Len(entries) - 1 |-> IF j < i THEN entries[j] ELSE entries[j + 1]]

HasId(list, id) == \E i \in DOMAIN list : list[i].id = id
IndexOf(list, id) == CHOOSE i \in DOMAIN list : list[i].id = id

Goto(p, at) == req' = [req EXCEPT ![p].at = at]
Done(p)     == req' = [req EXCEPT ![p] = Idle]

\* Requests on o of the kinds ops.
Under(o, ops) == {q \in Procs : req[q].op \in ops /\ req[q].obj = o}
Holders(e)    == {q \in Procs : req[q].op # "none" /\ req[q].entry = e}

-----------------------------------------------------------------------------
(* Registration                                                            *)

AddEntry(p, u, kind, newRegistry) ==
    /\ req[p] = Idle /\ Len(part) < MaxEntries
    /\ part' = Append(part, NewEntry(u, kind))
    /\ registry' = newRegistry
    /\ req' = [req EXCEPT ![p] = Request("register", "emit", u, Len(part) + 1, 0, NoMount)]
    /\ twin' = IF Registered(u) THEN twin \cup {u} ELSE twin
    /\ raced' = IF Under(u, {"unregister"}) # {} THEN raced \cup {u} ELSE raced
    /\ UNCHANGED <<blends, last, announced>>

\* bdfs_register_partition up to the unlock; a UUID that is registered
\* already is not refused.
Register(p, u, kind) == AddEntry(p, u, kind, Append(registry, Len(part) + 1))

EmitAdded(p) ==
    /\ req[p].op \in {"register", "blend"} /\ req[p].at = "emit"
    /\ last' = [last EXCEPT ![req[p].obj] = "added"]
    /\ Done(p)
    /\ UNCHANGED <<registry, part, blends, announced, twin, raced>>

RemoveEntry(p, u, newRegistry) ==
    /\ req[p] = Idle /\ Registered(u)
    /\ registry' = newRegistry
    /\ announced' = {a \in announced : a[1] # u}
    /\ req' = [req EXCEPT ![p] = Request("unregister", "destroy", u, Find(u), 0, NoMount)]
    /\ raced' = IF Holders(Find(u)) # {} THEN raced \cup {u} ELSE raced
    /\ UNCHANGED <<part, blends, last, twin>>

\* A bug to check against: the entry is not taken off the list.
UnregisterKeepsEntry(p, u) == RemoveEntry(p, u, registry)

\* bdfs_unregister_partition up to the unlock (-ENOENT if there is none).
Unregister(p, u) == RemoveEntry(p, u, Delete(registry, Position(u)))

\* ops->destroy and kfree.  A request that still uses the entry works on
\* freed memory from here on and is not followed; a registration only has its
\* event left to send.
Destroy(p) ==
    /\ req[p].op = "unregister"
    /\ LET e == req[p].entry IN
       /\ part' = [part EXCEPT ![e] = Freed(@)]
       /\ req' = [q \in Procs |->
                    IF q \in Holders(e) /\ (q = p \/ req[q].op # "register")
                    THEN Idle ELSE req[q]]
    /\ UNCHANGED <<registry, blends, announced, twin, raced>>

\* A bug to check against: no event for a partition with images.
EmitRemovedIfEmpty(p) ==
    /\ Destroy(p)
    /\ last' = IF part[req[p].entry].list["images"] = <<>>
               THEN [last EXCEPT ![req[p].obj] = "removed"] ELSE last

\* The rest of bdfs_unregister_partition.
EmitRemoved(p) ==
    /\ Destroy(p)
    /\ last' = [last EXCEPT ![req[p].obj] = "removed"]

\* bdfs_exit and bdfs_init: the module goes when no ioctl is under way; the
\* entries are destroyed without an event.
Reload ==
    /\ \A p \in Procs : req[p] = Idle
    /\ registry' = <<>> /\ blends' = <<>>
    /\ part' = [e \in DOMAIN part |-> Freed(part[e])]
    /\ announced' = {}
    /\ raced' = raced \cup {o \in Objects : last[o] = "added"}
    /\ UNCHANGED <<req, last, twin>>

-----------------------------------------------------------------------------
(* New images and subvolumes                                               *)

\* The list an ioctl adds to.
ListOf(op) == IF op \in {"export", "store"} THEN "images" ELSE "subvols"

\* The find at the head of an ioctl on partition u.
Begin(p, op, u, kind, id, mount, at) ==
    /\ req[p] = Idle /\ Registered(u) /\ part[Find(u)].kind = kind
    /\ req' = [req EXCEPT ![p] = Request(op, at, u, Find(u), id, mount)]
    /\ UNCHANGED <<registry, part, blends, history>>

Export(p, u) == Begin(p, "export", u, "dwarfs", 0, NoMount, "allocate")
Store(p, u)  == Begin(p, "store", u, "btrfs", 0, NoMount, "allocate")
Import(p, u, id)   == Begin(p, "import", u, "btrfs", id, NoMount, "find")
Snapshot(p, u, id) == Begin(p, "snapshot", u, "btrfs", id, NoMount, "find")

\* The search for the image in the list of the partition (-ENOENT).
FindImage(p) ==
    /\ req[p].at = "find"
    /\ IF HasId(part[req[p].entry].list["images"], req[p].id)
       THEN Goto(p, CASE req[p].op = "mount"  -> "record"
                      [] req[p].op = "umount" -> "emit"
                      [] OTHER                -> "allocate")
       ELSE Done(p)
    /\ UNCHANGED <<registry, part, blends, history>>

\* A bug to check against: the id is the length of the list, not the counter.
IdFromList(e, l) == Len(part[e].list[l]) + 1

\* The value of next_image_id or next_subvol_seq.
NextId(e, l) == part[e].next[l]

\* kzalloc, and atomic64_fetch_add on the counter.
Allocate(p) ==
    /\ req[p].at = "allocate"
    /\ LET e == req[p].entry
           l == ListOf(req[p].op)
       IN /\ part[e].next[l] <= MaxIds[l]
          /\ part' = [part EXCEPT ![e].next[l] = @ + 1]
          /\ req' = [req EXCEPT ![p].id = NextId(e, l), ![p].at = "add"]
    /\ UNCHANGED <<registry, blends, history>>

\* kzalloc fails: -ENOMEM.
NoMemory(p) ==
    /\ req[p].at = "allocate"
    /\ Done(p)
    /\ UNCHANGED <<registry, part, blends, history>>

\* A bug to check against: list_add instead of list_add_tail.
AddAtHead(p) ==
    /\ req[p].at = "add"
    /\ part' = [part EXCEPT ![req[p].entry].list[ListOf(req[p].op)] =
                  <<Item(req[p].id)>> \o @]
    /\ Goto(p, "reply")
    /\ UNCHANGED <<registry, blends, history>>

\* list_add_tail under the lock of the partition.
Add(p) ==
    /\ req[p].at = "add"
    /\ part' = [part EXCEPT ![req[p].entry].list[ListOf(req[p].op)] =
                  Append(@, Item(req[p].id))]
    /\ Goto(p, "reply")
    /\ UNCHANGED <<registry, blends, history>>

\* The event, and the id in the reply.
Announce(p) ==
    /\ req[p].at = "reply"
    /\ announced' = announced \cup {<<req[p].obj, ListOf(req[p].op), req[p].id>>}
    /\ Done(p)
    /\ UNCHANGED <<registry, part, blends, last, twin, raced>>

-----------------------------------------------------------------------------
(* Mount and unmount of images                                             *)

Mount(p, u, id, mp) == Begin(p, "mount", u, "dwarfs", id, mp, "find")
Umount(p, u, id)    == Begin(p, "umount", u, "dwarfs", id, NoMount, "find")

Place(p) == IndexOf(part[req[p].entry].list["images"], req[p].id)
ImageOf(p) == part[req[p].entry].list["images"][Place(p)]

\* Another request is between its two effects on p's image.
Overlaps(p) ==
    \E q \in Procs \ {p} :
        /\ req[q].at \in {"told", "clear"}
        /\ req[q].entry = req[p].entry /\ req[q].id = req[p].id

SetImage(p, item, at) ==
    /\ part' = [part EXCEPT ![req[p].entry].list["images"][Place(p)] = item]
    /\ IF at = "idle" THEN Done(p) ELSE Goto(p, at)
    /\ UNCHANGED <<registry, blends, history>>

\* bdfs_dwarfs_mount_image writes the mount point; -EBUSY is never returned,
\* as no code sets desc.mounted.
RecordMount(p) ==
    /\ req[p].at = "record"
    /\ SetImage(p, [ImageOf(p) EXCEPT !.mount = req[p].mount,
                                      !.clash = @ \/ Overlaps(p)], "told")

EmitMount(p) ==
    /\ req[p].at = "told"
    /\ SetImage(p, [ImageOf(p) EXCEPT !.told = req[p].mount], "idle")

\* bdfs_dwarfs_umount_image sends the event first and then clears.
EmitUmount(p) ==
    /\ req[p].op = "umount" /\ req[p].at = "emit"
    /\ SetImage(p, [ImageOf(p) EXCEPT !.told = NoMount,
                                      !.clash = @ \/ Overlaps(p)], "clear")

\* A bug to check against: only the flag is cleared.
ClearFlagOnly(p) == req[p].at = "clear" /\ SetImage(p, ImageOf(p), "idle")

ClearMount(p) ==
    /\ req[p].at = "clear"
    /\ SetImage(p, [ImageOf(p) EXCEPT !.mount = NoMount], "idle")

-----------------------------------------------------------------------------
(* Blend mounts                                                            *)

\* bdfs_blend_mount up to the unlock; its event comes after it.
BlendMount(p, b) ==
    /\ req[p] = Idle /\ Len(part) < MaxEntries
    /\ part' = Append(part, NewEntry(b, "mount"))
    /\ blends' = Append(blends, Len(part) + 1)
    /\ req' = [req EXCEPT ![p] = Request("blend", "emit", b, Len(part) + 1, 0, NoMount)]
    /\ twin' = IF Registered(b) THEN twin \cup {b} ELSE twin
    /\ UNCHANGED <<registry, last, announced, raced>>

\* bdfs_blend_umount: the first match, with the event inside the lock.
BlendUmount(p, b) ==
    /\ req[p] = Idle /\ Registered(b)
    /\ blends' = Delete(blends, Position(b))
    /\ part' = [part EXCEPT ![Find(b)] = Freed(@)]
    /\ last' = [last EXCEPT ![b] = "removed"]
    /\ raced' = IF Under(b, {"blend"}) # {} THEN raced \cup {b} ELSE raced
    /\ UNCHANGED <<registry, req, announced, twin>>

-----------------------------------------------------------------------------
(* Listings, each under the lock of its list: at most count items, and the *)
(* total                                                                   *)

ListPartitions(count) ==
    [copied |-> [i \in {i \in DOMAIN registry : i <= count} |-> registry[i]],
     total  |-> Len(registry)]

\* bdfs_dwarfs_list_images, bdfs_btrfs_list_subvols.
ListItems(u, l, count) ==
    LET list == part[Find(u)].list[l]
    IN [copied |-> [i \in {i \in DOMAIN list : i <= count} |-> list[i].id],
        total  |-> Len(list)]

-----------------------------------------------------------------------------

PartitionOps(p, u) ==
    \/ Unregister(p, u)
    \/ \E kind \in Kinds : Register(p, u, kind)
    \/ Export(p, u) \/ Store(p, u)
    \/ \E id \in 1 .. MaxImages :
         \/ Import(p, u, id) \/ Snapshot(p, u, id) \/ Umount(p, u, id)
         \/ \E mp \in MountPoints : Mount(p, u, id, mp)

Step(p) ==
    \/ EmitAdded(p) \/ EmitRemoved(p)
    \/ FindImage(p) \/ Allocate(p) \/ NoMemory(p) \/ Add(p) \/ Announce(p)
    \/ RecordMount(p) \/ EmitMount(p) \/ EmitUmount(p) \/ ClearMount(p)

Next ==
    \/ \E p \in Procs :
         \/ Step(p)
         \/ \E u \in Uuids : PartitionOps(p, u)
         \/ \E b \in BlendPoints : BlendMount(p, b) \/ BlendUmount(p, b)
    \/ Reload

Spec == Init /\ [][Next]_vars

-----------------------------------------------------------------------------
(* Properties                                                              *)

\* Types, and the lifetime of the entries: what is on the list is not freed,
\* is there once, and what a request other than a registration or a blend
\* mount holds is not freed either in the steps the model follows.
TypeOK ==
    /\ part \in Seq(Entries)
    /\ Len(part) <= MaxEntries
    /\ \A e \in DOMAIN part, l \in Lists :
         \A i \in DOMAIN part[e].list[l] : part[e].list[l][i].id < part[e].next[l]
    /\ registry \in Seq(DOMAIN part) /\ blends \in Seq(DOMAIN part)
    /\ IsInjective(registry) /\ IsInjective(blends)
    /\ Range(registry) \cap Range(blends) = {}
    /\ \A e \in Range(registry) \cup Range(blends) : part[e].live
    /\ req \in [Procs -> Requests]
    /\ \A p \in Procs : req[p].op \notin {"none", "register", "blend"} =>
                          req[p].entry \in DOMAIN part /\ part[req[p].entry].live
    /\ last \in [Objects -> {"none", "added", "removed"}]
    /\ announced \subseteq Uuids \X Lists \X Nat
    /\ twin \subseteq Objects /\ raced \subseteq Objects

\* What a listener was told last of a partition or of a blend mount is
\* whether it is there, once no registration, removal or mount of it is under
\* way: except for one that was added twice, one whose removal overtook its
\* ADDED event, and a reloaded module.
ListenerKnows ==
    \A o \in Objects \ (twin \cup raced) :
        Under(o, {"register", "unregister", "blend"}) = {} =>
            ((last[o] = "added") <=> Registered(o))

\* An image or subvolume id that an event or a reply has named names exactly
\* one item, in the entry that every later request for its partition finds,
\* however many exports run at once and even if the same UUID is registered
\* again; until the partition is unregistered.  Left out are the UUIDs in
\* raced: unregistered while a request was using the entry, registered again
\* before that was over, or there when the module was reloaded.
AnnouncedIsFound ==
    \A a \in announced : a[1] \notin raced =>
        /\ Registered(a[1])
        /\ LET list == part[Find(a[1])].list[a[2]]
           IN  /\ HasId(list, a[3])
               /\ \A i, j \in DOMAIN list : list[i].id = a[3] /\ list[j].id = a[3] => i = j

\* The mount point that the image list reports is the one of the last mount
\* event, or none after an unmount event, once no mount or unmount of the
\* image is under way: except where two of them overlapped.
RecordMatchesEvents ==
    \A e \in Range(registry) : \A i \in DOMAIN part[e].list["images"] :
        LET img == part[e].list["images"][i] IN
        \/ img.clash
        \/ \E q \in Procs : /\ req[q].at \in {"told", "clear"}
                            /\ req[q].entry = e /\ req[q].id = img.id
        \/ img.mount = img.told

\* Asking for the number of partitions, images or subvolumes and then for
\* that many, as the policy scan does, gives those that were there at the
\* first call, as long as no partition is unregistered in between.
TwoCallListing ==
    [][Range(registry) \subseteq Range(registry') =>
         /\ \A n \in {ListPartitions(0).total} :
              ListPartitions(n)'.copied = ListPartitions(n).copied
         /\ \A u \in Uuids, l \in Lists : Registered(u) =>
              \A n \in {ListItems(u, l, 0).total} :
                ListItems(u, l, n)'.copied = ListItems(u, l, n).copied]_vars
=============================================================================

---------------------- MODULE PartitionRegistryProofs ----------------------
(***************************************************************************)
(* Proofs about PartitionRegistry, for any number of processes, partitions *)
(* and items.                                                              *)
(*                                                                         *)
(* Both lists are in the order of registration, so that a search finds the *)
(* oldest entry of an object and a later registration does not change what *)
(* it finds.  Requests under way, and ids that were announced, are then of *)
(* the entry that the next request finds.  Ids come from a counter that    *)
(* only grows.  An object whose requests did not cross has one request at  *)
(* a time that changes whether it is there, which ends with its event.     *)
(*                                                                         *)
(* The first part is about lists of entries, the second about the frame of *)
(* a step: what a step on one request, one entry or one item leaves alone. *)
(* Then each step is shown to keep the invariant.                          *)
(***************************************************************************)
EXTENDS PartitionRegistry, TLAPS

\* The ioctls on the lists of a partition.
Working  == {"export", "store", "import", "snapshot", "mount", "umount"}
Adding   == {"export", "store", "import", "snapshot"}
\* Those that change whether an object is there.
Changing == {"register", "unregister", "blend"}

\* Entry e is one of object o.
Here(e, o) == e \in Range(EntriesFor(o)) /\ part[e].uuid = o

\* Of any places of a list, one is the first: what a search relies on.  It is
\* kept as the list grows and shrinks, so that it needs no induction over the
\* length.
Searchable(s) == \A T \in SUBSET DOMAIN s : T # {} => \E i \in T : \A j \in T : i <= j

Ascending(s) == Searchable(s) /\ \A i, j \in DOMAIN s : i < j => s[i] < s[j]

\* Where a request of each kind can be.
Places(op) ==
    CASE op = "none" -> {"idle"}
      [] op \in {"register", "blend"} -> {"emit"}
      [] op = "unregister" -> {"destroy"}
      [] op = "mount" -> {"find", "record", "told"}
      [] op = "umount" -> {"find", "emit", "clear"}
      [] op \in Adding -> {"find", "allocate", "add", "reply"}

\* What is so of a request, given the entries and the registry: it holds an
\* entry of its object, which an unregister has taken off the list.
Sound(r, entries, list) ==
    /\ r \in Requests /\ r.at \in Places(r.op)
    /\ r.op = "none" => r = Idle
    /\ r.op # "none" => r.entry \in DOMAIN entries /\ entries[r.entry].uuid = r.obj
    /\ r.op \notin {"none", "register", "blend"} => entries[r.entry].live
    /\ r.op \in Working \cup {"register", "unregister"} => r.obj \in Uuids
    /\ r.op = "blend" => r.obj \in BlendPoints
    /\ r.op = "unregister" => r.entry \notin Range(list)

\* The lists are in the order of registration.
HoldInv ==
    /\ Ascending(registry) /\ Ascending(blends)
    /\ \A e \in Range(registry) : part[e].uuid \in Uuids
    /\ \A e \in Range(blends) : part[e].uuid \in BlendPoints
    /\ \A p \in Procs : Sound(req[p], part, registry)

\* An object that was added once at a time, and whose requests did not cross,
\* has one entry and one request that changes that, and the listener is told
\* at the end of it.
EventOf(o) ==
    /\ \A d, e \in DOMAIN part : Here(d, o) /\ Here(e, o) => d = e
    /\ \A p, q \in Under(o, Changing) : p = q
    /\ \A p \in Under(o, {"register", "blend"}) : Here(req[p].entry, o)
    /\ Under(o, {"unregister"}) # {} => ~Registered(o)
    /\ Under(o, Changing) = {} => (last[o] = "added" <=> Registered(o))

EventInv == \A o \in Objects \ (twin \cup raced) : EventOf(o)

\* Requests under way, and ids that were told, are of the entry that a search
\* finds.
FoundInv ==
    /\ \A p \in Procs : req[p].op \in Working /\ req[p].obj \notin raced =>
          Registered(req[p].obj) /\ Find(req[p].obj) = req[p].entry
    /\ \A a \in announced : a[1] \notin raced =>
          Registered(a[1]) /\ HasId(part[Find(a[1])].list[a[2]], a[3])

\* The item that a request is about is on the list of its entry, or not yet.
Holds(r, entries) ==
    /\ r.at = "add" =>
          /\ r.id < entries[r.entry].next[ListOf(r.op)]
          /\ ~HasId(entries[r.entry].list[ListOf(r.op)], r.id)
    /\ r.at = "reply" => HasId(entries[r.entry].list[ListOf(r.op)], r.id)
    /\ r.at \in {"record", "told", "clear"} \/ (r.op = "umount" /\ r.at = "emit") =>
          HasId(entries[r.entry].list["images"], r.id)

\* Two requests are about to add the same item.
Rivals(r, s) ==
    /\ r.at = "add" /\ s.at = "add" /\ r.entry = s.entry
    /\ ListOf(r.op) = ListOf(s.op) /\ r.id = s.id

UniqueIds(list) == \A i, j \in DOMAIN list : list[i].id = list[j].id => i = j

\* Ids are used once.
IdInv ==
    /\ \A e \in DOMAIN part, l \in Lists : UniqueIds(part[e].list[l])
    /\ \A p \in Procs : Holds(req[p], part)
    /\ \A p, q \in Procs : Rivals(req[p], req[q]) => p = q

\* A request is between its two effects on an image of entry e.
Amid(r, e, id) == r.at \in {"told", "clear"} /\ r.entry = e /\ r.id = id

\* Half-way through, a mount has recorded its mount point and an unmount has
\* told of it, unless another request was half-way through as well.
Settled(img, e, reqs) ==
    \/ img.clash
    \/ /\ \A p, q \in Procs : Amid(reqs[p], e, img.id) /\ Amid(reqs[q], e, img.id) => p = q
       /\ \A p \in Procs : Amid(reqs[p], e, img.id) =>
             IF reqs[p].at = "told" THEN img.mount = reqs[p].mount ELSE img.told = NoMount
       /\ (\A p \in Procs : ~Amid(reqs[p], e, img.id)) => img.mount = img.told

ImageInv ==
    \A e \in DOMAIN part : \A i \in DOMAIN part[e].list["images"] :
        Settled(part[e].list["images"][i], e, req)

IInv == TypeOK /\ HoldInv /\ EventInv /\ FoundInv /\ IdInv /\ ImageInv

-----------------------------------------------------------------------------
(* Lists of entries                                                        *)

\* Adding an entry at the end of a list.
LEMMA AppendFacts ==
    ASSUME NEW M, NEW s \in Seq(M), NEW x \in M
    PROVE  /\ Append(s, x) \in Seq(M) /\ Range(Append(s, x)) = Range(s) \cup {x}
           /\ DOMAIN Append(s, x) = DOMAIN s \cup {Len(s) + 1} /\ Len(s) + 1 \notin DOMAIN s
           /\ Append(s, x)[Len(s) + 1] = x /\ \A i \in DOMAIN s : Append(s, x)[i] = s[i]
           /\ IsInjective(s) /\ x \notin Range(s) => IsInjective(Append(s, x))
<1>1. /\ Append(s, x) \in Seq(M) /\ DOMAIN Append(s, x) = DOMAIN s \cup {Len(s) + 1}
      /\ Append(s, x)[Len(s) + 1] = x /\ \A i \in DOMAIN s : Append(s, x)[i] = s[i]
      /\ Len(s) + 1 \notin DOMAIN s
  OBVIOUS
<1>2. Range(Append(s, x)) = Range(s) \cup {x}
  BY <1>1, Zenon DEF Range
<1>3. IsInjective(s) /\ x \notin Range(s) => IsInjective(Append(s, x))
  BY <1>1, Zenon DEF Range, IsInjective
<1> QED
  BY <1>1, <1>2, <1>3, Zenon

\* A new entry, numbered after all others, keeps a list ascending.
LEMMA AppendAscends ==
    ASSUME NEW s \in Seq(Nat), NEW x \in Nat, Ascending(s), \A e \in Range(s) : e < x
    PROVE  Ascending(Append(s, x))
<1>1. \A i \in DOMAIN s : s[i] \in Range(s)
  BY Zenon DEF Range
<1>2. Searchable(Append(s, x))
  <2> DEFINE n == Len(s) + 1
  <2>1. DOMAIN Append(s, x) = DOMAIN s \cup {n} /\ n \in Nat /\ \A j \in DOMAIN s : j \in Nat /\ j <= n
    OBVIOUS
  <2> HIDE DEF n
  <2> SUFFICES ASSUME NEW T \in SUBSET DOMAIN Append(s, x), T # {}
               PROVE  \E i \in T : \A j \in T : i <= j
    BY Zenon DEF Searchable
  <2>2. CASE T \cap DOMAIN s = {}
    <3>1. \A j \in T : j = n
      BY <2>1, <2>2, Zenon
    <3>2. n <= n
      BY <2>1
    <3> QED
      BY <3>1, <3>2, Zenon
  <2>3. CASE T \cap DOMAIN s # {}
    <3>1. PICK i \in T \cap DOMAIN s : \A j \in T \cap DOMAIN s : i <= j
      BY <2>3, Zenon DEF Ascending, Searchable
    <3>2. \A j \in T : j \in T \cap DOMAIN s \/ j = n
      BY <2>1, Zenon
    <3> QED
      BY <2>1, <3>1, <3>2, Zenon
  <2> QED
    BY <2>2, <2>3, Zenon
<1>3. \A i, j \in DOMAIN Append(s, x) : i < j => Append(s, x)[i] < Append(s, x)[j]
  BY <1>1 DEF Ascending
<1> QED
  BY <1>2, <1>3, Zenon DEF Ascending

\* Taking one off.
LEMMA DeleteFacts ==
    ASSUME NEW M, NEW s \in Seq(M), NEW k \in DOMAIN s, IsInjective(s)
    PROVE  /\ Delete(s, k) \in Seq(M) /\ IsInjective(Delete(s, k))
           /\ Range(Delete(s, k)) = Range(s) \ {s[k]}
           /\ s \in Seq(Nat) /\ Ascending(s) => Ascending(Delete(s, k))
<1> DEFINE d == Delete(s, k)
           n == Len(s)
           at(i) == IF i < k THEN i ELSE i + 1
<1>1. n \in Nat /\ DOMAIN s = 1 .. n /\ k \in 1 .. n
  OBVIOUS
<1>2. DOMAIN d = 1 .. n - 1 /\ \A i \in 1 .. n - 1 : d[i] = s[at(i)]
  BY <1>1 DEF Delete
<1>3. /\ \A i \in 1 .. n - 1 : at(i) \in 1 .. n /\ at(i) # k
      /\ \A i, j \in 1 .. n - 1 : (at(i) = at(j) => i = j) /\ (i < j => at(i) < at(j))
  BY <1>1
<1>4. d \in Seq(M)
  <2>1. n - 1 \in Nat /\ \A i \in 1 .. n - 1 : s[at(i)] \in M
    BY <1>1, <1>3
  <2>2. d = [i \in 1 .. n - 1 |-> s[at(i)]]
    BY <1>2, Zenon DEF Delete
  <2> QED
    BY <2>1, <2>2
<1> HIDE DEF d, at
<1>8. IsInjective(d)
  BY <1>1, <1>2, <1>3, Zenon DEF IsInjective
<1>9. ASSUME NEW i \in 1 .. n - 1 PROVE d[i] \in Range(s) /\ d[i] # s[k]
  BY <1>1, <1>2, <1>3, <1>9, Zenon DEF IsInjective, Range
<1>5. ASSUME NEW i \in 1 .. n, i # k PROVE s[i] \in Range(d)
  <2>1. \E j \in 1 .. n - 1 : at(j) = i
    <3>1. CASE i < k
      <4>1. i \in 1 .. n - 1 /\ at(i) = i
        BY <1>1, <1>5, <3>1 DEF at
      <4> QED
        BY <4>1, Zenon
    <3>2. CASE i > k
      <4>1. i - 1 \in 1 .. n - 1 /\ at(i - 1) = i
        BY <1>1, <1>5, <3>2 DEF at
      <4> QED
        BY <4>1, Zenon
    <3> QED
      BY <1>1, <1>5, <3>1, <3>2
  <2> QED
    BY <1>2, <2>1, Zenon DEF Range
<1>6. Range(d) = Range(s) \ {s[k]}
  <2>1. \A x \in Range(d) : x \in Range(s) /\ x # s[k]
    BY <1>2, <1>9, Zenon DEF Range
  <2>2. \A x \in Range(s) : x # s[k] => x \in Range(d)
    BY <1>1, <1>5, Zenon DEF Range
  <2> QED
    BY <2>1, <2>2, Zenon
<1>7. ASSUME s \in Seq(Nat), Ascending(s) PROVE Ascending(d)
  <2>1. \A i, j \in DOMAIN d : i < j => d[i] < d[j]
    BY <1>1, <1>2, <1>3, <1>7, Zenon DEF Ascending
  <2>2. DOMAIN d \subseteq DOMAIN s
    BY <1>1, <1>2
  <2>3. Searchable(d)
    BY <1>7, <2>2, Zenon DEF Ascending, Searchable
  <2> QED
    BY <2>1, <2>3, Zenon DEF Ascending
<1> QED
  BY <1>4, <1>6, <1>7, <1>8, Zenon DEF d

\* The search finds the oldest entry of the object.
LEMMA FindFacts ==
    ASSUME NEW o, EntriesFor(o) \in Seq(Nat), Ascending(EntriesFor(o)), Registered(o)
    PROVE  /\ Position(o) \in DOMAIN EntriesFor(o) /\ Find(o) \in Nat
           /\ Here(Find(o), o) /\ \A e : Here(e, o) => e \in Nat /\ Find(o) <= e
<1> DEFINE s == EntriesFor(o)
<1>1. Matching(o) \in SUBSET Nat /\ DOMAIN s \subseteq Nat
  BY DEF Matching
<1>2. PICK i \in Matching(o) : TRUE
  BY Zenon DEF Registered
<1>3. \E k \in Matching(o) : \A j \in Matching(o) : k <= j
  <2>1. Matching(o) \subseteq DOMAIN s
    BY Zenon DEF Matching
  <2> QED
    BY <1>2, <2>1, Zenon DEF Ascending, Searchable
<1>4. Position(o) \in Matching(o) /\ \A j \in Matching(o) : Position(o) <= j
  BY <1>3, Zenon DEF Position
<1>5. Position(o) \in DOMAIN s /\ Find(o) = s[Position(o)] /\ part[Find(o)].uuid = o
  BY <1>4, Zenon DEF Matching, Find
<1>6. ASSUME NEW e, Here(e, o) PROVE e \in Nat /\ Find(o) <= e
  <2>1. PICK j \in DOMAIN s : s[j] = e
    BY <1>6, Zenon DEF Here, Range
  <2>2. j \in Matching(o) /\ s[j] \in Nat /\ s[Position(o)] \in Nat
    BY <1>5, <1>6, <2>1 DEF Matching, Here
  <2>3. Position(o) <= j
    BY <1>4, <2>2, Zenon
  <2>4. Position(o) = j \/ s[Position(o)] < s[j]
    BY <1>1, <1>5, <2>1, <2>3 DEF Ascending
  <2> QED
    BY <1>5, <2>1, <2>2, <2>4
<1>7. Here(Find(o), o)
  BY <1>5, Zenon DEF Here, Range
<1> QED
  BY <1>5, <1>6, <1>7, Zenon

\* An object with an entry is registered.
LEMMA HereRegistered ==
    ASSUME NEW o
    PROVE  Registered(o) <=> \E e : Here(e, o)
BY Zenon DEF Registered, Matching, Here, Range

\* The oldest entry is the one that is found.
FirstOf(s, entries, o) ==
    LET Same == {i \in DOMAIN s : entries[s[i]].uuid = o}
    IN  s[CHOOSE i \in Same : \A j \in Same : i <= j]

\* A search of an ascending list finds the entry with the least number.
LEMMA FirstIsOldest ==
    ASSUME NEW s \in Seq(Nat), Ascending(s), NEW entries, NEW o, NEW e \in Range(s),
           entries[e].uuid = o, \A d \in Range(s) : entries[d].uuid = o => e <= d
    PROVE  FirstOf(s, entries, o) = e
<1> DEFINE Same == {i \in DOMAIN s : entries[s[i]].uuid = o}
           first == CHOOSE i \in Same : \A j \in Same : i <= j
<1>1. Same \in SUBSET DOMAIN s
  BY Zenon
<1>2. PICK k \in DOMAIN s : s[k] = e
  BY Zenon DEF Range
<1>3. k \in Same
  BY <1>2, Zenon
<1> HIDE DEF Same
<1>4. first \in Same /\ \A j \in Same : first <= j
  <2>1. \E i \in Same : \A j \in Same : i <= j
    BY <1>1, <1>3, Zenon DEF Ascending, Searchable
  <2> QED
    BY <2>1, Zenon
<1> HIDE DEF first
<1>5. first \in DOMAIN s /\ entries[s[first]].uuid = o /\ s[first] \in Range(s)
  BY <1>4, Zenon DEF Same, Range
<1>6. e <= s[first] /\ first <= k
  BY <1>3, <1>4, <1>5, Zenon
<1>7. s[first] = e
  BY <1>2, <1>5, <1>6 DEF Ascending
<1> QED
  BY <1>7, Zenon DEF FirstOf, first, Same

\* The oldest entry of o on the list is the one that the next search finds.
LEMMA FoundNext ==
    ASSUME NEW o, EntriesFor(o)' \in Seq(Nat), Ascending(EntriesFor(o)'), NEW e,
           e \in Range(EntriesFor(o)'), part'[e].uuid = o,
           \A d \in Range(EntriesFor(o)') : part'[d].uuid = o => e <= d
    PROVE  Registered(o)' /\ Find(o)' = e
<1> DEFINE s == EntriesFor(o)'
<1>1. e \in Range(s) /\ part'[e].uuid = o
  BY Zenon
<1>2. Find(o)' = FirstOf(s, part', o)
  BY Zenon DEF Find, Position, Matching, FirstOf
<1>3. Registered(o)'
  BY <1>1, Zenon DEF Registered, Matching, Range
<1>4. /\ s \in Seq(Nat) /\ Ascending(s) /\ e \in Range(s)
      /\ \A d \in Range(s) : part'[d].uuid = o => e <= d
  BY <1>1, Zenon
<1> HIDE DEF s
<1>5. FirstOf(s, part', o) = e
  BY <1>1, <1>4, FirstIsOldest
<1> QED
  BY <1>2, <1>3, <1>5, Zenon

-----------------------------------------------------------------------------
(* What the steps change                                                   *)

\* The types of the entries and of the requests.
LEMMA TypeFacts ==
    ASSUME TypeOK
    PROVE  /\ part \in Seq(Entries) /\ req \in [Procs -> Requests]
           /\ DOMAIN part = 1 .. Len(part) /\ Len(part) \in Nat
           /\ \A e \in DOMAIN part : part[e] \in Entries
<1>1. part \in Seq(Entries) /\ req \in [Procs -> Requests]
  BY Zenon DEF TypeOK
<1> HIDE DEF Entries, Requests
<1>2. /\ DOMAIN part = 1 .. Len(part) /\ Len(part) \in Nat
      /\ \A e \in DOMAIN part : part[e] \in Entries
  BY <1>1
<1> QED
  BY <1>1, <1>2, Zenon

\* Entries are numbered, and so are those on the lists.
LEMMA ListFacts ==
    ASSUME TypeOK
    PROVE  /\ DOMAIN part = 1 .. Len(part) /\ Len(part) \in Nat
           /\ \A o : /\ EntriesFor(o) \in Seq(DOMAIN part) /\ EntriesFor(o) \in Seq(Nat)
                     /\ IsInjective(EntriesFor(o))
                     /\ HoldInv => Ascending(EntriesFor(o))
           /\ Range(registry) \subseteq DOMAIN part /\ Range(blends) \subseteq DOMAIN part
<1>1. DOMAIN part = 1 .. Len(part) /\ Len(part) \in Nat
  BY TypeFacts, Zenon
<1>2. registry \in Seq(DOMAIN part) /\ blends \in Seq(DOMAIN part)
  BY Zenon DEF TypeOK
<1>3. ASSUME NEW s \in Seq(DOMAIN part) PROVE s \in Seq(Nat) /\ Range(s) \subseteq DOMAIN part
  BY <1>1 DEF Range
<1>4. ASSUME NEW o PROVE /\ EntriesFor(o) \in Seq(DOMAIN part) /\ IsInjective(EntriesFor(o))
                         /\ HoldInv => Ascending(EntriesFor(o))
  BY Zenon DEF TypeOK, EntriesFor, HoldInv
<1> QED
  BY <1>1, <1>2, <1>3, <1>4, Zenon

\* Entry e of o is found, as the facts about searches say.
LEMMA Search ==
    ASSUME TypeOK, HoldInv, NEW o, Registered(o)
    PROVE  /\ Position(o) \in DOMAIN EntriesFor(o) /\ Find(o) = EntriesFor(o)[Position(o)]
           /\ Here(Find(o), o) /\ Find(o) \in DOMAIN part /\ part[Find(o)].uuid = o
           /\ Find(o) \in Range(EntriesFor(o)) /\ part[Find(o)].live
<1>1. EntriesFor(o) \in Seq(Nat) /\ Ascending(EntriesFor(o))
  BY ListFacts, Zenon
<1>2. Here(Find(o), o) /\ Position(o) \in DOMAIN EntriesFor(o)
  BY <1>1, FindFacts, Zenon
<1>3. Find(o) \in Range(EntriesFor(o)) /\ part[Find(o)].uuid = o
  BY <1>2, Zenon DEF Here
<1>4. Find(o) \in Range(registry) \cup Range(blends)
  BY <1>3, Zenon DEF EntriesFor
<1> QED
  BY <1>2, <1>3, <1>4, ListFacts, Zenon DEF Find, TypeOK

\* A step that neither adds nor removes an entry.
SameNames ==
    /\ UNCHANGED <<registry, blends>> /\ DOMAIN part' = DOMAIN part
    /\ \A e \in DOMAIN part : part'[e].uuid = part[e].uuid

\* A step that changes neither a list nor a UUID changes no search.
LEMMA SameFound ==
    ASSUME TypeOK, SameNames, NEW o
    PROVE  /\ Registered(o)' <=> Registered(o)
           /\ Find(o)' = Find(o)
           /\ \A e : Here(e, o)' <=> Here(e, o)
<1>1. EntriesFor(o)' = EntriesFor(o) /\ \A e \in Range(EntriesFor(o)) : part'[e].uuid = part[e].uuid
  BY ListFacts, Zenon DEF SameNames, EntriesFor
<1>2. \A i \in DOMAIN EntriesFor(o) : EntriesFor(o)[i] \in Range(EntriesFor(o))
  BY Zenon DEF Range
<1>3. Matching(o)' = Matching(o)
  BY <1>1, <1>2, Zenon DEF Matching
<1>4. Position(o)' = Position(o)
  BY <1>3, Zenon DEF Position
<1> QED
  BY <1>1, <1>3, <1>4, Zenon DEF Registered, Find, Here

\* The request of process p becomes r.
Moved(p, r) ==
    /\ req' = [q \in Procs |-> req'[q]]
    /\ req'[p] = r /\ \A q \in Procs : q # p => req'[q] = req[q]

\* What an assignment to one element of req does.
LEMMA MovedFacts ==
    ASSUME TypeOK, NEW p \in Procs, NEW r, req' = [req EXCEPT ![p] = r]
    PROVE  Moved(p, r)
<1>1. req \in [Procs -> Requests]
  BY TypeFacts, Zenon
<1> QED
  BY <1>1, Zenon DEF Moved

\* What Goto does: the place of one request changes.
LEMMA GotoFacts ==
    ASSUME TypeOK, NEW p \in Procs, NEW at, Goto(p, at)
    PROVE  /\ Moved(p, req'[p]) /\ req'[p].at = at /\ req'[p].op = req[p].op
           /\ req'[p].obj = req[p].obj /\ req'[p].entry = req[p].entry
           /\ req'[p].id = req[p].id /\ req'[p].mount = req[p].mount
           /\ req'[p] = [req[p] EXCEPT !.at = at]
<1> DEFINE r == [req[p] EXCEPT !.at = at]
<1>1. req \in [Procs -> Requests] /\ req[p] \in Requests
  BY TypeFacts, Zenon
<1>2. req' = [req EXCEPT ![p] = r]
  BY DEF Goto
<1>3. /\ r.at = at /\ r.op = req[p].op /\ r.obj = req[p].obj /\ r.entry = req[p].entry
      /\ r.id = req[p].id /\ r.mount = req[p].mount
  BY <1>1 DEF Requests
<1> HIDE DEF r
<1>4. Moved(p, r)
  BY <1>2, MovedFacts, Zenon
<1>5. req'[p] = r
  BY <1>4, Zenon DEF Moved
<1> QED
  BY <1>3, <1>4, <1>5, Zenon DEF r

\* What Done does: one process becomes idle.
LEMMA DoneFacts ==
    ASSUME TypeOK, NEW p \in Procs, Done(p)
    PROVE  /\ Moved(p, Idle) /\ Idle.op = "none" /\ Idle.at = "idle"
<1>1. Moved(p, Idle)
  BY MovedFacts, Zenon DEF Done
<1> QED
  BY <1>1 DEF Idle, Request

\* The fields of a request that is being made.
LEMMA RequestFacts ==
    ASSUME NEW op, NEW at, NEW obj, NEW entry, NEW id, NEW mount
    PROVE  LET r == Request(op, at, obj, entry, id, mount) IN
           /\ r.op = op /\ r.at = at /\ r.obj = obj /\ r.entry = entry /\ r.id = id
           /\ r.mount = mount
BY DEF Request

\* Where each kind of request can be.
LEMMA PlaceFacts ==
    /\ Places("none") = {"idle"}
    /\ Places("register") = {"emit"} /\ Places("blend") = {"emit"}
    /\ Places("unregister") = {"destroy"}
    /\ Places("mount") = {"find", "record", "told"} /\ Places("umount") = {"find", "emit", "clear"}
    /\ \A op \in Adding : Places(op) = {"find", "allocate", "add", "reply"}
<1>1. /\ Places("none") = {"idle"} /\ Places("register") = {"emit"} /\ Places("blend") = {"emit"}
  BY DEF Places, Adding
<1> QED
  BY <1>1 DEF Places, Adding

\* A new entry.
LEMMA NewFacts ==
    ASSUME TypeOK, NEW o \in Objects, NEW kind \in Kinds \cup {"mount"},
           part' = Append(part, NewEntry(o, kind))
    PROVE  /\ part' \in Seq(Entries) /\ Len(part') = Len(part) + 1
           /\ DOMAIN part' = DOMAIN part \cup {Len(part) + 1} /\ Len(part) + 1 \notin DOMAIN part
           /\ \A e \in DOMAIN part : part'[e] = part[e]
           /\ part'[Len(part) + 1].uuid = o /\ part'[Len(part) + 1].live
           /\ \A l \in Lists : part'[Len(part) + 1].list[l] = <<>>
<1> DEFINE new == NewEntry(o, kind)
<1>1. new \in Entries /\ new.uuid = o /\ new.live /\ \A l \in Lists : new.list[l] = <<>>
  BY DEF NewEntry, Entries
<1> HIDE DEF new
<1>2. part \in Seq(Entries)
  BY Zenon DEF TypeOK
<1>3. /\ part' \in Seq(Entries) /\ Len(part') = Len(part) + 1
      /\ DOMAIN part' = DOMAIN part \cup {Len(part) + 1} /\ Len(part) + 1 \notin DOMAIN part
      /\ \A e \in DOMAIN part : part'[e] = part[e]
      /\ part'[Len(part) + 1] = new
  BY <1>1, <1>2 DEF new
<1> QED
  BY <1>1, <1>3, Zenon

\* What the other entries and the other parts of an entry are after a step.
Only(e) ==
    /\ part' \in Seq(Entries) /\ DOMAIN part' = DOMAIN part /\ Len(part') = Len(part)
    /\ \A d \in DOMAIN part : d # e => part'[d] = part[d]
    /\ part'[e].uuid = part[e].uuid

\* What an assignment to one element of part does.
LEMMA SetEntryFacts ==
    ASSUME TypeOK, NEW e \in DOMAIN part, NEW x \in Entries, x.uuid = part[e].uuid,
           part' = [part EXCEPT ![e] = x]
    PROVE  Only(e) /\ part'[e] = x
<1>1. part \in Seq(Entries)
  BY Zenon DEF TypeOK
<1>2. /\ part' \in Seq(Entries) /\ DOMAIN part' = DOMAIN part /\ Len(part') = Len(part)
      /\ \A d \in DOMAIN part : d # e => part'[d] = part[d]
      /\ part'[e] = x
  BY <1>1
<1> QED
  BY <1>2, Zenon DEF Only

\* The fields of an entry.
LEMMA EntryFacts ==
    ASSUME NEW x \in Entries
    PROVE  /\ x.uuid \in Objects /\ x.kind \in Kinds \cup {"mount"} /\ x.live \in BOOLEAN
           /\ x.next \in [Lists -> Nat] /\ x.list \in [Lists -> Seq(Items)]
           /\ x = [uuid |-> x.uuid, kind |-> x.kind, live |-> x.live, next |-> x.next,
                   list |-> x.list]
BY DEF Entries

\* A record with the fields of an entry is an entry.
LEMMA MakeEntry ==
    ASSUME NEW u \in Objects, NEW kind \in Kinds \cup {"mount"}, NEW live \in BOOLEAN,
           NEW next \in [Lists -> Nat], NEW list \in [Lists -> Seq(Items)]
    PROVE  [uuid |-> u, kind |-> kind, live |-> live, next |-> next, list |-> list] \in Entries
BY DEF Entries

\* A freed entry is an entry with empty lists.
LEMMA FreedEntry ==
    ASSUME NEW old \in Entries
    PROVE  /\ Freed(old) \in Entries /\ Freed(old).uuid = old.uuid
           /\ \A l \in Lists : Freed(old).list[l] = <<>>
<1> DEFINE x == Freed(old)
           next == [l \in Lists |-> 1]
           list == [l \in Lists |-> <<>>]
<1>1. x = [uuid |-> old.uuid, kind |-> old.kind, live |-> FALSE, next |-> next, list |-> list]
  <2> DEFINE y == NewEntry(old.uuid, old.kind)
  <2>1. y = [uuid |-> old.uuid, kind |-> old.kind, live |-> TRUE, next |-> next, list |-> list]
    BY Zenon DEF NewEntry
  <2>2. x = [y EXCEPT !.live = FALSE]
    BY Zenon DEF Freed
  <2> HIDE DEF x, y, next, list
  <2> QED
    BY <2>1, <2>2, Zenon
<1>2. next \in [Lists -> Nat] /\ list \in [Lists -> Seq(Items)]
  OBVIOUS
<1>3. \A l \in Lists : list[l] = <<>>
  OBVIOUS
<1> HIDE DEF x, next, list
<1>4. x \in Entries
  BY <1>1, <1>2, EntryFacts, MakeEntry, Zenon
<1>5. x.uuid = old.uuid /\ x.list = list
  BY <1>1
<1> QED
  BY <1>3, <1>4, <1>5, Zenon DEF x

\* What Freed does to part.
LEMMA FreedFacts ==
    ASSUME TypeOK, NEW e \in DOMAIN part, part' = [part EXCEPT ![e] = Freed(@)]
    PROVE  Only(e) /\ \A l \in Lists : part'[e].list[l] = <<>>
<1> DEFINE x == Freed(part[e])
<1>1. part \in Seq(Entries) /\ part[e] \in Entries
  BY TypeFacts, Zenon
<1>2. x \in Entries /\ x.uuid = part[e].uuid /\ \A l \in Lists : x.list[l] = <<>>
  BY <1>1, FreedEntry, Zenon
<1> QED
  BY <1>2, SetEntryFacts, Zenon

\* What an assignment to one list of an entry does to part.
LEMMA SetListFacts ==
    ASSUME TypeOK, NEW e \in DOMAIN part, NEW l \in Lists, NEW s \in Seq(Items),
           part' = [part EXCEPT ![e] = [part[e] EXCEPT !.list = [part[e].list EXCEPT ![l] = s]]]
    PROVE  /\ Only(e) /\ part'[e].live = part[e].live /\ part'[e].next = part[e].next
           /\ part'[e].list[l] = s /\ \A k \in Lists : k # l => part'[e].list[k] = part[e].list[k]
<1>1. part \in Seq(Entries) /\ part[e] \in Entries
  BY TypeFacts, Zenon
<1> DEFINE t == [part[e].list EXCEPT ![l] = s]
           x == [part[e] EXCEPT !.list = t]
<1>2. part' = [part EXCEPT ![e] = x]
  OBVIOUS
<1>3. /\ t \in [Lists -> Seq(Items)] /\ t[l] = s
      /\ \A k \in Lists : k # l => t[k] = part[e].list[k]
  BY <1>1, EntryFacts
<1> HIDE DEF t
<1>4. /\ x.uuid = part[e].uuid /\ x.live = part[e].live /\ x.next = part[e].next /\ x.list = t
      /\ x \in Entries
  BY <1>1, <1>3, Zenon DEF Entries
<1> HIDE DEF x
<1> QED
  BY <1>2, <1>3, <1>4, SetEntryFacts, Zenon

\* What counting up an id does to part.
LEMMA NextFacts ==
    ASSUME TypeOK, NEW e \in DOMAIN part, NEW l \in Lists,
           part' = [part EXCEPT ![e].next[l] = @ + 1]
    PROVE  /\ Only(e) /\ part'[e].live = part[e].live /\ part'[e].list = part[e].list
           /\ part[e].next[l] \in Nat /\ part'[e].next[l] = part[e].next[l] + 1
           /\ \A k \in Lists : k # l => part'[e].next[k] = part[e].next[k]
<1>1. part \in Seq(Entries) /\ part[e] \in Entries
  BY TypeFacts, Zenon
<1> DEFINE t == [part[e].next EXCEPT ![l] = part[e].next[l] + 1]
           x == [part[e] EXCEPT !.next = t]
<1>2. part' = [part EXCEPT ![e] = x]
  OBVIOUS
<1>3. /\ part[e].next[l] \in Nat /\ t \in [Lists -> Nat] /\ t[l] = part[e].next[l] + 1
      /\ \A k \in Lists : k # l => t[k] = part[e].next[k]
  <2>1. part[e].next \in [Lists -> Nat]
    BY <1>1, EntryFacts, Zenon
  <2> QED
    BY <2>1
<1> HIDE DEF t
<1>4. /\ x.uuid = part[e].uuid /\ x.live = part[e].live /\ x.list = part[e].list /\ x.next = t
      /\ x \in Entries
  BY <1>1, <1>3, Zenon DEF Entries
<1> HIDE DEF x
<1> QED
  BY <1>2, <1>3, <1>4, SetEntryFacts, Zenon

\* What an assignment to one image of an entry does to part.
LEMMA SetItemFacts ==
    ASSUME TypeOK, NEW e \in DOMAIN part, NEW k \in DOMAIN part[e].list["images"],
           NEW item \in Items, part' = [part EXCEPT ![e].list["images"][k] = item]
    PROVE  /\ Only(e) /\ part'[e].live = part[e].live /\ part'[e].next = part[e].next
           /\ part'[e].list["subvols"] = part[e].list["subvols"]
           /\ DOMAIN part'[e].list["images"] = DOMAIN part[e].list["images"]
           /\ part'[e].list["images"][k] = item
           /\ \A i \in DOMAIN part[e].list["images"] :
                 i # k => part'[e].list["images"][i] = part[e].list["images"][i]
<1> DEFINE old == part[e].list["images"]
           s   == [old EXCEPT ![k] = item]
<1>1. "images" \in Lists /\ "subvols" \in Lists /\ "images" # "subvols"
  BY DEF Lists
<1>2. old \in Seq(Items)
  <2>1. part[e] \in Entries
    BY TypeFacts, Zenon
  <2> QED
    BY <1>1, <2>1, EntryFacts
<1>3. /\ s \in Seq(Items) /\ DOMAIN s = DOMAIN old /\ s[k] = item
      /\ \A i \in DOMAIN old : i # k => s[i] = old[i]
  BY <1>2
<1>4. part' = [part EXCEPT ![e] = [part[e] EXCEPT !.list = [part[e].list EXCEPT !["images"] = s]]]
  OBVIOUS
<1> HIDE DEF s, old
<1>5. /\ Only(e) /\ part'[e].live = part[e].live /\ part'[e].next = part[e].next
      /\ part'[e].list["images"] = s /\ part'[e].list["subvols"] = part[e].list["subvols"]
  <2>1. s \in Seq(Items) /\ "images" \in Lists
    BY <1>1, <1>3
  <2>2. /\ Only(e) /\ part'[e].live = part[e].live /\ part'[e].next = part[e].next
        /\ part'[e].list["images"] = s
        /\ \A l \in Lists : l # "images" => part'[e].list[l] = part[e].list[l]
    BY <2>1, <1>4, SetListFacts, Zenon
  <2> QED
    BY <1>1, <2>2
<1> QED
  BY <1>3, <1>5, Zenon DEF old

-----------------------------------------------------------------------------
(* What holds on after a step that leaves the lists of entries alone       *)

\* A request that the step does not touch.
LEMMA StillSound ==
    ASSUME NEW r, Sound(r, part, registry),
           r.op # "none" => r.entry \in DOMAIN part' /\ part'[r.entry].uuid = part[r.entry].uuid,
           r.op \notin {"none", "register", "blend"} => part'[r.entry].live,
           r.op = "unregister" => r.entry \notin Range(registry')
    PROVE  Sound(r, part', registry')
BY Zenon DEF Sound

\* An idle process satisfies what is asked of requests.
LEMMA IdleSound ==
    ASSUME NEW entries, NEW list
    PROVE  Sound(Idle, entries, list)
<1>1. Idle \in Requests /\ Idle.op = "none" /\ Idle.at = "idle"
  BY DEF Idle, Request, Requests
<1>2. Idle.at \in Places(Idle.op)
  BY <1>1, PlaceFacts
<1>3. Idle.op \notin Working \cup {"register", "unregister"} /\ Idle.op # "blend" /\ Idle.op # "unregister"
  BY <1>1 DEF Working
<1> QED
  BY <1>1, <1>2, <1>3, Zenon DEF Sound

\* Uuids and mount points of blends are different objects.
LEMMA Apart ==
    ASSUME NEW o \in Uuids
    PROVE  o \notin BlendPoints /\ o \in Objects
BY RegistryAssumption, Zenon DEF Objects

\* Entries keep their life and their requests.
SameLives ==
    /\ SameNames /\ part' \in Seq(Entries) /\ Len(part') = Len(part)
    /\ \A d \in DOMAIN part : part'[d].live = part[d].live

IdsBelow(entry) ==
    \A l \in Lists : \A i \in DOMAIN entry.list[l] : entry.list[l][i].id < entry.next[l]

\* A step of one process on its own request keeps what is asked of requests.
LEMMA LocalSound ==
    ASSUME HoldInv, SameLives, NEW p \in Procs, NEW r, Moved(p, r), Sound(r, part', registry')
    PROVE  \A q \in Procs : Sound(req'[q], part', registry')
<1> SUFFICES ASSUME NEW q \in Procs PROVE Sound(req'[q], part', registry')
  OBVIOUS
<1>1. CASE q = p
  BY <1>1, Zenon DEF Moved
<1>2. CASE q # p
  <2>1. Sound(req[q], part, registry) /\ req'[q] = req[q]
    BY <1>2, Zenon DEF HoldInv, Moved
  <2>2. req[q].op # "none" => req[q].entry \in DOMAIN part /\ req[q].entry \in DOMAIN part'
    BY <2>1, Zenon DEF Sound, SameLives, SameNames
  <2>3. req[q].op # "none" => /\ part'[req[q].entry].uuid = part[req[q].entry].uuid
                              /\ part'[req[q].entry].live = part[req[q].entry].live
    BY <2>2, Zenon DEF SameLives, SameNames
  <2>4. /\ req[q].op \notin {"none", "register", "blend"} => part'[req[q].entry].live
        /\ req[q].op = "unregister" => req[q].entry \notin Range(registry')
    BY <2>1, <2>3, Zenon DEF Sound, SameLives, SameNames
  <2> QED
    BY <2>1, <2>2, <2>3, <2>4, StillSound, Zenon
<1> QED
  BY <1>1, <1>2, Zenon

\* The types of the requests, from each request.
LEMMA SoundTypes ==
    ASSUME req' = [q \in Procs |-> req'[q]],
           \A q \in Procs : Sound(req'[q], part', registry')
    PROVE  /\ req' \in [Procs -> Requests]
           /\ \A q \in Procs : req'[q].op \notin {"none", "register", "blend"} =>
                 req'[q].entry \in DOMAIN part' /\ part'[req'[q].entry].live
<1>1. \A q \in Procs : req'[q] \in Requests
  BY Zenon DEF Sound
<1>2. req' \in [Procs -> Requests]
  BY <1>1, Zenon
<1>3. ASSUME NEW q \in Procs, req'[q].op \notin {"none", "register", "blend"}
      PROVE  req'[q].entry \in DOMAIN part' /\ part'[req'[q].entry].live
  BY <1>3, Zenon DEF Sound
<1> QED
  BY <1>2, <1>3, Zenon

HistoryTypes ==
    /\ last \in [Objects -> {"none", "added", "removed"}]
    /\ announced \subseteq Uuids \X Lists \X Nat
    /\ twin \subseteq Objects /\ raced \subseteq Objects

\* Such a step keeps the types.
LEMMA LocalTypes ==
    ASSUME TypeOK, HoldInv, SameLives, NEW p \in Procs, NEW r, Moved(p, r),
           Sound(r, part', registry'), \A e \in DOMAIN part : IdsBelow(part'[e]), HistoryTypes'
    PROVE  TypeOK' /\ HoldInv'
<1>1. \A q \in Procs : Sound(req'[q], part', registry')
  BY LocalSound, Zenon
<1>2. /\ req' \in [Procs -> Requests]
      /\ \A q \in Procs : req'[q].op \notin {"none", "register", "blend"} =>
            req'[q].entry \in DOMAIN part' /\ part'[req'[q].entry].live
  BY <1>1, SoundTypes, Zenon DEF Moved
<1>3. /\ registry' = registry /\ blends' = blends /\ DOMAIN part' = DOMAIN part
      /\ part' \in Seq(Entries) /\ Len(part') = Len(part)
      /\ \A e \in DOMAIN part : part'[e].live = part[e].live /\ part'[e].uuid = part[e].uuid
  BY Zenon DEF SameLives, SameNames
<1>4. \A e \in DOMAIN part', l \in Lists :
         \A i \in DOMAIN part'[e].list[l] : part'[e].list[l][i].id < part'[e].next[l]
  BY <1>3, Zenon DEF IdsBelow
<1>5. Range(registry) \subseteq DOMAIN part /\ Range(blends) \subseteq DOMAIN part
  BY ListFacts, Zenon
<1>6. \A e \in Range(registry') \cup Range(blends') : part'[e].live
  BY <1>3, <1>5, Zenon DEF TypeOK
<1>7. TypeOK'
  BY <1>2, <1>3, <1>4, <1>6, Zenon DEF TypeOK, HistoryTypes
<1>8. HoldInv'
  BY <1>1, <1>3, <1>5, Zenon DEF HoldInv
<1> QED
  BY <1>7, <1>8

\* An object whose entries and whose events the step leaves alone.
LEMMA EventSame ==
    ASSUME TypeOK, NEW o, EventOf(o), \A e : Here(e, o)' <=> Here(e, o), last'[o] = last[o],
           \A q \in Procs : \/ req'[q] = req[q]
                            \/ /\ ~(req[q].op \in Changing /\ req[q].obj = o)
                               /\ ~(req'[q].op \in Changing /\ req'[q].obj = o)
    PROVE  EventOf(o)'
<1>1. ASSUME NEW S \in SUBSET Changing PROVE Under(o, S)' = Under(o, S)
  BY Zenon DEF Under
<1>2. /\ Changing \in SUBSET Changing /\ {"register", "blend"} \in SUBSET Changing
      /\ {"unregister"} \in SUBSET Changing
  BY Zenon DEF Changing
<1>3. /\ Under(o, Changing)' = Under(o, Changing)
      /\ Under(o, {"register", "blend"})' = Under(o, {"register", "blend"})
      /\ Under(o, {"unregister"})' = Under(o, {"unregister"})
  BY <1>1, <1>2, Zenon
<1>4. Registered(o)' <=> Registered(o)
  <2>1. Registered(o)' <=> \E e : Here(e, o)'
    BY Zenon DEF Registered, Matching, Here, Range
  <2> QED
    BY <2>1, HereRegistered, Zenon
<1>5. ASSUME NEW e, Here(e, o) PROVE e \in DOMAIN part
  BY <1>5, ListFacts, Zenon DEF Here, EntriesFor
<1>6. \A d, e \in DOMAIN part' : Here(d, o)' /\ Here(e, o)' => d = e
  BY <1>5, Zenon DEF EventOf
<1>7. ASSUME NEW q \in Under(o, {"register", "blend"}) PROVE Here(req[q].entry, o)'
  <2>1. Here(req[q].entry, o)
    BY Zenon DEF EventOf
  <2>2. req'[q] = req[q]
    BY Zenon DEF Under, Changing
  <2>3. Here(req[q].entry, o)' <=> req'[q].entry \in Range(EntriesFor(o)') /\ part'[req'[q].entry].uuid = o
    BY Zenon DEF Here
  <2>4. \A e : (e \in Range(EntriesFor(o)') /\ part'[e].uuid = o) <=> Here(e, o)
    BY Zenon DEF Here
  <2> QED
    BY <2>1, <2>2, <2>3, <2>4, Zenon
<1> QED
  BY <1>3, <1>4, <1>6, <1>7, Zenon DEF EventOf

\* Such a step keeps what a listener knows.
LEMMA LocalEvents ==
    ASSUME TypeOK, EventInv, SameNames, UNCHANGED <<last, twin, raced>>, NEW p \in Procs, NEW r,
           Moved(p, r), r.op \notin Changing, req[p].op \notin Changing
    PROVE  EventInv'
<1> SUFFICES ASSUME NEW o \in Objects, o \notin twin' \cup raced' PROVE EventOf(o)'
  BY Zenon DEF EventInv
<1>1. EventOf(o) /\ last'[o] = last[o]
  BY Zenon DEF EventInv
<1>2. \A e : Here(e, o)' <=> Here(e, o)
  BY SameFound, Zenon
<1> QED
  BY <1>1, <1>2, EventSame, Zenon DEF Moved

\* Such a step keeps what requests and announcements refer to.
LEMMA LocalFound ==
    ASSUME TypeOK, HoldInv, FoundInv, SameNames, raced' = raced, NEW p \in Procs, NEW r, Moved(p, r),
           r.op \in Working /\ r.obj \notin raced => Registered(r.obj) /\ Find(r.obj) = r.entry,
           \A a \in announced' : a \in announced \/
               (a[1] \notin raced => Registered(a[1]) /\ HasId(part[Find(a[1])].list[a[2]], a[3])),
           announced' \subseteq Uuids \X Lists \X Nat,
           \A e \in DOMAIN part, l \in Lists : \A id :
               HasId(part[e].list[l], id) => HasId(part'[e].list[l], id)
    PROVE  FoundInv'
<1>1. ASSUME NEW o PROVE (Registered(o)' <=> Registered(o)) /\ Find(o)' = Find(o)
  BY SameFound, Zenon
<1>2. ASSUME NEW q \in Procs, req'[q].op \in Working, req'[q].obj \notin raced'
      PROVE  Registered(req'[q].obj) /\ Find(req'[q].obj) = req'[q].entry
  BY <1>2, Zenon DEF FoundInv, Moved
<1>3. ASSUME NEW a \in announced', a[1] \notin raced'
      PROVE  Registered(a[1])' /\ HasId(part'[Find(a[1])'].list[a[2]], a[3])
  <2>1. Registered(a[1]) /\ HasId(part[Find(a[1])].list[a[2]], a[3])
    BY <1>3, Zenon DEF FoundInv
  <2>2. a[2] \in Lists
    BY <1>3
  <2>3. Find(a[1]) \in DOMAIN part
    BY <2>1, Search, Zenon
  <2> QED
    BY <1>1, <2>1, <2>2, <2>3, Zenon
<1> QED
  BY <1>1, <1>2, <1>3, Zenon DEF FoundInv

\* The frames of the ids and of the images.
LEMMA SettledSame ==
    ASSUME NEW img, NEW e, Settled(img, e, req),
           \A q \in Procs : \/ req'[q] = req[q]
                            \/ ~Amid(req[q], e, img.id) /\ ~Amid(req'[q], e, img.id)
    PROVE  Settled(img, e, req')
<1>1. \A q \in Procs : Amid(req'[q], e, img.id) <=> Amid(req[q], e, img.id)
  BY Zenon
<1>2. \A q \in Procs : Amid(req'[q], e, img.id) => req'[q] = req[q]
  BY Zenon
<1> QED
  BY <1>1, <1>2, Zenon DEF Settled

\* A request keeps its item as long as the lists and the counters of its entry
\* stay as they are.
LEMMA HoldsSame ==
    ASSUME NEW r, Holds(r, part), part'[r.entry].list = part[r.entry].list,
           part'[r.entry].next = part[r.entry].next
    PROVE  Holds(r, part')
BY Zenon DEF Holds

\* Requests that are not about an item.
Loose(r) ==
    /\ r.at \notin {"add", "reply", "record", "told", "clear"}
    /\ ~(r.op = "umount" /\ r.at = "emit")

\* A request that is not about an item holds none.
LEMMA LooseHolds ==
    ASSUME NEW r, Loose(r), NEW entries
    PROVE  Holds(r, entries) /\ \A e, id : ~Amid(r, e, id)
<1>1. r.at # "add" /\ r.at # "reply" /\ r.at \notin {"record", "told", "clear"}
      /\ r.at \notin {"told", "clear"}
  BY Zenon DEF Loose
<1> QED
  BY <1>1, Zenon DEF Holds, Amid, Loose

\* An idle process is not about an item.
LEMMA IdleLoose == Loose(Idle)
BY DEF Idle, Request, Loose

\* A step after which an entry has its list, or an empty one.
LEMMA IdFrame ==
    ASSUME IdInv,
           \A d \in DOMAIN part', l \in Lists :
               part'[d].list[l] = <<>> \/ (d \in DOMAIN part /\ part'[d].list[l] = part[d].list[l]),
           \A q \in Procs : Holds(req'[q], part'),
           \A q \in Procs : req'[q] = req[q] \/ req'[q].at # "add"
    PROVE  IdInv'
<1>1. UniqueIds(<<>>)
  BY DEF UniqueIds
<1>2. \A d \in DOMAIN part', l \in Lists : UniqueIds(part'[d].list[l])
  BY <1>1, Zenon DEF IdInv
<1>3. \A p, q \in Procs : Rivals(req'[p], req'[q]) => p = q
  <2> SUFFICES ASSUME NEW p \in Procs, NEW q \in Procs, Rivals(req'[p], req'[q]) PROVE p = q
    BY Zenon
  <2>1. req'[p].at = "add" /\ req'[q].at = "add"
    BY Zenon DEF Rivals
  <2>2. req'[p] = req[p] /\ req'[q] = req[q]
    BY <2>1, Zenon
  <2> QED
    BY <2>2, Zenon DEF IdInv
<1> QED
  BY <1>2, <1>3, Zenon DEF IdInv

\* A step that touches no image, and no request half-way through one, keeps
\* the images settled.
LEMMA ImageFrame ==
    ASSUME ImageInv,
           \A d \in DOMAIN part' :
               \/ part'[d].list["images"] = <<>>
               \/ /\ d \in DOMAIN part /\ part'[d].list["images"] = part[d].list["images"]
                  /\ \A q \in Procs :
                        \/ req'[q] = req[q]
                        \/ \A id : ~Amid(req[q], d, id) /\ ~Amid(req'[q], d, id)
    PROVE  ImageInv'
<1> SUFFICES ASSUME NEW d \in DOMAIN part', NEW i \in DOMAIN part'[d].list["images"]
             PROVE  Settled(part'[d].list["images"][i], d, req')
  BY Zenon DEF ImageInv
<1>1. part'[d].list["images"] # <<>>
  OBVIOUS
<1>2. d \in DOMAIN part /\ part'[d].list["images"] = part[d].list["images"]
  BY <1>1, Zenon
<1> DEFINE img == part[d].list["images"][i]
<1>3. Settled(img, d, req)
  BY <1>2, Zenon DEF ImageInv
<1>4. \A q \in Procs : req'[q] = req[q] \/ (~Amid(req[q], d, img.id) /\ ~Amid(req'[q], d, img.id))
  BY <1>1, Zenon
<1> HIDE DEF img
<1>5. Settled(img, d, req')
  BY <1>3, <1>4, SettledSame, Zenon
<1> QED
  BY <1>2, <1>5, Zenon DEF img

\* Both, for a step that changes no list and one request.
LEMMA LocalItems ==
    ASSUME HoldInv, IdInv, ImageInv, part' = part, NEW p \in Procs, NEW r, Moved(p, r),
           Holds(r, part), r.at # "add", \A e, id : ~Amid(req[p], e, id) /\ ~Amid(r, e, id)
    PROVE  IdInv' /\ ImageInv'
<1>1. \A q \in Procs : Holds(req'[q], part')
  BY Zenon DEF IdInv, Moved
<1>2. \A q \in Procs : req'[q] = req[q] \/ req'[q].at # "add"
  BY Zenon DEF Moved
<1>3. IdInv'
  BY <1>1, <1>2, IdFrame, Zenon
<1>4. \A q \in Procs : \A d, id : req'[q] = req[q] \/ (~Amid(req[q], d, id) /\ ~Amid(req'[q], d, id))
  BY Zenon DEF Moved
<1>5. ImageInv'
  BY <1>4, ImageFrame, Zenon
<1> QED
  BY <1>3, <1>5

-----------------------------------------------------------------------------
(* The steps of the requests on items                                      *)

\* Which requests get where.
LEMMA AtFacts ==
    ASSUME NEW r \in Requests, r.at \in Places(r.op)
    PROVE  /\ r.at = "find" => r.op \in Working
           /\ r.at \in {"allocate", "add", "reply"} => r.op \in Adding
           /\ r.at \in {"record", "told"} => r.op = "mount"
           /\ r.at = "clear" => r.op = "umount"
<1>1. r.op \in {"none", "register", "unregister", "blend", "mount", "umount"} \cup Adding
  BY DEF Requests, Adding
<1>2. CASE r.op \in {"none", "register", "unregister", "blend"}
  <2>1. r.at \in {"idle", "emit", "destroy"}
    BY <1>2, PlaceFacts
  <2> QED
    BY <2>1
<1>3. CASE r.op = "mount"
  BY <1>3, PlaceFacts DEF Working
<1>4. CASE r.op = "umount"
  BY <1>4, PlaceFacts DEF Working
<1>5. CASE r.op \in Adding
  <2>1. r.at \in {"find", "allocate", "add", "reply"}
    BY <1>5, PlaceFacts
  <2> QED
    BY <1>5, <2>1 DEF Working, Adding
<1> QED
  BY <1>1, <1>2, <1>3, <1>4, <1>5

\* The kinds of requests.
LEMMA WorkFacts ==
    /\ \A op \in Adding : op \in Working
    /\ "mount" \in Working /\ "umount" \in Working
    /\ \A op \in Working : op \notin Changing /\ op \notin {"none", "register", "blend"}
    /\ "none" \notin Working /\ "none" \notin Changing
    /\ \A op : ListOf(op) \in Lists
BY DEF Working, Adding, Changing, ListOf, Lists

\* A request on the items of an entry, and what follows for it.
LEMMA Worker ==
    ASSUME TypeOK, HoldInv, NEW p \in Procs, req[p].op \in Working
    PROVE  /\ Sound(req[p], part, registry)
           /\ req[p].entry \in DOMAIN part /\ part[req[p].entry] \in Entries
           /\ part[req[p].entry].live /\ part[req[p].entry].uuid = req[p].obj
           /\ req[p].obj \in Uuids /\ req[p] \in Requests /\ req[p].op # "none"
           /\ req[p].op \notin Changing
<1>1. Sound(req[p], part, registry)
  BY Zenon DEF HoldInv
<1>2. req[p].op \notin {"none", "register", "blend"} /\ req[p].op # "none" /\ req[p].op \notin Changing
  BY WorkFacts, Zenon
<1>3. /\ req[p] \in Requests /\ req[p].entry \in DOMAIN part /\ part[req[p].entry].live
      /\ part[req[p].entry].uuid = req[p].obj /\ req[p].obj \in Uuids
  BY <1>1, <1>2, Zenon DEF Sound
<1>4. part[req[p].entry] \in Entries
  BY <1>3, TypeFacts, Zenon
<1> QED
  BY <1>1, <1>2, <1>3, <1>4, Zenon

\* The request of p after a step within it.
LEMMA GoesOn ==
    ASSUME TypeOK, HoldInv, SameLives, NEW p \in Procs, req[p].op \in Working, NEW r \in Requests,
           r.op = req[p].op, r.obj = req[p].obj, r.entry = req[p].entry, r.at \in Places(r.op)
    PROVE  Sound(r, part', registry')
<1>1. /\ req[p].entry \in DOMAIN part /\ part[req[p].entry].live
      /\ part[req[p].entry].uuid = req[p].obj /\ req[p].obj \in Uuids
      /\ req[p].op \notin Changing /\ req[p].op # "none"
  BY Worker, Zenon
<1>2. /\ req[p].entry \in DOMAIN part' /\ part'[req[p].entry].live
      /\ part'[req[p].entry].uuid = req[p].obj
  BY <1>1, Zenon DEF SameLives, SameNames
<1>3. req[p].op # "unregister" /\ req[p].op # "blend"
  BY <1>1, Zenon DEF Changing
<1> QED
  BY <1>1, <1>2, <1>3, Zenon DEF Sound

\* The parts of TypeOK that most steps leave alone.
LEMMA SameHistory ==
    ASSUME TypeOK
    PROVE  HistoryTypes /\ \A e \in DOMAIN part : IdsBelow(part[e])
BY Zenon DEF TypeOK, HistoryTypes, IdsBelow

\* A step that leaves the lists alone frees nothing.
LEMMA NothingMoves ==
    ASSUME TypeOK, UNCHANGED <<registry, part, blends>>
    PROVE  SameLives
BY Zenon DEF TypeOK, SameLives, SameNames

\* A step of a request that changes no list.
LEMMA RequestKeeps ==
    ASSUME IInv, UNCHANGED <<registry, part, blends, last, twin, raced>>, NEW p \in Procs, NEW r,
           Moved(p, r), Sound(r, part, registry), r.op \notin Changing, req[p].op \notin Changing,
           Holds(r, part), r.at # "add", \A e, id : ~Amid(req[p], e, id) /\ ~Amid(r, e, id),
           r.op \in Working /\ r.obj \notin raced => Registered(r.obj) /\ Find(r.obj) = r.entry,
           \A a \in announced' : a \in announced \/
               (a[1] \notin raced => Registered(a[1]) /\ HasId(part[Find(a[1])].list[a[2]], a[3])),
           announced' \subseteq Uuids \X Lists \X Nat
    PROVE  IInv'
<1>1. TypeOK /\ HoldInv /\ EventInv /\ FoundInv /\ IdInv /\ ImageInv
  BY Zenon DEF IInv
<1>2. SameLives /\ SameNames
  BY <1>1, NothingMoves, Zenon DEF SameLives
<1>3. HistoryTypes' /\ \A e \in DOMAIN part : IdsBelow(part'[e])
  BY <1>1, SameHistory, Zenon DEF HistoryTypes
<1>4. Sound(r, part', registry')
  BY Zenon
<1>5. TypeOK' /\ HoldInv'
  BY <1>1, <1>2, <1>3, <1>4, LocalTypes, Zenon
<1>6. EventInv'
  BY <1>1, <1>2, LocalEvents, Zenon
<1>7. FoundInv'
  BY <1>1, <1>2, LocalFound, Zenon
<1>8. IdInv' /\ ImageInv'
  BY <1>1, LocalItems, Zenon
<1> QED
  BY <1>5, <1>6, <1>7, <1>8, Zenon DEF IInv

\* The same where nothing is announced.
LEMMA SilentKeeps ==
    ASSUME IInv, UNCHANGED <<registry, part, blends, history>>, NEW p \in Procs, NEW r,
           Moved(p, r), Sound(r, part, registry), r.op \notin Changing, req[p].op \notin Changing,
           Holds(r, part), r.at # "add", \A e, id : ~Amid(req[p], e, id) /\ ~Amid(r, e, id),
           r.op \in Working /\ r.obj \notin raced => Registered(r.obj) /\ Find(r.obj) = r.entry
    PROVE  IInv'
<1>1. /\ UNCHANGED <<registry, part, blends, last, twin, raced>> /\ announced' = announced
  BY Zenon DEF history
<1>2. announced' \subseteq Uuids \X Lists \X Nat
  BY <1>1, Zenon DEF IInv, TypeOK
<1>3. \A a \in announced' : a \in announced \/
         (a[1] \notin raced => Registered(a[1]) /\ HasId(part[Find(a[1])].list[a[2]], a[3]))
  BY <1>1, Zenon
<1> QED
  BY <1>1, <1>2, <1>3, RequestKeeps, Zenon

\* A request that ends.
LEMMA DoneKeeps ==
    ASSUME IInv, UNCHANGED <<registry, part, blends, history>>, NEW p \in Procs, Done(p),
           req[p].op \notin Changing, \A e, id : ~Amid(req[p], e, id)
    PROVE  IInv'
<1>1. TypeOK
  BY Zenon DEF IInv
<1>2. Moved(p, Idle) /\ Idle.op = "none" /\ Idle.at = "idle"
  BY <1>1, DoneFacts, Zenon
<1>3. /\ Sound(Idle, part, registry) /\ Holds(Idle, part) /\ \A e, id : ~Amid(Idle, e, id)
  BY IdleSound, IdleLoose, LooseHolds, Zenon
<1>4. Idle.op \notin Changing /\ Idle.op \notin Working /\ Idle.at # "add"
  BY <1>2, WorkFacts, Zenon
<1> QED
  BY <1>2, <1>3, <1>4, SilentKeeps, Zenon

\* A request that is about no item yet goes on to another such place.
LEMMA GotoKeeps ==
    ASSUME IInv, UNCHANGED <<registry, part, blends, history>>, NEW p \in Procs,
           NEW at \in {"allocate", "record", "emit"}, Goto(p, at), req[p].at = "find",
           req[p].op \in Working, at \in Places(req[p].op),
           HasId(part[req[p].entry].list["images"], req[p].id)
    PROVE  IInv'
<1> DEFINE r == req'[p]
<1>1. TypeOK /\ HoldInv /\ FoundInv
  BY Zenon DEF IInv
<1>2. /\ Moved(p, r) /\ r.at = at /\ r.op = req[p].op /\ r.obj = req[p].obj
      /\ r.entry = req[p].entry /\ r.id = req[p].id
  BY <1>1, GotoFacts, Zenon
<1>3. r \in Requests
  <2>1. at \in {"idle", "emit", "destroy", "find", "allocate", "add", "reply", "record", "told", "clear"}
    OBVIOUS
  <2>2. req[p] \in Requests
    BY <1>1, Worker, Zenon
  <2>3. r = [req[p] EXCEPT !.at = at]
    BY <1>1, GotoFacts, Zenon
  <2> HIDE DEF r
  <2> QED
    BY <2>1, <2>2, <2>3 DEF Requests
<1> HIDE DEF r
<1>4. Sound(r, part, registry)
  <2>1. SameLives
    BY <1>1, NothingMoves, Zenon
  <2>2. Sound(r, part', registry')
    BY <1>1, <1>2, <1>3, <2>1, GoesOn, Zenon
  <2> QED
    BY <2>2, Zenon
<1>5. at # "add" /\ at # "reply" /\ at \notin {"told", "clear"} /\ "find" \notin {"told", "clear"}
  OBVIOUS
<1>6. Holds(r, part)
  BY <1>2, <1>5, Zenon DEF Holds
<1>7. \A e, id : ~Amid(req[p], e, id) /\ ~Amid(r, e, id)
  BY <1>2, <1>5, Zenon DEF Amid
<1>8. r.op \notin Changing /\ req[p].op \notin Changing
  BY <1>2, WorkFacts, Zenon
<1>9. r.op \in Working /\ r.obj \notin raced => Registered(r.obj) /\ Find(r.obj) = r.entry
  BY <1>1, <1>2, Zenon DEF FoundInv
<1> QED
  BY <1>2, <1>4, <1>5, <1>6, <1>7, <1>8, <1>9, SilentKeeps, Zenon

\* The search for the image.
LEMMA FindImageKeeps ==
    ASSUME IInv, NEW p \in Procs, FindImage(p)
    PROVE  IInv'
<1>1. TypeOK /\ HoldInv /\ req[p].at = "find" /\ UNCHANGED <<registry, part, blends, history>>
  BY Zenon DEF IInv, FindImage
<1>2. req[p].op \in Working /\ req[p].at \in Places(req[p].op)
  BY <1>1, AtFacts, Zenon DEF HoldInv, Sound
<1>3. CASE HasId(part[req[p].entry].list["images"], req[p].id)
  <2>1. CASE req[p].op = "mount"
    <3>1. Goto(p, "record")
      BY <1>3, <2>1, Zenon DEF FindImage
    <3>2. "record" \in Places(req[p].op) /\ "record" \in {"allocate", "record", "emit"}
      BY <2>1, PlaceFacts
    <3> QED
      BY <1>1, <1>2, <1>3, <3>1, <3>2, GotoKeeps, Zenon
  <2>2. CASE req[p].op = "umount"
    <3>1. Goto(p, "emit")
      <4>1. req[p].op # "mount"
        BY <2>2
      <4> QED
        BY <1>3, <2>2, <4>1, Zenon DEF FindImage
    <3>2. "emit" \in Places(req[p].op) /\ "emit" \in {"allocate", "record", "emit"}
      BY <2>2, PlaceFacts
    <3> QED
      BY <1>1, <1>2, <1>3, <3>1, <3>2, GotoKeeps, Zenon
  <2>3. CASE req[p].op \in Adding
    <3>1. Goto(p, "allocate")
      <4>1. req[p].op # "mount" /\ req[p].op # "umount"
        BY <2>3 DEF Adding
      <4> QED
        BY <1>3, <4>1, Zenon DEF FindImage
    <3>2. "allocate" \in Places(req[p].op) /\ "allocate" \in {"allocate", "record", "emit"}
      BY <2>3, PlaceFacts
    <3> QED
      BY <1>1, <1>2, <1>3, <3>1, <3>2, GotoKeeps, Zenon
  <2> QED
    BY <1>2, <2>1, <2>2, <2>3 DEF Working, Adding
<1>4. CASE ~HasId(part[req[p].entry].list["images"], req[p].id)
  <2>1. Done(p)
    BY <1>4, Zenon DEF FindImage
  <2>2. \A e, id : ~Amid(req[p], e, id)
    BY <1>1 DEF Amid
  <2>3. req[p].op \notin Changing
    BY <1>2, WorkFacts, Zenon
  <2> QED
    BY <1>1, <2>1, <2>2, <2>3, DoneKeeps, Zenon
<1> QED
  BY <1>3, <1>4, Zenon

\* An ioctl that finds no memory leaves everything as it was.
LEMMA NoMemoryKeeps ==
    ASSUME IInv, NEW p \in Procs, NoMemory(p)
    PROVE  IInv'
<1>1. TypeOK /\ HoldInv /\ req[p].at = "allocate" /\ UNCHANGED <<registry, part, blends, history>> /\ Done(p)
  BY Zenon DEF IInv, NoMemory
<1>2. "allocate" \in {"allocate", "add", "reply"} /\ "allocate" \notin {"told", "clear"}
  OBVIOUS
<1>3. req[p].op \in Adding
  BY <1>1, <1>2, AtFacts, Zenon DEF HoldInv, Sound
<1>4. req[p].op \notin Changing /\ \A e, id : ~Amid(req[p], e, id)
  BY <1>1, <1>2, <1>3, WorkFacts, Zenon DEF Amid
<1> QED
  BY <1>1, <1>4, DoneKeeps, Zenon

\* The event and the reply name an item on the list of the entry that is found.
LEMMA AnnounceKeeps ==
    ASSUME IInv, NEW p \in Procs, Announce(p)
    PROVE  IInv'
<1> DEFINE new == <<req[p].obj, ListOf(req[p].op), req[p].id>>
<1>1. /\ TypeOK /\ HoldInv /\ FoundInv /\ IdInv /\ req[p].at = "reply" /\ Done(p)
      /\ UNCHANGED <<registry, part, blends, last, twin, raced>>
      /\ announced' = announced \cup {new}
  BY Zenon DEF IInv, Announce
<1>2. "reply" \in {"allocate", "add", "reply"} /\ "reply" \notin {"told", "clear"}
  OBVIOUS
<1>3. req[p].op \in Adding
  BY <1>1, <1>2, AtFacts, Zenon DEF HoldInv, Sound
<1>4. req[p].op \notin Changing /\ req[p].op \in Working /\ \A e, id : ~Amid(req[p], e, id)
  BY <1>1, <1>2, <1>3, WorkFacts, Zenon DEF Amid
<1>5. Moved(p, Idle) /\ Idle.op = "none" /\ Idle.at = "idle"
  BY <1>1, DoneFacts, Zenon
<1>6. /\ Sound(Idle, part, registry) /\ Holds(Idle, part) /\ \A e, id : ~Amid(Idle, e, id)
  BY IdleSound, IdleLoose, LooseHolds, Zenon
<1>7. Idle.op \notin Changing /\ Idle.op \notin Working /\ Idle.at # "add"
  BY <1>5, WorkFacts, Zenon
<1>8. /\ new[1] = req[p].obj /\ new[2] = ListOf(req[p].op) /\ new[3] = req[p].id
      /\ new \in Uuids \X Lists \X Nat
  <2>1. req[p].obj \in Uuids /\ req[p] \in Requests
    BY <1>1, <1>4, Worker, Zenon
  <2>2. ListOf(req[p].op) \in Lists
    BY WorkFacts, Zenon
  <2>3. req[p].id \in Nat
    BY <2>1 DEF Requests
  <2> QED
    BY <2>1, <2>2, <2>3
<1> HIDE DEF new
<1>9. new[1] \notin raced => Registered(new[1]) /\ HasId(part[Find(new[1])].list[new[2]], new[3])
  BY <1>1, <1>4, <1>8, Zenon DEF FoundInv, IdInv, Holds
<1>10. announced' \subseteq Uuids \X Lists \X Nat
  BY <1>1, <1>8, Zenon DEF TypeOK
<1>11. \A a \in announced' : a \in announced \/
         (a[1] \notin raced => Registered(a[1]) /\ HasId(part[Find(a[1])].list[a[2]], a[3]))
  BY <1>1, <1>9, Zenon
<1> QED
  BY <1>1, <1>4, <1>5, <1>6, <1>7, <1>10, <1>11, RequestKeeps, Zenon

\* The find at the head of an ioctl.
LEMMA BeginKeeps ==
    ASSUME IInv, NEW p \in Procs, NEW u \in Uuids, NEW op \in Working, NEW kind,
           NEW id \in Nat, NEW mount \in MountPoints \cup {NoMount},
           NEW at \in {"find", "allocate"}, at \in Places(op),
           Begin(p, op, u, kind, id, mount, at)
    PROVE  IInv'
<1> DEFINE r == Request(op, at, u, Find(u), id, mount)
<1>1. /\ TypeOK /\ HoldInv /\ FoundInv /\ req[p] = Idle /\ Registered(u)
      /\ req' = [req EXCEPT ![p] = r] /\ UNCHANGED <<registry, part, blends, history>>
  BY Zenon DEF IInv, Begin
<1>2. /\ r.op = op /\ r.at = at /\ r.obj = u /\ r.entry = Find(u) /\ r.id = id /\ r.mount = mount
  BY DEF Request
<1>3. /\ Find(u) \in DOMAIN part /\ part[Find(u)].uuid = u /\ part[Find(u)].live
  BY <1>1, Search, Zenon
<1>4. r \in Requests
  <2>1. Find(u) \in Nat
    BY <1>1, <1>3, ListFacts
  <2>2. u \in Objects \cup {NoMount}
    BY Apart, Zenon
  <2> QED
    BY <2>1, <2>2 DEF Request, Requests, Working
<1> HIDE DEF r
<1>5. Moved(p, r)
  BY <1>1, MovedFacts, Zenon
<1>6. op # "none" /\ op # "unregister" /\ op # "blend" /\ op \notin Changing
  BY WorkFacts, Zenon DEF Changing
<1>7. Sound(r, part, registry)
  BY <1>2, <1>3, <1>4, <1>6, Zenon DEF Sound
<1>8. at \notin {"add", "reply", "record", "told", "clear"} /\ at # "emit" /\ at # "add"
  OBVIOUS
<1>9. Loose(r)
  BY <1>2, <1>8, Zenon DEF Loose
<1>10. Holds(r, part) /\ \A e, i : ~Amid(req[p], e, i) /\ ~Amid(r, e, i)
  BY <1>1, <1>9, LooseHolds, IdleLoose, Zenon
<1>11. req[p].op \notin Changing
  BY <1>1, WorkFacts DEF Idle, Request
<1> QED
  BY <1>1, <1>2, <1>5, <1>6, <1>7, <1>8, <1>10, <1>11, SilentKeeps, Zenon

-----------------------------------------------------------------------------
(* The steps that change a list of items                                   *)

\* One entry changes, and stays what it is.
LEMMA OnlyLives ==
    ASSUME NEW e \in DOMAIN part, Only(e), part'[e].live = part[e].live, UNCHANGED <<registry, blends>>
    PROVE  SameLives
BY Zenon DEF Only, SameLives, SameNames

\* The ids of an entry stay, whatever else happens to it.
KeepsIds(old, new) ==
    /\ IdsBelow(new)
    /\ \A l \in Lists : \A id : HasId(old.list[l], id) => HasId(new.list[l], id)

\* A step of a request on the items of its entry that keeps their ids keeps
\* everything but what is said of new ids and of images.
LEMMA ItemFrame ==
    ASSUME IInv, UNCHANGED <<registry, blends, history>>, NEW p \in Procs, req[p].op \in Working,
           NEW r, Moved(p, r), Sound(r, part', registry'),
           \/ r.op = "none"
           \/ r.op = req[p].op /\ r.obj = req[p].obj /\ r.entry = req[p].entry,
           NEW e \in DOMAIN part, Only(e), part'[e].live = part[e].live, KeepsIds(part[e], part'[e])
    PROVE  TypeOK' /\ HoldInv' /\ EventInv' /\ FoundInv' /\ DOMAIN part' = DOMAIN part
<1>1. TypeOK /\ HoldInv /\ EventInv /\ FoundInv
  BY Zenon DEF IInv
<1>2. /\ UNCHANGED <<registry, blends>> /\ UNCHANGED <<last, twin, raced>>
      /\ announced' = announced /\ raced' = raced
  BY Zenon DEF history
<1>3. SameLives /\ SameNames /\ DOMAIN part' = DOMAIN part
  BY <1>2, OnlyLives, Zenon DEF SameLives, SameNames
<1>4. \A d \in DOMAIN part : d # e => part'[d] = part[d]
  BY Zenon DEF Only
<1>5. \A d \in DOMAIN part : IdsBelow(part'[d])
  BY <1>1, <1>4, SameHistory, Zenon DEF KeepsIds
<1>6. HistoryTypes'
  BY <1>1, <1>2, SameHistory, Zenon DEF HistoryTypes
<1>7. \A d \in DOMAIN part, l \in Lists : \A id :
         HasId(part[d].list[l], id) => HasId(part'[d].list[l], id)
  BY <1>4, Zenon DEF KeepsIds
<1>8. TypeOK' /\ HoldInv'
  BY <1>1, <1>3, <1>5, <1>6, LocalTypes, Zenon
<1>9. r.op \notin Changing /\ req[p].op \notin Changing
  BY WorkFacts, Zenon
<1>10. EventInv'
  BY <1>1, <1>2, <1>3, <1>9, LocalEvents, Zenon
<1>11. r.op \in Working /\ r.obj \notin raced => Registered(r.obj) /\ Find(r.obj) = r.entry
  BY <1>1, WorkFacts, Zenon DEF FoundInv
<1>12. announced' \subseteq Uuids \X Lists \X Nat
  BY <1>6, Zenon DEF HistoryTypes
<1>13. FoundInv'
  <2>1. \A a \in announced' : a \in announced \/
         (a[1] \notin raced => Registered(a[1]) /\ HasId(part[Find(a[1])].list[a[2]], a[3]))
    BY <1>2, Zenon
  <2> QED
    BY <1>1, <1>2, <1>3, <1>7, <1>11, <1>12, <2>1, LocalFound, Zenon
<1> QED
  BY <1>3, <1>8, <1>10, <1>13

\* Requests that the step does not touch, on an entry whose ids stay.
LEMMA HoldsKept ==
    ASSUME NEW r, Holds(r, part), r.at # "add",
           \A l \in Lists : \A id :
              HasId(part[r.entry].list[l], id) => HasId(part'[r.entry].list[l], id)
    PROVE  Holds(r, part')
<1>1. "images" \in Lists /\ ListOf(r.op) \in Lists
  BY WorkFacts DEF Lists
<1> QED
  BY <1>1, Zenon DEF Holds

\* The items of an entry.
LEMMA ItemFacts ==
    ASSUME NEW x \in Entries, NEW l \in Lists
    PROVE  /\ x.list[l] \in Seq(Items) /\ x.next[l] \in Nat
           /\ \A i \in DOMAIN x.list[l] : x.list[l][i] \in Items /\ x.list[l][i].id \in Nat
<1>1. x.list \in [Lists -> Seq(Items)] /\ x.next \in [Lists -> Nat]
  BY EntryFacts, Zenon
<1>2. x.list[l] \in Seq(Items) /\ x.next[l] \in Nat
  BY <1>1
<1>3. \A i \in DOMAIN x.list[l] : x.list[l][i] \in Items
  BY <1>2
<1>4. \A item \in Items : item.id \in Nat
  BY DEF Items
<1> QED
  BY <1>2, <1>3, <1>4, Zenon

\* The id is taken from the counter: no item and no other request has it.
LEMMA AllocateKeeps ==
    ASSUME IInv, NEW p \in Procs, Allocate(p)
    PROVE  IInv'
<1> DEFINE e == req[p].entry
           l == ListOf(req[p].op)
           r == req'[p]
<1>1. /\ TypeOK /\ HoldInv /\ IdInv /\ ImageInv /\ req[p].at = "allocate"
      /\ part' = [part EXCEPT ![e].next[l] = @ + 1]
      /\ req' = [req EXCEPT ![p].id = NextId(e, l), ![p].at = "add"]
      /\ UNCHANGED <<registry, blends, history>>
  BY Zenon DEF IInv, Allocate
<1>2. "allocate" \in {"allocate", "add", "reply"} /\ "allocate" \notin {"told", "clear"}
      /\ "add" \notin {"told", "clear"}
  OBVIOUS
<1>3. req[p].op \in Adding
  BY <1>1, <1>2, AtFacts, Zenon DEF HoldInv, Sound
<1>4. req[p].op \in Working /\ l \in Lists
  BY <1>3, WorkFacts, Zenon
<1>5. e \in DOMAIN part /\ part[e] \in Entries /\ req[p] \in Requests
  BY <1>1, <1>4, Worker, Zenon
<1>6. /\ Only(e) /\ part'[e].live = part[e].live /\ part'[e].list = part[e].list
      /\ part[e].next[l] \in Nat /\ part'[e].next[l] = part[e].next[l] + 1
      /\ \A k \in Lists : k # l => part'[e].next[k] = part[e].next[k]
  <2> HIDE DEF e, l
  <2> QED
    BY <1>1, <1>4, <1>5, NextFacts, Zenon
<1>7. /\ Moved(p, r) /\ r.at = "add" /\ r.op = req[p].op /\ r.obj = req[p].obj
      /\ r.entry = e /\ r.id = part[e].next[l] /\ r \in Requests
  <2>1. r = [req[p] EXCEPT !.id = part[e].next[l], !.at = "add"]
    <3>1. req \in [Procs -> Requests]
      BY <1>1, TypeFacts, Zenon
    <3>2. req' = [req EXCEPT ![p] = [req[p] EXCEPT !.id = part[e].next[l], !.at = "add"]]
      BY <1>1, Zenon DEF NextId
    <3> QED
      BY <3>1, <3>2, Zenon
  <2>2. req' = [req EXCEPT ![p] = r]
    BY <1>1, <2>1, Zenon DEF NextId
  <2>3. /\ r.at = "add" /\ r.op = req[p].op /\ r.obj = req[p].obj
        /\ r.entry = req[p].entry /\ r.id = part[e].next[l] /\ r \in Requests
    <3> DEFINE n == part[e].next[l]
    <3>1. n \in Nat
      BY <1>6, Zenon
    <3> HIDE DEF r, n
    <3> QED
      BY <1>5, <2>1, <3>1, Zenon DEF Requests, n
  <2> QED
    BY <1>1, <2>2, <2>3, MovedFacts, Zenon
<1> HIDE DEF r, e, l
<1>8. \A k \in Lists : part[e].next[k] \in Nat /\ part'[e].next[k] \in Nat /\ part[e].next[k] <= part'[e].next[k]
  <2>1. \A k \in Lists : part[e].next[k] \in Nat
    BY <1>5, ItemFacts, Zenon
  <2> QED
    BY <2>1, <1>6
<1>9. KeepsIds(part[e], part'[e])
  <2>1. ASSUME NEW k \in Lists, NEW i \in DOMAIN part[e].list[k]
        PROVE  part[e].list[k][i].id < part'[e].next[k]
    <3>1. part[e].list[k][i].id \in Nat
      BY <1>5, ItemFacts, Zenon
    <3>2. part[e].list[k][i].id < part[e].next[k]
      BY <1>1, <1>5, Zenon DEF TypeOK
    <3>3. part[e].next[k] \in Nat /\ part'[e].next[k] \in Nat /\ part[e].next[k] <= part'[e].next[k]
      BY <1>8, Zenon
    <3> QED
      BY <3>1, <3>2, <3>3
  <2> QED
    BY <1>6, <2>1, Zenon DEF KeepsIds, IdsBelow
<1>10. Sound(r, part', registry')
  <2>1. SameLives
    BY <1>1, <1>5, <1>6, OnlyLives, Zenon
  <2>2. "add" \in Places(req[p].op)
    BY <1>3, PlaceFacts
  <2> QED
    BY <1>1, <1>4, <1>7, <2>1, <2>2, GoesOn, Zenon DEF e
<1>11. TypeOK' /\ HoldInv' /\ EventInv' /\ FoundInv' /\ DOMAIN part' = DOMAIN part
  BY <1>1, <1>4, <1>5, <1>6, <1>7, <1>9, <1>10, ItemFrame, Zenon DEF e
<1>12. \A d \in DOMAIN part : part'[d].list = part[d].list
  BY <1>6, Zenon DEF Only
<1>13. \A i \in DOMAIN part[e].list[l] : part[e].list[l][i].id # part[e].next[l]
  <2> SUFFICES ASSUME NEW i \in DOMAIN part[e].list[l] PROVE part[e].list[l][i].id # part[e].next[l]
    BY Zenon
  <2>1. part[e].list[l][i].id < part[e].next[l]
    BY <1>1, <1>4, <1>5, Zenon DEF TypeOK
  <2> QED
    BY <1>6, <2>1
<1>14. ASSUME NEW q \in Procs PROVE Holds(req'[q], part')
  <2>1. CASE q = p
    <3>1. part[e].next[l] < part'[e].next[l]
      BY <1>6
    <3>2. ~HasId(part'[e].list[l], part[e].next[l])
      BY <1>6, <1>13, Zenon DEF HasId
    <3>3. "add" # "reply" /\ "add" \notin {"record", "told", "clear"} /\ "add" # "emit"
      OBVIOUS
    <3>4. ListOf(r.op) = l
      BY <1>7, Zenon DEF l
    <3>5. Holds(r, part')
      BY <1>7, <3>1, <3>2, <3>3, <3>4, Zenon DEF Holds
    <3> QED
      BY <2>1, <3>5, Zenon DEF r
  <2>2. CASE q # p
    <3>1. req'[q] = req[q] /\ Holds(req[q], part)
      BY <1>1, <1>7, <2>2, Zenon DEF Moved, IdInv
    <3>2. CASE req[q].op = "none"
      <4>1. req[q] = Idle
        BY <1>1, <3>2, Zenon DEF HoldInv, Sound
      <4> QED
        BY <3>1, <4>1, IdleLoose, LooseHolds, Zenon
    <3>3. CASE req[q].op # "none"
      <4>1. req[q].entry \in DOMAIN part
        BY <1>1, <3>3, Zenon DEF HoldInv, Sound
      <4>2. CASE req[q].at # "add"
        <5>1. \A k \in Lists : \A id :
                 HasId(part[req[q].entry].list[k], id) => HasId(part'[req[q].entry].list[k], id)
          BY <1>12, <4>1, Zenon
        <5> QED
          BY <3>1, <4>2, <5>1, HoldsKept, Zenon
      <4>3. CASE req[q].at = "add"
        <5> DEFINE k == ListOf(req[q].op)
                   d == req[q].entry
        <5>1. k \in Lists /\ "add" # "reply" /\ "add" \notin {"record", "told", "clear"} /\ "add" # "emit"
          BY WorkFacts
        <5>2. req[q].id < part[d].next[k] /\ ~HasId(part[d].list[k], req[q].id) /\ req[q].id \in Nat
          <6>1. req[q] \in Requests
            BY <1>1, Zenon DEF HoldInv, Sound
          <6>2. req[q].id \in Nat
            BY <6>1 DEF Requests
          <6> QED
            BY <3>1, <4>3, <6>2, Zenon DEF Holds
        <5>3. req[q].id < part'[d].next[k]
          <6>1. CASE d = e
            BY <1>8, <5>1, <5>2, <6>1
          <6>2. CASE d # e
            BY <1>6, <4>1, <5>2, <6>2, Zenon DEF Only
          <6> QED
            BY <6>1, <6>2, Zenon
        <5>4. ~HasId(part'[d].list[k], req[q].id)
          BY <1>12, <4>1, <5>2, Zenon
        <5> QED
          BY <3>1, <4>3, <5>1, <5>3, <5>4, Zenon DEF Holds
      <4> QED
        BY <4>2, <4>3, Zenon
    <3> QED
      BY <3>2, <3>3, Zenon
  <2> QED
    BY <2>1, <2>2, Zenon
<1>15. ASSUME NEW q \in Procs, q # p PROVE ~Rivals(r, req'[q])
  <2> SUFFICES ASSUME Rivals(r, req[q]) PROVE FALSE
    BY <1>7, <1>15, Zenon DEF Moved
  <2>1. req[q].at = "add" /\ req[q].entry = e /\ ListOf(req[q].op) = l /\ req[q].id = part[e].next[l]
    BY <1>7, Zenon DEF Rivals, l
  <2>2. part[e].next[l] < part[e].next[l]
    BY <1>1, <2>1, Zenon DEF IdInv, Holds
  <2> QED
    BY <1>6, <2>2
<1>16. \A k, q \in Procs : Rivals(req'[k], req'[q]) => k = q
  <2>1. ASSUME NEW k \in Procs, k # p PROVE ~Rivals(req'[k], r)
    BY <1>15, <2>1, Zenon DEF Rivals
  <2> QED
    BY <1>1, <1>7, <1>15, <2>1, Zenon DEF IdInv, Moved
<1>17. IdInv'
  BY <1>1, <1>11, <1>12, <1>14, <1>16, Zenon DEF IdInv
<1>18. ImageInv'
  <2>1. \A d, id : ~Amid(req[p], d, id) /\ ~Amid(r, d, id)
    BY <1>1, <1>2, <1>7, Zenon DEF Amid
  <2>2. \A q \in Procs : \A d, id : req'[q] = req[q] \/ (~Amid(req[q], d, id) /\ ~Amid(req'[q], d, id))
    BY <1>7, <2>1, Zenon DEF Moved
  <2> QED
    BY <1>1, <1>11, <1>12, <2>2, ImageFrame, Zenon
<1> QED
  BY <1>11, <1>17, <1>18, Zenon DEF IInv

\* The item goes to the end of the list: every item is where it was.
LEMMA AddKeeps ==
    ASSUME IInv, NEW p \in Procs, Add(p)
    PROVE  IInv'
<1> DEFINE e == req[p].entry
           l == ListOf(req[p].op)
           r == req'[p]
           id == req[p].id
           old == part[e].list[l]
           s == Append(old, Item(id))
           n == Len(old) + 1
<1>1. /\ TypeOK /\ HoldInv /\ IdInv /\ ImageInv /\ req[p].at = "add"
      /\ part' = [part EXCEPT ![e].list[l] = Append(@, Item(id))]
      /\ Goto(p, "reply") /\ UNCHANGED <<registry, blends, history>>
  BY Zenon DEF IInv, Add
<1>2. "add" \in {"allocate", "add", "reply"} /\ "reply" \notin {"told", "clear"}
      /\ "add" \notin {"told", "clear"} /\ "reply" # "add"
  OBVIOUS
<1>3. req[p].op \in Adding
  BY <1>1, <1>2, AtFacts, Zenon DEF HoldInv, Sound
<1>4. req[p].op \in Working /\ l \in Lists
  BY <1>3, WorkFacts, Zenon
<1>5. e \in DOMAIN part /\ part[e] \in Entries /\ req[p] \in Requests
  BY <1>1, <1>4, Worker, Zenon
<1>6. id < part[e].next[l] /\ ~HasId(old, id) /\ id \in Nat
  <2>1. id \in Nat
    BY <1>5 DEF Requests
  <2> QED
    BY <1>1, <2>1, Zenon DEF IdInv, Holds
<1>7. Item(id) \in Items /\ Item(id).id = id /\ Item(id).mount = Item(id).told
  BY <1>6 DEF Item, Items
<1>8. old \in Seq(Items)
  BY <1>4, <1>5, ItemFacts, Zenon
<1>9. /\ s \in Seq(Items) /\ DOMAIN s = DOMAIN old \cup {n} /\ n \notin DOMAIN old
      /\ s[n] = Item(id) /\ \A i \in DOMAIN old : s[i] = old[i]
  <2>1. Item(id) \in Items
    BY <1>7, Zenon
  <2> HIDE DEF old, id
  <2> QED
    BY <1>8, <2>1
<1>10. /\ Only(e) /\ part'[e].live = part[e].live /\ part'[e].next = part[e].next
       /\ part'[e].list[l] = s /\ \A k \in Lists : k # l => part'[e].list[k] = part[e].list[k]
  <2>1. part' = [part EXCEPT ![e] = [part[e] EXCEPT !.list = [part[e].list EXCEPT ![l] = s]]]
    BY <1>1, Zenon
  <2>2. s \in Seq(Items)
    BY <1>9, Zenon
  <2>3. TypeOK /\ e \in DOMAIN part /\ l \in Lists
    BY <1>1, <1>4, <1>5, Zenon
  <2> HIDE DEF e, l, s
  <2> QED
    BY <2>1, <2>2, <2>3, SetListFacts, Zenon
<1>11. /\ Moved(p, r) /\ r.at = "reply" /\ r.op = req[p].op /\ r.obj = req[p].obj
       /\ r.entry = e /\ r.id = id
  BY <1>1, GotoFacts, Zenon
<1>12. r \in Requests
  <2>1. r = [req[p] EXCEPT !.at = "reply"]
    BY <1>1, GotoFacts, Zenon
  <2> HIDE DEF r
  <2> QED
    BY <1>5, <2>1 DEF Requests
<1> HIDE DEF e, l, r, id, old, s, n
<1>13. \A i \in DOMAIN s : s[i].id < part[e].next[l]
  <2>1. \A i \in DOMAIN old : old[i].id < part[e].next[l]
    BY <1>1, <1>4, <1>5, Zenon DEF TypeOK, old
  <2>2. s[n].id < part[e].next[l]
    <3>1. s[n].id = id
      BY <1>7, <1>9, Zenon
    <3> QED
      BY <1>6, <3>1, Zenon
  <2> QED
    BY <1>9, <2>1, <2>2, Zenon
<1>14. HasId(s, id) /\ \A i : HasId(old, i) => HasId(s, i)
  BY <1>7, <1>9, Zenon DEF HasId
<1>15. \A i : HasId(s, i) => HasId(old, i) \/ i = id
  BY <1>7, <1>9, Zenon DEF HasId
<1>16. UniqueIds(s)
  <2>1. UniqueIds(old)
    BY <1>1, <1>4, <1>5, Zenon DEF IdInv, old
  <2>2. \A i \in DOMAIN old : s[i] = old[i] /\ s[i].id # id
    BY <1>6, <1>9, Zenon DEF HasId
  <2>3. s[n].id = id
    BY <1>7, <1>9, Zenon
  <2> QED
    BY <1>9, <2>1, <2>2, <2>3, Zenon DEF UniqueIds
<1>17. KeepsIds(part[e], part'[e])
  <2>1. ASSUME NEW k \in Lists, NEW i \in DOMAIN part'[e].list[k]
        PROVE  part'[e].list[k][i].id < part'[e].next[k]
    <3>1. CASE k = l
      BY <1>10, <1>13, <2>1, <3>1, Zenon
    <3>2. CASE k # l
      BY <1>1, <1>5, <1>10, <2>1, <3>2, Zenon DEF TypeOK
    <3> QED
      BY <3>1, <3>2, Zenon
  <2>2. ASSUME NEW k \in Lists, NEW i, HasId(part[e].list[k], i) PROVE HasId(part'[e].list[k], i)
    <3>1. CASE k = l
      BY <1>10, <1>14, <2>2, <3>1, Zenon DEF old
    <3>2. CASE k # l
      BY <1>10, <2>2, <3>2, Zenon
    <3> QED
      BY <3>1, <3>2, Zenon
  <2> QED
    BY <2>1, <2>2, Zenon DEF KeepsIds, IdsBelow
<1>18. Sound(r, part', registry')
  <2>1. SameLives
    BY <1>1, <1>5, <1>10, OnlyLives, Zenon
  <2>2. "reply" \in Places(req[p].op)
    BY <1>3, PlaceFacts
  <2> QED
    BY <1>1, <1>4, <1>11, <1>12, <2>1, <2>2, GoesOn, Zenon DEF e
<1>19. TypeOK' /\ HoldInv' /\ EventInv' /\ FoundInv' /\ DOMAIN part' = DOMAIN part
  BY <1>1, <1>4, <1>5, <1>10, <1>11, <1>17, <1>18, ItemFrame, Zenon DEF e
<1>20. \A d \in DOMAIN part : d # e => part'[d] = part[d]
  BY <1>10, Zenon DEF Only
<1>21. \A d \in DOMAIN part, k \in Lists :
          part'[d].list[k] = part[d].list[k] \/ (d = e /\ k = l /\ part'[d].list[k] = s)
  BY <1>10, <1>20, Zenon
<1>22. ASSUME NEW q \in Procs PROVE Holds(req'[q], part')
  <2>1. CASE q = p
    <3>1. ListOf(r.op) = l
      BY <1>11, Zenon DEF l
    <3>2. HasId(part'[e].list[l], id)
      BY <1>10, <1>14, Zenon
    <3>3. "reply" # "add" /\ "reply" \notin {"record", "told", "clear"} /\ "reply" # "emit"
      OBVIOUS
    <3>4. Holds(r, part')
      BY <1>11, <3>1, <3>2, <3>3, Zenon DEF Holds
    <3> QED
      BY <2>1, <3>4, Zenon DEF r
  <2>2. CASE q # p
    <3>1. req'[q] = req[q] /\ Holds(req[q], part)
      BY <1>1, <1>11, <2>2, Zenon DEF Moved, IdInv
    <3>2. CASE req[q].op = "none"
      <4>1. req[q] = Idle
        BY <1>1, <3>2, Zenon DEF HoldInv, Sound
      <4> QED
        BY <3>1, <4>1, IdleLoose, LooseHolds, Zenon
    <3>3. CASE req[q].op # "none"
      <4>1. req[q].entry \in DOMAIN part
        BY <1>1, <3>3, Zenon DEF HoldInv, Sound
      <4>2. CASE req[q].at # "add"
        <5>1. \A k \in Lists : \A i :
                 HasId(part[req[q].entry].list[k], i) => HasId(part'[req[q].entry].list[k], i)
          BY <1>17, <1>20, <4>1, Zenon DEF KeepsIds
        <5> QED
          BY <3>1, <4>2, <5>1, HoldsKept, Zenon
      <4>3. CASE req[q].at = "add"
        <5> DEFINE k == ListOf(req[q].op)
                   d == req[q].entry
        <5>1. k \in Lists /\ "add" # "reply" /\ "add" \notin {"record", "told", "clear"} /\ "add" # "emit"
          BY WorkFacts
        <5>2. req[q].id < part[d].next[k] /\ ~HasId(part[d].list[k], req[q].id)
          BY <3>1, <4>3, Zenon DEF Holds
        <5>3. req[q].id < part'[d].next[k]
          <6>1. part'[d].next = part[d].next
            BY <1>10, <1>20, <4>1, Zenon
          <6> QED
            BY <5>2, <6>1, Zenon
        <5>4. ~HasId(part'[d].list[k], req[q].id)
          <6>1. CASE d = e /\ k = l /\ part'[d].list[k] = s
            <7>1. req[q].id # id
              <8>1. ~Rivals(req[p], req[q])
                BY <1>1, <2>2, Zenon DEF IdInv
              <8> QED
                BY <1>1, <4>3, <6>1, <8>1, Zenon DEF Rivals, e, l, id
            <7>2. ~HasId(old, req[q].id)
              BY <5>2, <6>1, Zenon DEF old
            <7> QED
              BY <1>15, <6>1, <7>1, <7>2, Zenon
          <6>2. CASE part'[d].list[k] = part[d].list[k]
            BY <5>2, <6>2, Zenon
          <6> QED
            BY <1>21, <4>1, <5>1, <6>1, <6>2, Zenon
        <5> QED
          BY <3>1, <4>3, <5>1, <5>3, <5>4, Zenon DEF Holds
      <4> QED
        BY <4>2, <4>3, Zenon
    <3> QED
      BY <3>2, <3>3, Zenon
  <2> QED
    BY <2>1, <2>2, Zenon
<1>23. \A k, q \in Procs : Rivals(req'[k], req'[q]) => k = q
  <2>1. \A x : ~Rivals(x, r) /\ ~Rivals(r, x)
    BY <1>2, <1>11, Zenon DEF Rivals
  <2> QED
    BY <1>1, <1>11, <2>1, Zenon DEF IdInv, Moved
<1>24. \A d \in DOMAIN part', k \in Lists : UniqueIds(part'[d].list[k])
  BY <1>1, <1>16, <1>19, <1>21, Zenon DEF IdInv
<1>25. IdInv'
  BY <1>22, <1>23, <1>24, Zenon DEF IdInv
<1>26. \A q \in Procs : \A d, i : req'[q] = req[q] \/ (~Amid(req[q], d, i) /\ ~Amid(req'[q], d, i))
  <2>1. \A d, i : ~Amid(req[p], d, i) /\ ~Amid(r, d, i)
    BY <1>1, <1>2, <1>11, Zenon DEF Amid
  <2> QED
    BY <1>11, <2>1, Zenon DEF Moved
<1>27. ASSUME NEW d \in DOMAIN part', NEW i \in DOMAIN part'[d].list["images"]
       PROVE  Settled(part'[d].list["images"][i], d, req')
  <2>1. "images" \in Lists /\ d \in DOMAIN part
    BY <1>19, Zenon DEF Lists
  <2>2. CASE i \in DOMAIN part[d].list["images"] /\ part'[d].list["images"][i] = part[d].list["images"][i]
    <3> DEFINE img == part[d].list["images"][i]
    <3>1. Settled(img, d, req)
      BY <1>1, <2>1, <2>2, Zenon DEF ImageInv
    <3> HIDE DEF img
    <3>2. Settled(img, d, req')
      BY <1>26, <3>1, SettledSame, Zenon
    <3> QED
      BY <2>2, <3>2, Zenon DEF img
  <2>3. CASE d = e /\ l = "images" /\ part'[d].list["images"] = s /\ i = n
    <3>1. ASSUME NEW q \in Procs PROVE ~Amid(req'[q], e, id)
      <4>1. ASSUME Amid(req[q], e, id) PROVE FALSE
        <5>1. /\ req[q].at \in {"told", "clear"} /\ req[q].entry = e /\ req[q].id = id
          BY <4>1, Zenon DEF Amid
        <5>2. req[q].at \in {"record", "told", "clear"}
          BY <5>1, Zenon
        <5>3. HasId(part[e].list["images"], id)
          BY <1>1, <5>1, <5>2, Zenon DEF IdInv, Holds
        <5> QED
          BY <1>6, <2>3, <5>3, Zenon DEF old
      <4> QED
        BY <1>26, <4>1, Zenon
    <3> DEFINE img == Item(id)
    <3>2. img.id = id /\ img.mount = img.told
      BY <1>7, Zenon
    <3> HIDE DEF img
    <3>3. Settled(img, e, req')
      BY <3>1, <3>2, Zenon DEF Settled
    <3> QED
      BY <1>9, <2>3, <3>3, Zenon DEF img
  <2>4. CASE part'[d].list["images"] = part[d].list["images"]
    BY <1>27, <2>2, <2>4, Zenon
  <2>5. CASE d = e /\ l = "images" /\ part'[d].list["images"] = s
    <3>1. i \in DOMAIN old \/ i = n
      BY <1>9, <1>27, <2>5, Zenon
    <3>2. CASE i \in DOMAIN old
      BY <1>9, <2>2, <2>5, <3>2, Zenon DEF old
    <3> QED
      BY <2>3, <2>5, <3>1, <3>2, Zenon
  <2> QED
    BY <1>21, <2>1, <2>4, <2>5, Zenon
<1>28. ImageInv'
  BY <1>27, Zenon DEF ImageInv
<1> QED
  BY <1>19, <1>25, <1>28, Zenon DEF IInv

\* A mount or an unmount writes to its image.
LEMMA PlaceOf ==
    ASSUME NEW p \in Procs, HasId(part[req[p].entry].list["images"], req[p].id)
    PROVE  /\ Place(p) \in DOMAIN part[req[p].entry].list["images"]
           /\ ImageOf(p).id = req[p].id
<1> DEFINE list == part[req[p].entry].list["images"]
<1>1. \E i \in DOMAIN list : list[i].id = req[p].id
  BY Zenon DEF HasId
<1> HIDE DEF list
<1>2. IndexOf(list, req[p].id) \in DOMAIN list /\ list[IndexOf(list, req[p].id)].id = req[p].id
  BY <1>1, Zenon DEF IndexOf
<1> QED
  BY <1>2, Zenon DEF Place, ImageOf, list

\* A step of a mount or unmount that writes its image and leaves it settled
\* keeps the invariant.
LEMMA SetImageKeeps ==
    ASSUME IInv, NEW p \in Procs, req[p].op \in {"mount", "umount"}, req[p].at # "find",
           NEW item \in Items, item.id = req[p].id, NEW at \in {"idle", "told", "clear"},
           SetImage(p, item, at), at = "idle" \/ at \in Places(req[p].op),
           Settled(item, req[p].entry, req')
    PROVE  IInv'
<1> DEFINE e == req[p].entry
           id == req[p].id
           r == req'[p]
           k == Place(p)
           old == part[e].list["images"]
<1>1. /\ TypeOK /\ HoldInv /\ IdInv /\ ImageInv
      /\ part' = [part EXCEPT ![e].list["images"][k] = item]
      /\ IF at = "idle" THEN Done(p) ELSE Goto(p, at)
      /\ UNCHANGED <<registry, blends, history>>
  BY Zenon DEF IInv, SetImage
<1>2. req[p].op \in Working
  BY WorkFacts
<1>3. e \in DOMAIN part /\ part[e] \in Entries /\ req[p] \in Requests
  BY <1>1, <1>2, Worker, Zenon
<1>4. HasId(old, id)
  <2>1. req[p].at \in Places(req[p].op)
    BY <1>1, Zenon DEF HoldInv, Sound
  <2>2. req[p].at \in {"record", "told", "clear"} \/ (req[p].op = "umount" /\ req[p].at = "emit")
    <3>1. CASE req[p].op = "mount"
      BY <2>1, <3>1, PlaceFacts
    <3>2. CASE req[p].op = "umount"
      BY <2>1, <3>2, PlaceFacts
    <3> QED
      BY <3>1, <3>2
  <2> QED
    BY <1>1, <2>2, Zenon DEF IdInv, Holds
<1>5. k \in DOMAIN old /\ old[k].id = id
  BY <1>4, PlaceOf, Zenon DEF ImageOf
<1>6. "images" \in Lists /\ "subvols" \in Lists /\ \A l \in Lists : l = "images" \/ l = "subvols"
  BY DEF Lists
<1>7. /\ Only(e) /\ part'[e].live = part[e].live /\ part'[e].next = part[e].next
      /\ part'[e].list["subvols"] = part[e].list["subvols"]
      /\ DOMAIN part'[e].list["images"] = DOMAIN old
      /\ part'[e].list["images"][k] = item
      /\ \A i \in DOMAIN old : i # k => part'[e].list["images"][i] = old[i]
  <2> HIDE DEF e, k
  <2> QED
    BY <1>1, <1>3, <1>5, SetItemFacts, Zenon
<1>8. Moved(p, r) /\ (r = Idle \/ (r.at = at /\ at # "idle"))
      /\ (r = Idle \/ (r.op = req[p].op /\ r.obj = req[p].obj /\ r.entry = e /\ r.id = id))
  <2>1. CASE at = "idle"
    <3>1. Moved(p, Idle)
      BY <1>1, <2>1, DoneFacts, Zenon
    <3> QED
      BY <3>1, Zenon DEF Moved
  <2>2. CASE at # "idle"
    <3>1. Goto(p, at)
      BY <1>1, <2>2, Zenon
    <3> QED
      BY <1>1, <2>2, <3>1, GotoFacts, Zenon
  <2> QED
    BY <2>1, <2>2, Zenon
<1>9. r \in Requests
  <2>1. CASE at = "idle"
    <3>1. r = Idle
      BY <1>1, <2>1, DoneFacts, Zenon DEF Moved
    <3> QED
      BY <3>1, IdleSound, Zenon DEF Sound
  <2>2. CASE at # "idle"
    <3>1. r = [req[p] EXCEPT !.at = at]
      BY <1>1, <2>2, GotoFacts, Zenon
    <3>2. at \in {"idle", "emit", "destroy", "find", "allocate", "add", "reply", "record", "told", "clear"}
      OBVIOUS
    <3> HIDE DEF r
    <3> QED
      BY <1>3, <3>1, <3>2 DEF Requests
  <2> QED
    BY <2>1, <2>2, Zenon
<1> HIDE DEF e, id, r, k, old
<1>10. Sound(r, part', registry')
  <2>1. SameLives
    BY <1>1, <1>3, <1>7, OnlyLives, Zenon
  <2>2. CASE r = Idle
    BY <2>2, IdleSound, Zenon
  <2>3. CASE r # Idle
    <3>1. r.at = at /\ at \in Places(r.op) /\ r.op = req[p].op /\ r.obj = req[p].obj /\ r.entry = req[p].entry
      BY <1>8, <2>3, Zenon DEF e
    <3> QED
      BY <1>1, <1>2, <1>9, <2>1, <3>1, GoesOn, Zenon
  <2> QED
    BY <2>2, <2>3, Zenon
<1>11. /\ \A i \in DOMAIN old : part'[e].list["images"][i].id = old[i].id
       /\ DOMAIN part'[e].list["images"] = DOMAIN old
  <2>1. part'[e].list["images"][k].id = old[k].id
    BY <1>5, <1>7 DEF id
  <2> QED
    BY <1>7, <2>1, Zenon
<1>12. \A l \in Lists : /\ DOMAIN part'[e].list[l] = DOMAIN part[e].list[l]
                        /\ \A i \in DOMAIN part[e].list[l] :
                              part'[e].list[l][i].id = part[e].list[l][i].id
  BY <1>6, <1>7, <1>11, Zenon DEF old
<1>13. /\ \A l \in Lists : \A i : HasId(part'[e].list[l], i) <=> HasId(part[e].list[l], i)
       /\ \A l \in Lists : UniqueIds(part[e].list[l]) => UniqueIds(part'[e].list[l])
  BY <1>12, Zenon DEF HasId, UniqueIds
<1>14. KeepsIds(part[e], part'[e])
  <2>1. IdsBelow(part[e])
    BY <1>1, <1>3, SameHistory, Zenon
  <2>2. IdsBelow(part'[e])
    BY <1>7, <1>12, <2>1 DEF IdsBelow
  <2> QED
    BY <1>13, <2>2, Zenon DEF KeepsIds
<1>15. TypeOK' /\ HoldInv' /\ EventInv' /\ FoundInv' /\ DOMAIN part' = DOMAIN part
  <2>1. r.op = "none" \/ (r.op = req[p].op /\ r.obj = req[p].obj /\ r.entry = req[p].entry)
    <3>1. Idle.op = "none"
      BY DEF Idle, Request
    <3> QED
      BY <1>8, <3>1, Zenon DEF e
  <2> QED
    BY <1>1, <1>2, <1>3, <1>7, <1>8, <1>10, <1>14, <2>1, ItemFrame, Zenon
<1>16. \A d \in DOMAIN part : d # e => part'[d] = part[d]
  BY <1>7, Zenon DEF Only
<1>17. \A d \in DOMAIN part, l \in Lists :
          /\ part'[d].next = part[d].next
          /\ \A i : HasId(part'[d].list[l], i) <=> HasId(part[d].list[l], i)
          /\ UniqueIds(part[d].list[l]) => UniqueIds(part'[d].list[l])
  BY <1>7, <1>13, <1>16, Zenon
<1>18. r.at # "add"
  <2>1. Idle.at # "add"
    BY DEF Idle, Request
  <2>2. at # "add"
    OBVIOUS
  <2> QED
    BY <1>8, <2>1, <2>2, Zenon
<1>19. ASSUME NEW q \in Procs PROVE Holds(req'[q], part')
  <2>1. CASE q = p
    <3>1. CASE r = Idle
      BY <2>1, <3>1, IdleLoose, LooseHolds, Zenon DEF r
    <3>2. CASE r # Idle
      <4>1. HasId(part'[e].list["images"], id)
        BY <1>4, <1>6, <1>13, Zenon DEF old
      <4>2. r.at # "add" /\ r.at # "reply" /\ r.entry = e /\ r.id = id
        <5>1. at # "reply"
          OBVIOUS
        <5> QED
          BY <1>8, <1>18, <3>2, <5>1, Zenon
      <4>3. Holds(r, part')
        BY <4>1, <4>2, Zenon DEF Holds
      <4> QED
        BY <2>1, <4>3, Zenon DEF r
    <3> QED
      BY <3>1, <3>2, Zenon
  <2>2. CASE q # p
    <3>1. req'[q] = req[q] /\ Holds(req[q], part)
      BY <1>1, <1>8, <2>2, Zenon DEF Moved, IdInv
    <3>2. CASE req[q].op = "none"
      <4>1. req[q] = Idle
        BY <1>1, <3>2, Zenon DEF HoldInv, Sound
      <4> QED
        BY <3>1, <4>1, IdleLoose, LooseHolds, Zenon
    <3>3. CASE req[q].op # "none"
      <4> DEFINE d == req[q].entry
      <4>1. d \in DOMAIN part /\ ListOf(req[q].op) \in Lists
        BY <1>1, <3>3, WorkFacts, Zenon DEF HoldInv, Sound
      <4>2. /\ part'[d].next = part[d].next
            /\ \A l \in Lists : \A i : HasId(part'[d].list[l], i) <=> HasId(part[d].list[l], i)
        BY <1>17, <4>1, Zenon
      <4>3. Holds(req[q], part')
        BY <1>6, <3>1, <4>1, <4>2, Zenon DEF Holds
      <4> QED
        BY <3>1, <4>3, Zenon
    <3> QED
      BY <3>2, <3>3, Zenon
  <2> QED
    BY <2>1, <2>2, Zenon
<1>20. \A i, q \in Procs : Rivals(req'[i], req'[q]) => i = q
  <2>1. \A x : ~Rivals(x, r) /\ ~Rivals(r, x)
    BY <1>18, Zenon DEF Rivals
  <2> QED
    BY <1>1, <1>8, <2>1, Zenon DEF IdInv, Moved
<1>21. IdInv'
  <2>1. \A d \in DOMAIN part', l \in Lists : UniqueIds(part'[d].list[l])
    BY <1>1, <1>15, <1>17, Zenon DEF IdInv
  <2> QED
    BY <1>19, <1>20, <2>1, Zenon DEF IdInv
<1>22. ASSUME NEW d \in DOMAIN part', NEW i \in DOMAIN part'[d].list["images"]
       PROVE  Settled(part'[d].list["images"][i], d, req')
  <2>1. d \in DOMAIN part
    BY <1>15, Zenon
  <2>2. CASE d = e /\ i = k
    BY <1>7, <2>2, Zenon DEF e
  <2>3. CASE d # e \/ i # k
    <3> DEFINE img == part[d].list["images"][i]
    <3>1. i \in DOMAIN part[d].list["images"] /\ part'[d].list["images"][i] = img
      <4>1. CASE d = e
        BY <1>7, <1>22, <2>3, <4>1, Zenon DEF old
      <4>2. CASE d # e
        BY <1>16, <1>22, <2>1, <4>2, Zenon
      <4> QED
        BY <4>1, <4>2, Zenon
    <3>2. Settled(img, d, req)
      BY <1>1, <2>1, <3>1, Zenon DEF ImageInv
    <3>3. d # e \/ img.id # id
      <4>1. CASE d = e
        <5>1. i # k /\ i \in DOMAIN old /\ img = old[i]
          BY <2>3, <3>1, <4>1, Zenon DEF old
        <5>2. UniqueIds(old)
          BY <1>1, <1>3, <1>6, Zenon DEF IdInv, old
        <5>3. old[i].id # old[k].id
          BY <1>5, <5>1, <5>2, Zenon DEF UniqueIds
        <5> HIDE DEF img
        <5> QED
          BY <1>5, <5>1, <5>3, Zenon
      <4> QED
        BY <4>1, Zenon
    <3> HIDE DEF img
    <3>4. ~Amid(req[p], d, img.id) /\ ~Amid(r, d, img.id)
      <4>1. ~Amid(req[p], d, img.id)
        BY <3>3, Zenon DEF Amid, e, id
      <4>2. CASE r = Idle
        BY <4>1, <4>2, IdleLoose, LooseHolds, Zenon
      <4>3. CASE r # Idle
        BY <1>8, <3>3, <4>1, <4>3, Zenon DEF Amid
      <4> QED
        BY <4>2, <4>3, Zenon
    <3>5. \A q \in Procs : req'[q] = req[q] \/ (~Amid(req[q], d, img.id) /\ ~Amid(req'[q], d, img.id))
      BY <1>8, <3>4, Zenon DEF Moved
    <3>6. Settled(img, d, req')
      BY <3>2, <3>5, SettledSame, Zenon
    <3> QED
      BY <3>1, <3>6, Zenon
  <2> QED
    BY <2>2, <2>3, Zenon
<1>23. ImageInv'
  BY <1>22, Zenon DEF ImageInv
<1> QED
  BY <1>15, <1>21, <1>23, Zenon DEF IInv

\* The image that a mount or unmount works on is on the list of its entry.
LEMMA ImageFacts ==
    ASSUME IInv, NEW p \in Procs,
           req[p].at \in {"record", "told", "clear"} \/ (req[p].op = "umount" /\ req[p].at = "emit")
    PROVE  /\ req[p].op \in {"mount", "umount"} /\ req[p].at # "find"
           /\ req[p].at \in {"record", "told"} => req[p].op = "mount"
           /\ req[p].at = "clear" => req[p].op = "umount"
           /\ req[p] \in Requests /\ req[p].mount \in MountPoints \cup {NoMount}
           /\ ImageOf(p) \in Items /\ ImageOf(p).id = req[p].id
           /\ Settled(ImageOf(p), req[p].entry, req)
<1> DEFINE e == req[p].entry
<1>1. TypeOK /\ HoldInv /\ IdInv /\ ImageInv
  BY Zenon DEF IInv
<1>2. req[p] \in Requests /\ req[p].at \in Places(req[p].op)
  BY <1>1, Zenon DEF HoldInv, Sound
<1>3. /\ req[p].at \in {"record", "told"} => req[p].op = "mount"
      /\ req[p].at = "clear" => req[p].op = "umount"
  BY <1>2, AtFacts, Zenon
<1>4. req[p].op \in {"mount", "umount"} /\ req[p].at # "find"
  BY <1>3
<1>5. req[p].op \in Working /\ "images" \in Lists
  BY <1>4, WorkFacts DEF Lists
<1>6. e \in DOMAIN part /\ part[e] \in Entries
  BY <1>1, <1>5, Worker, Zenon
<1>7. HasId(part[e].list["images"], req[p].id)
  BY <1>1, Zenon DEF IdInv, Holds
<1>8. Place(p) \in DOMAIN part[e].list["images"] /\ ImageOf(p).id = req[p].id
  BY <1>7, PlaceOf, Zenon
<1>9. ImageOf(p) \in Items
  BY <1>5, <1>6, <1>8, ItemFacts, Zenon DEF ImageOf
<1>10. Settled(ImageOf(p), e, req)
  BY <1>1, <1>6, <1>8, Zenon DEF ImageInv, ImageOf
<1>11. req[p].mount \in MountPoints \cup {NoMount}
  BY <1>2 DEF Requests
<1> QED
  BY <1>2, <1>3, <1>4, <1>8, <1>9, <1>10, <1>11, Zenon

\* The requests after a write to an image.
LEMMA SetImageRequest ==
    ASSUME TypeOK, NEW p \in Procs, NEW item, NEW at, SetImage(p, item, at)
    PROVE  /\ Moved(p, req'[p])
           /\ at = "idle" => req'[p] = Idle
           /\ at # "idle" => /\ req'[p].at = at /\ req'[p].entry = req[p].entry
                             /\ req'[p].id = req[p].id /\ req'[p].mount = req[p].mount
<1>1. CASE at = "idle"
  <2>1. Moved(p, Idle)
    BY <1>1, DoneFacts, Zenon DEF SetImage
  <2> QED
    BY <1>1, <2>1, Zenon DEF Moved
<1>2. CASE at # "idle"
  <2>1. Goto(p, at)
    BY <1>2, Zenon DEF SetImage
  <2> QED
    BY <1>2, <2>1, GotoFacts, Zenon
<1> QED
  BY <1>1, <1>2, Zenon

\* Between its two effects, p is the only one there if nothing overlaps.
LEMMA AloneAmid ==
    ASSUME NEW p \in Procs, NEW r, Moved(p, r), ~Overlaps(p)
    PROVE  \A q \in Procs : q # p => ~Amid(req'[q], req[p].entry, req[p].id)
BY Zenon DEF Moved, Overlaps, Amid

\* The mount point is recorded first, and told afterwards.
LEMMA RecordMountKeeps ==
    ASSUME IInv, NEW p \in Procs, RecordMount(p)
    PROVE  IInv'
<1> DEFINE old == ImageOf(p)
           mp == req[p].mount
           o == Overlaps(p)
           item == [old EXCEPT !.mount = mp, !.clash = @ \/ o]
           e == req[p].entry
<1>1. TypeOK /\ req[p].at = "record" /\ SetImage(p, item, "told")
  BY Zenon DEF RecordMount, IInv
<1>2. req[p].at \in {"record", "told", "clear"} /\ req[p].at \in {"record", "told"}
      /\ "told" \in {"idle", "told", "clear"} /\ "told" # "idle" /\ "told" \in {"told", "clear"}
  BY <1>1
<1>3. /\ req[p].op \in {"mount", "umount"} /\ req[p].at # "find" /\ req[p].op = "mount"
      /\ mp \in MountPoints \cup {NoMount} /\ old \in Items /\ old.id = req[p].id
  BY <1>2, ImageFacts, Zenon
<1>4. "told" \in Places(req[p].op)
  BY <1>3, PlaceFacts
<1>5. /\ Moved(p, req'[p]) /\ req'[p].at = "told" /\ req'[p].entry = e /\ req'[p].id = req[p].id
      /\ req'[p].mount = mp
  <2> HIDE DEF item, mp, e
  <2>1. SetImage(p, item, "told") /\ "told" # "idle"
    BY <1>1, <1>2, Zenon
  <2>2. /\ Moved(p, req'[p]) /\ req'[p].at = "told" /\ req'[p].entry = req[p].entry
        /\ req'[p].id = req[p].id /\ req'[p].mount = req[p].mount
    BY <1>1, <2>1, SetImageRequest
  <2> QED
    BY <2>2, Zenon DEF e, mp
<1>6. item \in Items /\ item.id = req[p].id /\ item.mount = mp /\ (item.clash <=> (old.clash \/ o))
  <2>1. o \in BOOLEAN
    BY Zenon DEF Overlaps
  <2> HIDE DEF old, mp, o
  <2> QED
    BY <1>3, <2>1, Zenon DEF Items
<1>7. Settled(item, e, req')
  <2>1. CASE o
    BY <1>6, <2>1, Zenon DEF Settled
  <2>2. CASE ~o
    <3>1. \A q \in Procs : q # p => ~Amid(req'[q], e, req[p].id)
      BY <1>5, <2>2, AloneAmid, Zenon
    <3>2. Amid(req'[p], e, req[p].id)
      BY <1>2, <1>5, Zenon DEF Amid
    <3> HIDE DEF item, e, mp
    <3> QED
      BY <1>5, <1>6, <3>1, <3>2, Zenon DEF Settled
  <2> QED
    BY <2>1, <2>2, Zenon
<1> HIDE DEF item
<1> QED
  BY <1>1, <1>2, <1>3, <1>4, <1>6, <1>7, SetImageKeeps, Zenon

\* The event of an unmount.
LEMMA EmitUmountKeeps ==
    ASSUME IInv, NEW p \in Procs, EmitUmount(p)
    PROVE  IInv'
<1> DEFINE old == ImageOf(p)
           o == Overlaps(p)
           item == [old EXCEPT !.told = NoMount, !.clash = @ \/ o]
           e == req[p].entry
<1>1. TypeOK /\ req[p].op = "umount" /\ req[p].at = "emit" /\ SetImage(p, item, "clear")
  BY Zenon DEF EmitUmount, IInv
<1>2. "clear" \in {"idle", "told", "clear"} /\ "clear" # "idle" /\ "clear" \in {"told", "clear"}
      /\ "clear" # "told"
  OBVIOUS
<1>3. /\ req[p].op \in {"mount", "umount"} /\ req[p].at # "find"
      /\ old \in Items /\ old.id = req[p].id
  BY <1>1, ImageFacts, Zenon
<1>4. "clear" \in Places(req[p].op)
  BY <1>1, PlaceFacts
<1>5. /\ Moved(p, req'[p]) /\ req'[p].at = "clear" /\ req'[p].entry = e /\ req'[p].id = req[p].id
  <2> HIDE DEF item
  <2> QED
    BY <1>1, <1>2, SetImageRequest, Zenon
<1>6. item \in Items /\ item.id = req[p].id /\ item.told = NoMount /\ (item.clash <=> (old.clash \/ o))
  <2>1. o \in BOOLEAN
    BY Zenon DEF Overlaps
  <2> HIDE DEF old, o
  <2> QED
    BY <1>3, <2>1, Zenon DEF Items
<1>7. Settled(item, e, req')
  <2>1. CASE o
    BY <1>6, <2>1, Zenon DEF Settled
  <2>2. CASE ~o
    <3>1. \A q \in Procs : q # p => ~Amid(req'[q], e, req[p].id)
      BY <1>5, <2>2, AloneAmid, Zenon
    <3>2. Amid(req'[p], e, req[p].id) /\ req'[p].at # "told"
      BY <1>2, <1>5, Zenon DEF Amid
    <3> HIDE DEF item, e
    <3> QED
      BY <1>6, <3>1, <3>2, Zenon DEF Settled
  <2> QED
    BY <2>1, <2>2, Zenon
<1> HIDE DEF item
<1> QED
  BY <1>1, <1>2, <1>3, <1>4, <1>6, <1>7, SetImageKeeps, Zenon

\* The second effect brings the list and the event together again.
LEMMA SecondEffect ==
    ASSUME IInv, NEW p \in Procs, req[p].at \in {"told", "clear"}, NEW item \in Items,
           SetImage(p, item, "idle"), item.id = ImageOf(p).id, item.clash = ImageOf(p).clash,
           req[p].at = "told" => item.told = req[p].mount /\ item.mount = ImageOf(p).mount,
           req[p].at = "clear" => item.mount = NoMount /\ item.told = ImageOf(p).told
    PROVE  IInv'
<1> DEFINE old == ImageOf(p)
           e == req[p].entry
           id == req[p].id
<1>1. req[p].at \in {"record", "told", "clear"} /\ TypeOK
  BY Zenon DEF IInv
<1>2. /\ req[p].op \in {"mount", "umount"} /\ req[p].at # "find" /\ old.id = id
      /\ Settled(old, e, req)
  BY <1>1, ImageFacts, Zenon
<1>3. Moved(p, req'[p]) /\ req'[p] = Idle
  BY <1>1, SetImageRequest, Zenon
<1>4. Amid(req[p], e, id)
  BY Zenon DEF Amid
<1>5. Settled(item, e, req')
  <2>1. CASE old.clash
    BY <2>1, Zenon DEF Settled
  <2>2. CASE ~old.clash
    <3>1. /\ \A q \in Procs : Amid(req[q], e, id) => q = p
          /\ IF req[p].at = "told" THEN old.mount = req[p].mount ELSE old.told = NoMount
      <4> HIDE DEF old, e, id
      <4> QED
        BY <1>2, <1>4, <2>2, Zenon DEF Settled
    <3>2. item.mount = item.told
      <4>1. CASE req[p].at = "told"
        BY <3>1, <4>1, Zenon
      <4>2. CASE req[p].at = "clear"
        <5>1. req[p].at # "told"
          BY <4>2
        <5> QED
          BY <3>1, <4>2, <5>1, Zenon
      <4> QED
        BY <4>1, <4>2, Zenon
    <3>3. \A q \in Procs : ~Amid(req'[q], e, id)
      <4>1. ~Amid(Idle, e, id)
        BY IdleLoose, LooseHolds, Zenon
      <4> QED
        BY <1>3, <3>1, <4>1, Zenon DEF Moved
    <3>4. item.id = id
      BY <1>2, Zenon
    <3> HIDE DEF e, id
    <3> QED
      BY <3>2, <3>3, <3>4, Zenon DEF Settled
  <2> QED
    BY <2>1, <2>2, Zenon
<1>6. "idle" \in {"idle", "told", "clear"} /\ item.id = id
  BY <1>2, Zenon
<1> QED
  BY <1>2, <1>5, <1>6, SetImageKeeps, Zenon

\* The event of a mount.
LEMMA EmitMountKeeps ==
    ASSUME IInv, NEW p \in Procs, EmitMount(p)
    PROVE  IInv'
<1> DEFINE old == ImageOf(p)
           mp == req[p].mount
           item == [old EXCEPT !.told = mp]
<1>1. req[p].at = "told" /\ SetImage(p, item, "idle")
  BY Zenon DEF EmitMount
<1>2. req[p].at \in {"told", "clear"} /\ req[p].at # "clear" /\ req[p].at \in {"record", "told", "clear"}
  BY <1>1
<1>3. old \in Items /\ mp \in MountPoints \cup {NoMount}
  BY <1>2, ImageFacts, Zenon
<1>4. /\ item \in Items /\ item.id = old.id /\ item.clash = old.clash
      /\ item.told = mp /\ item.mount = old.mount
  <2> HIDE DEF old, mp
  <2> QED
    BY <1>3 DEF Items
<1> HIDE DEF item
<1> QED
  BY <1>1, <1>2, <1>4, SecondEffect, Zenon

\* The end of an unmount.
LEMMA ClearMountKeeps ==
    ASSUME IInv, NEW p \in Procs, ClearMount(p)
    PROVE  IInv'
<1> DEFINE old == ImageOf(p)
           item == [old EXCEPT !.mount = NoMount]
<1>1. req[p].at = "clear" /\ SetImage(p, item, "idle")
  BY Zenon DEF ClearMount
<1>2. req[p].at \in {"told", "clear"} /\ req[p].at # "told" /\ req[p].at \in {"record", "told", "clear"}
  BY <1>1
<1>3. old \in Items
  BY <1>2, ImageFacts, Zenon
<1>4. /\ item \in Items /\ item.id = old.id /\ item.clash = old.clash
      /\ item.mount = NoMount /\ item.told = old.told
  <2> HIDE DEF old
  <2> QED
    BY <1>3 DEF Items
<1> HIDE DEF item
<1> QED
  BY <1>1, <1>2, <1>4, SecondEffect, Zenon

-----------------------------------------------------------------------------
(* The steps that add and remove entries                                   *)

\* The parts of TypeOK and HoldInv about the lists of entries.
ListsOK ==
    /\ registry \in Seq(DOMAIN part) /\ blends \in Seq(DOMAIN part)
    /\ IsInjective(registry) /\ IsInjective(blends)
    /\ Range(registry) \cap Range(blends) = {}
    /\ \A e \in Range(registry) \cup Range(blends) : part[e].live
    /\ Ascending(registry) /\ Ascending(blends)
    /\ \A e \in Range(registry) : part[e].uuid \in Uuids
    /\ \A e \in Range(blends) : part[e].uuid \in BlendPoints

\* The types in the next state, from what is said of its lists and requests.
LEMMA ListTypes ==
    ASSUME ListsOK', part' \in Seq(Entries), Len(part') <= MaxEntries,
           \A e \in DOMAIN part' : IdsBelow(part'[e]), req' = [q \in Procs |-> req'[q]],
           \A q \in Procs : Sound(req'[q], part', registry'), HistoryTypes'
    PROVE  TypeOK' /\ HoldInv'
<1>1. /\ req' \in [Procs -> Requests]
      /\ \A q \in Procs : req'[q].op \notin {"none", "register", "blend"} =>
            req'[q].entry \in DOMAIN part' /\ part'[req'[q].entry].live
  BY SoundTypes, Zenon
<1>2. \A e \in DOMAIN part', l \in Lists :
         \A i \in DOMAIN part'[e].list[l] : part'[e].list[l][i].id < part'[e].next[l]
  BY Zenon DEF IdsBelow
<1>3. TypeOK'
  BY <1>1, <1>2, Zenon DEF TypeOK, ListsOK, HistoryTypes
<1>4. HoldInv'
  BY Zenon DEF HoldInv, ListsOK
<1> QED
  BY <1>3, <1>4

\* The invariant says this of the lists.
LEMMA ListsOKNow ==
    ASSUME TypeOK, HoldInv
    PROVE  ListsOK
BY Zenon DEF TypeOK, HoldInv, ListsOK

\* The entry an object is found by stays the oldest one.
LEMMA KeptFound ==
    ASSUME TypeOK, HoldInv, TypeOK', HoldInv', NEW o, Registered(o),
           Find(o) \in Range(EntriesFor(o)'), part'[Find(o)].uuid = o,
           \A d \in Range(EntriesFor(o)') : part'[d].uuid = o =>
               Here(d, o) \/ (d \in Nat /\ Find(o) <= d)
    PROVE  Registered(o)' /\ Find(o)' = Find(o)
<1> DEFINE e == Find(o)
<1>1. EntriesFor(o) \in Seq(Nat) /\ Ascending(EntriesFor(o))
  BY ListFacts, Zenon
<1>2. \A d : Here(d, o) => d \in Nat /\ e <= d
  BY <1>1, FindFacts, Zenon
<1>3. EntriesFor(o)' \in Seq(Nat) /\ Ascending(EntriesFor(o)')
  <2>1. DOMAIN part' = 1 .. Len(part') /\ Len(part') \in Nat
    <3>1. part' \in Seq(Entries)
      BY Zenon DEF TypeOK
    <3> HIDE DEF Entries
    <3> QED
      BY <3>1
  <2>2. registry' \in Seq(DOMAIN part') /\ blends' \in Seq(DOMAIN part')
        /\ Ascending(registry') /\ Ascending(blends')
    BY Zenon DEF TypeOK, HoldInv
  <2>3. registry' \in Seq(Nat) /\ blends' \in Seq(Nat)
    BY <2>1, <2>2
  <2> QED
    BY <2>2, <2>3, Zenon DEF EntriesFor
<1>4. \A d \in Range(EntriesFor(o)') : part'[d].uuid = o => e <= d
  BY <1>2, Zenon
<1>5. e \in Range(EntriesFor(o)') /\ part'[e].uuid = o
  BY Zenon
<1> HIDE DEF e
<1>6. Registered(o)' /\ Find(o)' = e
  BY <1>3, <1>4, <1>5, FoundNext, Zenon
<1> QED
  BY <1>6, Zenon DEF e

\* The requests and the ids that were told, where the search finds what it
\* found before.
LEMMA FoundFrame ==
    ASSUME TypeOK, HoldInv, FoundInv, raced \subseteq raced', announced' \subseteq announced,
           \A q \in Procs : req'[q].op \in Working => req'[q] = req[q],
           \A o : /\ o \notin raced' /\ Registered(o)
                  /\ (\E q \in Procs : req'[q].op \in Working /\ req'[q].obj = o) \/ (\E a \in announced' : a[1] = o)
                  => Registered(o)' /\ Find(o)' = Find(o),
           \A a \in announced' : a[1] \notin raced' /\ Registered(a[1]) =>
                  part'[Find(a[1])].list = part[Find(a[1])].list
    PROVE  FoundInv'
<1>1. ASSUME NEW q \in Procs, req'[q].op \in Working, req'[q].obj \notin raced'
      PROVE  Registered(req[q].obj)' /\ Find(req[q].obj)' = req'[q].entry
  <2>1. PICK o : o = req'[q].obj
    BY Zenon
  <2>2. req'[q] = req[q] /\ req[q].op \in Working /\ o = req[q].obj /\ o \notin raced
    BY <1>1, <2>1, Zenon
  <2>3. Registered(o) /\ Find(o) = req[q].entry
    BY <2>2, Zenon DEF FoundInv
  <2>4. Registered(o)' /\ Find(o)' = Find(o)
    BY <1>1, <2>1, <2>3, Zenon
  <2> QED
    BY <2>1, <2>2, <2>3, <2>4, Zenon
<1>2. ASSUME NEW a \in announced', a[1] \notin raced'
      PROVE  Registered(a[1])' /\ HasId(part'[Find(a[1])'].list[a[2]], a[3])
  <2>1. Registered(a[1]) /\ HasId(part[Find(a[1])].list[a[2]], a[3])
    BY <1>2, Zenon DEF FoundInv
  <2>2. Registered(a[1])' /\ Find(a[1])' = Find(a[1])
    BY <1>2, <2>1, Zenon
  <2>3. part'[Find(a[1])].list = part[Find(a[1])].list
    BY <1>2, <2>1, Zenon
  <2> QED
    BY <2>1, <2>2, <2>3, Zenon
<1> QED
  BY <1>1, <1>2, Zenon DEF FoundInv

\* An entry without items.
LEMMA EmptyBelow ==
    ASSUME NEW x, \A l \in Lists : x.list[l] = <<>>
    PROVE  IdsBelow(x)
<1>1. \A i \in DOMAIN <<>> : FALSE
  OBVIOUS
<1> QED
  BY <1>1, Zenon DEF IdsBelow

\* A new entry at the end of the list of its kind.
Listed(x, n) ==
    \/ x \in Uuids /\ registry' = Append(registry, n) /\ blends' = blends
    \/ x \in BlendPoints /\ registry' = registry /\ blends' = Append(blends, n)

\* What a new entry at the end of a list does to the lists.
LEMMA GrownLists ==
    ASSUME TypeOK, HoldInv, NEW x \in Objects, NEW kind \in Kinds \cup {"mount"}, NEW n,
           n = Len(part) + 1, part' = Append(part, NewEntry(x, kind)), Listed(x, n)
    PROVE  /\ ListsOK'
           /\ \A o, e : Here(e, o)' <=> Here(e, o) \/ (e = n /\ o = x)
           /\ Range(registry') \subseteq Range(registry) \cup {n}
           /\ \A o : Range(EntriesFor(o)) \subseteq Range(EntriesFor(o)')
<1>1. ListsOK
  BY ListsOKNow, Zenon
<1>2. DOMAIN part = 1 .. Len(part) /\ Len(part) \in Nat
      /\ Range(registry) \subseteq DOMAIN part /\ Range(blends) \subseteq DOMAIN part
  BY ListFacts, Zenon
<1>3. /\ DOMAIN part' = DOMAIN part \cup {n} /\ n \notin DOMAIN part
      /\ \A e \in DOMAIN part : part'[e] = part[e]
      /\ part'[n].uuid = x /\ part'[n].live
  BY NewFacts, Zenon
<1>4. n \in Nat /\ \A e \in DOMAIN part : e \in Nat /\ e < n
  BY <1>2
<1>5. ASSUME NEW s \in Seq(DOMAIN part), IsInjective(s), Ascending(s), Range(s) \subseteq DOMAIN part
      PROVE  /\ s \in Seq(DOMAIN part') /\ Append(s, n) \in Seq(DOMAIN part')
             /\ Range(Append(s, n)) = Range(s) \cup {n}
             /\ IsInjective(Append(s, n)) /\ Ascending(Append(s, n))
  <2>1. s \in Seq(DOMAIN part') /\ n \in DOMAIN part'
    BY <1>3, <1>5
  <2>2. s \in Seq(Nat)
    BY <1>2, <1>5
  <2>3. n \notin Range(s) /\ \A e \in Range(s) : e < n
    BY <1>3, <1>4, <1>5, Zenon
  <2>4. Append(s, n) \in Seq(DOMAIN part') /\ Range(Append(s, n)) = Range(s) \cup {n}
        /\ IsInjective(Append(s, n))
    BY <1>5, <2>1, <2>3, AppendFacts
  <2>5. Ascending(Append(s, n))
    BY <1>4, <1>5, <2>2, <2>3, AppendAscends, Zenon
  <2> QED
    BY <2>1, <2>4, <2>5, Zenon
<1>6. /\ registry \in Seq(DOMAIN part) /\ IsInjective(registry) /\ Ascending(registry)
      /\ blends \in Seq(DOMAIN part) /\ IsInjective(blends) /\ Ascending(blends)
      /\ Range(registry) \cap Range(blends) = {}
      /\ \A e \in Range(registry) : part[e].live /\ part[e].uuid \in Uuids
      /\ \A e \in Range(blends) : part[e].live /\ part[e].uuid \in BlendPoints
  BY <1>1, Zenon DEF ListsOK
<1>7. /\ registry' \in Seq(DOMAIN part') /\ IsInjective(registry') /\ Ascending(registry')
      /\ blends' \in Seq(DOMAIN part') /\ IsInjective(blends') /\ Ascending(blends')
      /\ \/ x \in Uuids /\ Range(registry') = Range(registry) \cup {n} /\ Range(blends') = Range(blends)
         \/ x \in BlendPoints /\ Range(registry') = Range(registry) /\ Range(blends') = Range(blends) \cup {n}
  <2>1. CASE x \in Uuids /\ registry' = Append(registry, n) /\ blends' = blends
    BY <1>2, <1>5, <1>6, <2>1, Zenon
  <2>2. CASE x \in BlendPoints /\ registry' = registry /\ blends' = Append(blends, n)
    BY <1>2, <1>5, <1>6, <2>2, Zenon
  <2> QED
    BY <2>1, <2>2, Zenon DEF Listed
<1>8. n \notin Range(registry) /\ n \notin Range(blends)
  BY <1>2, <1>3, Zenon
<1>9. Range(registry') \cap Range(blends') = {}
  BY <1>6, <1>7, <1>8, Zenon
<1>10. /\ \A e \in Range(registry') : part'[e].live /\ part'[e].uuid \in Uuids
       /\ \A e \in Range(blends') : part'[e].live /\ part'[e].uuid \in BlendPoints
  <2>1. \A e \in Range(registry) : part'[e].live /\ part'[e].uuid \in Uuids
    BY <1>2, <1>3, <1>6, Zenon
  <2>2. \A e \in Range(blends) : part'[e].live /\ part'[e].uuid \in BlendPoints
    BY <1>2, <1>3, <1>6, Zenon
  <2> QED
    BY <1>3, <1>7, <2>1, <2>2, Zenon
<1>11. ListsOK'
  BY <1>7, <1>9, <1>10, Zenon DEF ListsOK
<1>12. ASSUME NEW o, NEW e
       PROVE  /\ e \in Range(EntriesFor(o)') => e \in Range(EntriesFor(o)) \/ e = n
              /\ e \in Range(EntriesFor(o)) => e \in Range(EntriesFor(o)')
  BY <1>7, Zenon DEF EntriesFor
<1>13. ASSUME NEW o PROVE Range(EntriesFor(o)) \subseteq DOMAIN part
  BY <1>2, Zenon DEF EntriesFor
<1>14. n \in Range(EntriesFor(x)')
  <2>1. x \in Uuids => x \notin BlendPoints
    BY Apart, Zenon
  <2> QED
    BY <1>7, <2>1, Zenon DEF EntriesFor
<1>15. ASSUME NEW o, NEW e PROVE Here(e, o)' <=> Here(e, o) \/ (e = n /\ o = x)
  <2>1. Here(e, o)' <=> e \in Range(EntriesFor(o)') /\ part'[e].uuid = o
    BY Zenon DEF Here
  <2>2. Here(e, o) <=> e \in Range(EntriesFor(o)) /\ part[e].uuid = o
    BY Zenon DEF Here
  <2>3. CASE e = n
    BY <1>3, <1>13, <1>14, <2>1, <2>2, <2>3, Zenon
  <2>4. CASE e # n
    <3>1. e \in Range(EntriesFor(o)') <=> e \in Range(EntriesFor(o))
      BY <1>12, <2>4, Zenon
    <3>2. e \in Range(EntriesFor(o)) => part'[e].uuid = part[e].uuid
      BY <1>3, <1>13, Zenon
    <3> QED
      BY <2>1, <2>2, <2>4, <3>1, <3>2, Zenon
  <2> QED
    BY <2>3, <2>4, Zenon
<1> QED
  BY <1>7, <1>11, <1>12, <1>15, Zenon

\* An entry is taken off the list of its kind.
Unlisted(x) ==
    \/ x \in Uuids /\ registry' = Delete(registry, Position(x)) /\ blends' = blends
    \/ x \in BlendPoints /\ registry' = registry /\ blends' = Delete(blends, Position(x))

\* What taking the first match off a list does to the lists.
LEMMA ShrunkLists ==
    ASSUME TypeOK, HoldInv, NEW x \in Objects, Registered(x), NEW f, f = Find(x), Only(f), Unlisted(x)
    PROVE  /\ ListsOK'
           /\ \A o, e : Here(e, o)' <=> Here(e, o) /\ e # f
           /\ \A o : Range(EntriesFor(o)') = Range(EntriesFor(o)) \ {f}
           /\ Range(registry') \subseteq Range(registry) /\ f \notin Range(registry') /\ f \in DOMAIN part
<1>1. ListsOK
  BY ListsOKNow, Zenon
<1>2. DOMAIN part = 1 .. Len(part) /\ Len(part) \in Nat
      /\ Range(registry) \subseteq DOMAIN part /\ Range(blends) \subseteq DOMAIN part
  BY ListFacts, Zenon
<1>3. /\ registry \in Seq(DOMAIN part) /\ IsInjective(registry) /\ Ascending(registry)
      /\ blends \in Seq(DOMAIN part) /\ IsInjective(blends) /\ Ascending(blends)
      /\ Range(registry) \cap Range(blends) = {}
      /\ \A e \in Range(registry) : part[e].live /\ part[e].uuid \in Uuids
      /\ \A e \in Range(blends) : part[e].live /\ part[e].uuid \in BlendPoints
  BY <1>1, Zenon DEF ListsOK
<1>4. /\ Position(x) \in DOMAIN EntriesFor(x) /\ f = EntriesFor(x)[Position(x)]
      /\ f \in Range(EntriesFor(x)) /\ f \in DOMAIN part
  BY Search, Zenon
<1>5. DOMAIN part' = DOMAIN part /\ \A e \in DOMAIN part : e # f => part'[e] = part[e]
  BY Zenon DEF Only
<1>6. ASSUME NEW s \in Seq(DOMAIN part), IsInjective(s), Ascending(s), NEW k \in DOMAIN s
      PROVE  /\ Delete(s, k) \in Seq(DOMAIN part') /\ IsInjective(Delete(s, k))
             /\ Ascending(Delete(s, k)) /\ Range(Delete(s, k)) = Range(s) \ {s[k]}
  <2>1. s \in Seq(Nat)
    BY <1>2, <1>6
  <2> QED
    BY <1>5, <1>6, <2>1, DeleteFacts, Zenon
<1>7. /\ registry' \in Seq(DOMAIN part') /\ IsInjective(registry') /\ Ascending(registry')
      /\ blends' \in Seq(DOMAIN part') /\ IsInjective(blends') /\ Ascending(blends')
      /\ Range(registry') = Range(registry) \ {f} /\ Range(blends') = Range(blends) \ {f}
  <2>1. CASE x \in Uuids /\ registry' = Delete(registry, Position(x)) /\ blends' = blends
    <3>1. EntriesFor(x) = registry
      BY <2>1, Zenon DEF EntriesFor
    <3>2. f \notin Range(blends)
      BY <1>3, <1>4, <3>1, Zenon
    <3>3. Range(blends) = Range(blends) \ {f}
      BY <3>2, Zenon
    <3>4. Position(x) \in DOMAIN registry /\ f = registry[Position(x)]
      BY <1>4, <3>1, Zenon
    <3>5. /\ Delete(registry, Position(x)) \in Seq(DOMAIN part')
          /\ IsInjective(Delete(registry, Position(x))) /\ Ascending(Delete(registry, Position(x)))
          /\ Range(Delete(registry, Position(x))) = Range(registry) \ {f}
      BY <1>3, <1>6, <3>4, Zenon
    <3>6. blends \in Seq(DOMAIN part')
      BY <1>3, <1>5, Zenon
    <3> QED
      BY <1>3, <2>1, <3>3, <3>5, <3>6, Zenon
  <2>2. CASE x \in BlendPoints /\ registry' = registry /\ blends' = Delete(blends, Position(x))
    <3>1. EntriesFor(x) = blends
      BY <2>2, Apart, Zenon DEF EntriesFor
    <3>2. f \notin Range(registry)
      BY <1>3, <1>4, <3>1, Zenon
    <3>3. Range(registry) = Range(registry) \ {f}
      BY <3>2, Zenon
    <3>4. Position(x) \in DOMAIN blends /\ f = blends[Position(x)]
      BY <1>4, <3>1, Zenon
    <3>5. /\ Delete(blends, Position(x)) \in Seq(DOMAIN part')
          /\ IsInjective(Delete(blends, Position(x))) /\ Ascending(Delete(blends, Position(x)))
          /\ Range(Delete(blends, Position(x))) = Range(blends) \ {f}
      BY <1>3, <1>6, <3>4, Zenon
    <3>6. registry \in Seq(DOMAIN part')
      BY <1>3, <1>5, Zenon
    <3> QED
      BY <1>3, <2>2, <3>3, <3>5, <3>6, Zenon
  <2> QED
    BY <2>1, <2>2, Zenon DEF Unlisted
<1>8. Range(registry') \cap Range(blends') = {}
  BY <1>3, <1>7, Zenon
<1>9. /\ \A e \in Range(registry') : part'[e] = part[e] /\ e \in Range(registry)
      /\ \A e \in Range(blends') : part'[e] = part[e] /\ e \in Range(blends)
  BY <1>2, <1>5, <1>7, Zenon
<1>10. ListsOK'
  BY <1>3, <1>7, <1>8, <1>9, Zenon DEF ListsOK
<1>11. \A o : Range(EntriesFor(o)') = Range(EntriesFor(o)) \ {f}
  BY <1>7, Zenon DEF EntriesFor
<1>12. ASSUME NEW o, NEW e PROVE Here(e, o)' <=> Here(e, o) /\ e # f
  <2>1. Here(e, o)' <=> e \in Range(EntriesFor(o)') /\ part'[e].uuid = o
    BY Zenon DEF Here
  <2>2. Here(e, o) <=> e \in Range(EntriesFor(o)) /\ part[e].uuid = o
    BY Zenon DEF Here
  <2>3. e \in Range(EntriesFor(o)) => e \in DOMAIN part
    BY <1>2, Zenon DEF EntriesFor
  <2>4. e \in Range(EntriesFor(o)') <=> e \in Range(EntriesFor(o)) /\ e # f
    BY <1>11, Zenon
  <2>5. e \in DOMAIN part /\ e # f => part'[e] = part[e]
    BY <1>5, Zenon
  <2> QED
    BY <2>1, <2>2, <2>3, <2>4, <2>5, Zenon
<1> QED
  BY <1>4, <1>7, <1>10, <1>11, <1>12, Zenon

\* The listener is told of a new entry that is still there.
LEMMA EmitAddedKeeps ==
    ASSUME IInv, NEW p \in Procs, EmitAdded(p)
    PROVE  IInv'
<1> DEFINE x == req[p].obj
<1>1. /\ TypeOK /\ HoldInv /\ EventInv /\ FoundInv /\ IdInv /\ ImageInv
      /\ req[p].op \in {"register", "blend"} /\ req[p].at = "emit"
      /\ last' = [last EXCEPT ![x] = "added"] /\ Done(p)
      /\ UNCHANGED <<registry, part, blends, announced, twin, raced>>
  BY Zenon DEF IInv, EmitAdded
<1>2. Moved(p, Idle) /\ Idle.op = "none" /\ Idle.at = "idle"
  BY <1>1, DoneFacts, Zenon
<1>3. SameLives /\ SameNames
  BY <1>1, NothingMoves, Zenon DEF SameLives
<1>4. Sound(req[p], part, registry)
  BY <1>1, Zenon DEF HoldInv
<1>5. x \in Objects /\ req[p].op \in Changing /\ req[p].op # "none"
  <2>1. CASE req[p].op = "register"
    BY <1>4, <2>1, Apart, Zenon DEF Sound, Changing
  <2>2. CASE req[p].op = "blend"
    <3>1. x \in BlendPoints /\ req[p].op # "none"
      <4>1. "blend" # "none"
        OBVIOUS
      <4> QED
        BY <1>4, <2>2, <4>1, Zenon DEF Sound
    <3> QED
      BY <2>2, <3>1, Zenon DEF Changing, Objects
  <2> QED
    BY <1>1, <2>1, <2>2, Zenon
<1>6. /\ last' \in [Objects -> {"none", "added", "removed"}] /\ last'[x] = "added"
      /\ \A o \in Objects : o # x => last'[o] = last[o]
  <2>1. last \in [Objects -> {"none", "added", "removed"}]
    BY <1>1, Zenon DEF TypeOK
  <2> HIDE DEF x
  <2> QED
    BY <1>1, <1>5, <2>1
<1>7. HistoryTypes' /\ \A e \in DOMAIN part : IdsBelow(part'[e])
  BY <1>1, <1>6, SameHistory, Zenon DEF HistoryTypes
<1>8. Sound(Idle, part', registry')
  BY IdleSound, Zenon
<1>9. TypeOK' /\ HoldInv'
  BY <1>1, <1>2, <1>3, <1>7, <1>8, LocalTypes, Zenon
<1>10. Idle.op \notin Working /\ Idle.op \notin Changing
  BY <1>2, WorkFacts, Zenon
<1>11. FoundInv'
  <2>1. announced' \subseteq Uuids \X Lists \X Nat
    BY <1>7, Zenon DEF HistoryTypes
  <2> QED
    BY <1>1, <1>2, <1>3, <1>10, <2>1, LocalFound, Zenon
<1>12. IdInv' /\ ImageInv'
  <2>1. "emit" \notin {"told", "clear"}
    OBVIOUS
  <2>2. Holds(Idle, part) /\ Idle.at # "add" /\ \A e, id : ~Amid(req[p], e, id) /\ ~Amid(Idle, e, id)
    BY <1>1, <1>2, <2>1, IdleLoose, LooseHolds, Zenon DEF Amid
  <2> QED
    BY <1>1, <1>2, <2>2, LocalItems, Zenon
<1>13. ASSUME NEW o \in Objects, o \notin twin' \cup raced' PROVE EventOf(o)'
  <2>1. EventOf(o)
    BY <1>1, <1>13, Zenon DEF EventInv
  <2>2. (Registered(o)' <=> Registered(o)) /\ \A e : Here(e, o)' <=> Here(e, o)
    BY <1>1, <1>3, SameFound, Zenon
  <2>3. CASE o # x
    <3>1. \A q \in Procs : \/ req'[q] = req[q]
                           \/ /\ ~(req[q].op \in Changing /\ req[q].obj = o)
                              /\ ~(req'[q].op \in Changing /\ req'[q].obj = o)
      BY <1>2, <1>10, <2>3, Zenon DEF Moved
    <3>2. last'[o] = last[o]
      BY <1>6, <2>3, Zenon
    <3> QED
      BY <1>1, <2>1, <2>2, <3>1, <3>2, EventSame, Zenon
  <2>4. CASE o = x
    <3>1. p \in Under(o, Changing) /\ p \in Under(o, {"register", "blend"})
      BY <1>1, <1>5, <2>4, Zenon DEF Under
    <3>2. Registered(o)
      BY <2>1, <3>1, HereRegistered, Zenon DEF EventOf
    <3>3. \A q \in Procs : ~(req'[q].op \in Changing /\ req'[q].obj = o)
      <4>1. ASSUME NEW q \in Procs, q # p PROVE ~(req[q].op \in Changing /\ req[q].obj = o)
        BY <2>1, <3>1, <4>1, Zenon DEF EventOf, Under
      <4> QED
        BY <1>2, <1>10, <4>1, Zenon DEF Moved
    <3>4. /\ Under(o, Changing)' = {} /\ Under(o, {"register", "blend"})' = {}
          /\ Under(o, {"unregister"})' = {}
      BY <3>3, Zenon DEF Under, Changing
    <3>5. \A d, e \in DOMAIN part' : Here(d, o)' /\ Here(e, o)' => d = e
      BY <1>1, <2>1, <2>2, Zenon DEF EventOf
    <3>6. last'[o] = "added" /\ Registered(o)'
      BY <1>6, <2>2, <2>4, <3>2, Zenon
    <3> QED
      BY <3>4, <3>5, <3>6, Zenon DEF EventOf
  <2> QED
    BY <2>3, <2>4, Zenon
<1>14. EventInv'
  BY <1>13, Zenon DEF EventInv
<1> QED
  BY <1>9, <1>11, <1>12, <1>14, Zenon DEF IInv

\* A new partition or blend mount.
LEMMA GrowKeeps ==
    ASSUME IInv, NEW p \in Procs, NEW x \in Objects, NEW kind \in Kinds \cup {"mount"}, NEW n,
           n = Len(part) + 1, NEW op, (op = "register" /\ x \in Uuids) \/ (op = "blend" /\ x \in BlendPoints),
           req[p] = Idle, Len(part) < MaxEntries,
           part' = Append(part, NewEntry(x, kind)), Listed(x, n),
           req' = [req EXCEPT ![p] = Request(op, "emit", x, n, 0, NoMount)],
           twin' = IF Registered(x) THEN twin \cup {x} ELSE twin,
           raced \subseteq raced', raced' \subseteq raced \cup {x},
           Under(x, {"unregister"}) # {} => x \in raced',
           UNCHANGED <<last, announced>>
    PROVE  IInv'
<1> DEFINE r == Request(op, "emit", x, n, 0, NoMount)
<1>1. TypeOK /\ HoldInv /\ EventInv /\ FoundInv /\ IdInv /\ ImageInv
  BY Zenon DEF IInv
<1>2. /\ part' \in Seq(Entries) /\ Len(part') = n
      /\ DOMAIN part' = DOMAIN part \cup {n} /\ n \notin DOMAIN part
      /\ \A e \in DOMAIN part : part'[e] = part[e]
      /\ part'[n].uuid = x /\ part'[n].live
      /\ \A l \in Lists : part'[n].list[l] = <<>>
  BY <1>1, NewFacts, Zenon
<1>3. /\ ListsOK' /\ \A o, e : Here(e, o)' <=> Here(e, o) \/ (e = n /\ o = x)
      /\ Range(registry') \subseteq Range(registry) \cup {n}
      /\ \A o : Range(EntriesFor(o)) \subseteq Range(EntriesFor(o)')
  BY <1>1, GrownLists
<1>4. n \in Nat /\ n <= MaxEntries /\ \A e \in DOMAIN part : e \in Nat /\ e <= n
  BY <1>1, ListFacts, RegistryAssumption
<1>5. /\ r.op = op /\ r.at = "emit" /\ r.obj = x /\ r.entry = n
  BY DEF Request
<1>6. r \in Requests
  BY <1>4 DEF Request, Requests
<1> HIDE DEF r
<1>7. Moved(p, r)
  BY <1>1, MovedFacts, Zenon DEF r
<1>8. Idle.op = "none" /\ Idle.at = "idle"
  BY DEF Idle, Request
<1>9. op # "none" /\ op # "unregister" /\ op \notin Working /\ op \in {"none", "register", "blend"}
      /\ "emit" \in Places(op) /\ op \in Changing /\ op # "umount"
      /\ (op \in Working \cup {"register", "unregister"} => x \in Uuids)
      /\ (op = "blend" => x \in BlendPoints)
  BY PlaceFacts DEF Working, Changing
<1>10. Sound(r, part', registry')
  BY <1>2, <1>5, <1>6, <1>9, Zenon DEF Sound
<1>11. ASSUME NEW q \in Procs PROVE Sound(req'[q], part', registry')
  <2>1. CASE q = p
    BY <1>7, <1>10, <2>1, Zenon DEF Moved
  <2>2. CASE q # p
    <3>1. Sound(req[q], part, registry) /\ req'[q] = req[q]
      BY <1>1, <1>7, <2>2, Zenon DEF HoldInv, Moved
    <3>2. req[q].op # "none" => req[q].entry \in DOMAIN part
      BY <3>1, Zenon DEF Sound
    <3>3. req[q].op # "none" => req[q].entry \in DOMAIN part' /\ part'[req[q].entry] = part[req[q].entry]
      BY <1>2, <3>2, Zenon
    <3>4. req[q].op \notin {"none", "register", "blend"} => part'[req[q].entry].live
      BY <3>1, <3>3, Zenon DEF Sound
    <3>5. req[q].op = "unregister" => req[q].entry \notin Range(registry')
      <4>1. req[q].op = "unregister" => req[q].op # "none"
        OBVIOUS
      <4> QED
        BY <1>2, <1>3, <3>1, <3>2, <4>1, Zenon DEF Sound
    <3> QED
      BY <3>1, <3>3, <3>4, <3>5, StillSound, Zenon
  <2> QED
    BY <2>1, <2>2, Zenon
<1>12. HistoryTypes'
  BY <1>1, SameHistory, Zenon DEF HistoryTypes
<1>13. \A e \in DOMAIN part' : IdsBelow(part'[e])
  BY <1>1, <1>2, SameHistory, EmptyBelow, Zenon
<1>14. TypeOK' /\ HoldInv'
  BY <1>2, <1>3, <1>4, <1>7, <1>11, <1>12, <1>13, ListTypes, Zenon DEF Moved
<1>15. ASSUME NEW o, Registered(o) PROVE Registered(o)' /\ Find(o)' = Find(o)
  <2> DEFINE e == Find(o)
  <2>1. e \in Range(EntriesFor(o)) /\ part[e].uuid = o /\ e \in DOMAIN part
    BY <1>1, <1>15, Search, Zenon
  <2>2. e \in Range(EntriesFor(o)') /\ part'[e].uuid = o
    BY <1>2, <1>3, <2>1, Zenon
  <2>3. e <= n
    BY <1>4, <2>1, Zenon
  <2>4. \A d \in Range(EntriesFor(o)') : part'[d].uuid = o => Here(d, o) \/ (d \in Nat /\ e <= d)
    <3>1. \A d : d \in Range(EntriesFor(o)') /\ part'[d].uuid = o => Here(d, o) \/ d = n
      BY <1>3, Zenon DEF Here
    <3> QED
      BY <1>4, <2>3, <3>1, Zenon
  <2> QED
    BY <1>1, <1>14, <1>15, <2>2, <2>4, KeptFound, Zenon
<1>16. FoundInv'
  <2>1. \A q \in Procs : req'[q].op \in Working => req'[q] = req[q]
    BY <1>5, <1>7, <1>9, Zenon DEF Moved
  <2>2. \A a \in announced' : a[1] \notin raced' /\ Registered(a[1]) =>
            part'[Find(a[1])].list = part[Find(a[1])].list
    BY <1>1, <1>2, Search, Zenon
  <2> QED
    BY <1>1, <1>15, <2>1, <2>2, FoundFrame, Zenon
<1>17. /\ \A q \in Procs : req'[q] = req[q] \/ req'[q].at # "add"
       /\ \A q \in Procs : \A d, id : req'[q] = req[q] \/ (~Amid(req[q], d, id) /\ ~Amid(req'[q], d, id))
  <2>1. "emit" \notin {"told", "clear"} /\ "emit" # "add"
    OBVIOUS
  <2>2. \A d, id : ~Amid(req[p], d, id)
    BY IdleLoose, LooseHolds, Zenon
  <2> QED
    BY <1>5, <1>7, <2>1, <2>2, Zenon DEF Moved, Amid
<1>18. ASSUME NEW q \in Procs PROVE Holds(req'[q], part')
  <2>1. CASE q = p
    <3>1. "emit" \notin {"add", "reply", "record", "told", "clear"}
      OBVIOUS
    <3>2. Loose(r)
      BY <1>5, <1>9, <3>1, Zenon DEF Loose
    <3> QED
      BY <1>7, <2>1, <3>2, LooseHolds, Zenon DEF Moved
  <2>2. CASE q # p
    <3>1. req'[q] = req[q] /\ Holds(req[q], part) /\ Sound(req[q], part, registry)
      BY <1>1, <1>7, <2>2, Zenon DEF Moved, IdInv, HoldInv
    <3>2. CASE req[q].op = "none"
      <4>1. req[q] = Idle
        BY <3>1, <3>2, Zenon DEF Sound
      <4> QED
        BY <3>1, <4>1, IdleLoose, LooseHolds, Zenon
    <3>3. CASE req[q].op # "none"
      <4>1. part'[req[q].entry] = part[req[q].entry]
        BY <1>2, <3>1, <3>3, Zenon DEF Sound
      <4> QED
        BY <3>1, <4>1, HoldsSame, Zenon
    <3> QED
      BY <3>2, <3>3, Zenon
  <2> QED
    BY <2>1, <2>2, Zenon
<1>19. \A d \in DOMAIN part', l \in Lists :
          part'[d].list[l] = <<>> \/ (d \in DOMAIN part /\ part'[d].list[l] = part[d].list[l])
  BY <1>2, Zenon
<1>20. IdInv'
  BY <1>1, <1>17, <1>18, <1>19, IdFrame, Zenon
<1>21. ImageInv'
  <2>1. "images" \in Lists
    BY DEF Lists
  <2> QED
    BY <1>1, <1>17, <1>19, <2>1, ImageFrame, Zenon
<1>22. ASSUME NEW o \in Objects, o \notin twin' \cup raced' PROVE EventOf(o)'
  <2>1. EventOf(o)
    <3>1. o \notin twin \cup raced
      BY <1>22, Zenon
    <3> QED
      BY <1>1, <3>1, Zenon DEF EventInv
  <2>2. CASE o # x
    <3>1. \A e : Here(e, o)' <=> Here(e, o)
      BY <1>3, <2>2, Zenon
    <3>2. \A q \in Procs : \/ req'[q] = req[q]
                           \/ /\ ~(req[q].op \in Changing /\ req[q].obj = o)
                              /\ ~(req'[q].op \in Changing /\ req'[q].obj = o)
      BY <1>5, <1>7, <1>8, <2>2, WorkFacts, Zenon DEF Moved
    <3> QED
      BY <1>1, <2>1, <3>1, <3>2, EventSame, Zenon
  <2>3. CASE o = x
    <3>1. ~Registered(o) /\ Under(o, {"unregister"}) = {}
      BY <1>22, <2>3, Zenon
    <3>2. \A e : ~Here(e, o)
      BY <3>1, HereRegistered, Zenon
    <3>3. \A e : Here(e, o)' <=> e = n
      <4>1. \A e : Here(e, o)' <=> Here(e, o) \/ (e = n /\ o = x)
        BY <1>3, Zenon
      <4> QED
        BY <2>3, <3>2, <4>1, Zenon
    <3>4. ASSUME NEW q \in Procs, req[q].op \in Changing, req[q].obj = o PROVE FALSE
      <4>1. req[q].op \in {"register", "blend"} \/ req[q].op \in {"unregister"}
        BY <3>4, Zenon DEF Changing
      <4>2. CASE req[q].op \in {"register", "blend"}
        BY <2>1, <3>2, <3>4, <4>2, Zenon DEF EventOf, Under
      <4>3. CASE req[q].op \in {"unregister"}
        BY <3>1, <3>4, <4>3, Zenon DEF Under
      <4> QED
        BY <4>1, <4>2, <4>3, Zenon
    <3>5. \A q \in Procs : req'[q].op \in Changing /\ req'[q].obj = o => q = p
      BY <1>7, <3>4, Zenon DEF Moved
    <3>6. p \in Under(o, Changing)' /\ \A q \in Under(o, Changing)' : q = p
      BY <1>5, <1>7, <1>9, <2>3, <3>5, Zenon DEF Under, Moved
    <3>7. \A q \in Under(o, {"register", "blend"})' : q = p
      BY <3>6, Zenon DEF Under, Changing
    <3>8. Under(o, {"unregister"})' = {}
      <4>1. ASSUME NEW q \in Under(o, {"unregister"})' PROVE FALSE
        <5>1. q \in Under(o, Changing)' /\ req'[q].op = "unregister"
          BY <4>1, Zenon DEF Under, Changing
        <5> QED
          BY <1>5, <1>7, <1>9, <3>6, <5>1, Zenon DEF Moved
      <4> QED
        BY <4>1, Zenon
    <3>9. \A q \in Under(o, {"register", "blend"})' : Here(req[q].entry, o)'
      <4>1. \A e : e \in Range(EntriesFor(o)') /\ part'[e].uuid = o <=> e = n
        BY <3>3, Zenon DEF Here
      <4>2. req'[p].entry = n
        BY <1>5, <1>7, Zenon DEF Moved
      <4>3. ASSUME NEW q \in Under(o, {"register", "blend"})' PROVE Here(req[q].entry, o)'
        <5>1. req'[q].entry = n
          BY <3>7, <4>2, <4>3, Zenon
        <5>2. req'[q].entry \in Range(EntriesFor(o)') /\ part'[req'[q].entry].uuid = o
          BY <4>1, <5>1, Zenon
        <5> QED
          BY <5>2, Zenon DEF Here
      <4> QED
        BY <4>3, Zenon
    <3>10. \A d, e \in DOMAIN part' : Here(d, o)' /\ Here(e, o)' => d = e
      <4>1. ASSUME NEW d, NEW e, Here(d, o)', Here(e, o)' PROVE d = e
        <5>1. d = n /\ e = n
          BY <3>3, <4>1
        <5> QED
          BY <5>1
      <4> QED
        BY <4>1, Zenon
    <3>11. Under(o, Changing)' # {} /\ \A k, q \in Under(o, Changing)' : k = q
      BY <3>6, Zenon
    <3> QED
      BY <3>8, <3>9, <3>10, <3>11, Zenon DEF EventOf
  <2> QED
    BY <2>2, <2>3, Zenon
<1>23. EventInv'
  BY <1>22, Zenon DEF EventInv
<1> QED
  BY <1>14, <1>16, <1>20, <1>21, <1>23, Zenon DEF IInv

\* A registration, up to its unlock.
LEMMA RegisterKeeps ==
    ASSUME IInv, NEW p \in Procs, NEW u \in Uuids, NEW kind \in Kinds, Register(p, u, kind)
    PROVE  IInv'
<1> DEFINE n == Len(part) + 1
<1>1. /\ req[p] = Idle /\ Len(part) < MaxEntries /\ part' = Append(part, NewEntry(u, kind))
      /\ registry' = Append(registry, n)
      /\ req' = [req EXCEPT ![p] = Request("register", "emit", u, n, 0, NoMount)]
      /\ twin' = IF Registered(u) THEN twin \cup {u} ELSE twin
      /\ raced' = IF Under(u, {"unregister"}) # {} THEN raced \cup {u} ELSE raced
      /\ UNCHANGED <<blends, last, announced>>
  BY Zenon DEF Register, AddEntry
<1>2. u \in Objects /\ kind \in Kinds \cup {"mount"}
  BY Apart, Zenon
<1>3. PICK k : k = n
  BY Zenon
<1>4. Listed(u, k)
  BY <1>1, <1>3, Zenon DEF Listed
<1>5. /\ raced \subseteq raced' /\ raced' \subseteq raced \cup {u}
      /\ Under(u, {"unregister"}) # {} => u \in raced'
  BY <1>1, Zenon
<1>6. req' = [req EXCEPT ![p] = Request("register", "emit", u, k, 0, NoMount)]
  BY <1>1, <1>3, Zenon
<1>7. \E op : op = "register"
  BY Zenon
<1> QED
  BY <1>1, <1>2, <1>3, <1>4, <1>5, <1>6, <1>7, GrowKeeps, Zenon

\* A blend mount, up to its unlock.
LEMMA BlendMountKeeps ==
    ASSUME IInv, NEW p \in Procs, NEW b \in BlendPoints, BlendMount(p, b)
    PROVE  IInv'
<1> DEFINE n == Len(part) + 1
<1>1. /\ req[p] = Idle /\ Len(part) < MaxEntries /\ part' = Append(part, NewEntry(b, "mount"))
      /\ blends' = Append(blends, n)
      /\ req' = [req EXCEPT ![p] = Request("blend", "emit", b, n, 0, NoMount)]
      /\ twin' = IF Registered(b) THEN twin \cup {b} ELSE twin
      /\ UNCHANGED <<registry, last, announced, raced>>
  BY Zenon DEF BlendMount
<1>2. b \in Objects /\ "mount" \in Kinds \cup {"mount"}
  BY Zenon DEF Objects
<1>3. PICK k : k = n
  BY Zenon
<1>4. Listed(b, k)
  BY <1>1, <1>3, Zenon DEF Listed
<1>5. Under(b, {"unregister"}) = {}
  <2>1. ASSUME NEW q \in Procs, req[q].op = "unregister", req[q].obj = b PROVE FALSE
    <3>1. req[q].op \in Working \cup {"register", "unregister"} /\ Sound(req[q], part, registry)
      BY <2>1, Zenon DEF IInv, HoldInv
    <3> QED
      BY <2>1, <3>1, Apart, Zenon DEF Sound
  <2> QED
    BY <2>1, Zenon DEF Under
<1>6. /\ raced \subseteq raced' /\ raced' \subseteq raced \cup {b}
      /\ Under(b, {"unregister"}) # {} => b \in raced'
  BY <1>1, <1>5, Zenon
<1>7. req' = [req EXCEPT ![p] = Request("blend", "emit", b, k, 0, NoMount)]
  BY <1>1, <1>3, Zenon
<1> QED
  BY <1>1, <1>2, <1>3, <1>4, <1>6, <1>7, GrowKeeps, Zenon

\* A partition is taken off the list: no search finds it any more.
LEMMA UnregisterKeeps ==
    ASSUME IInv, NEW p \in Procs, NEW u \in Uuids, Unregister(p, u)
    PROVE  IInv'
<1>1. /\ TypeOK /\ HoldInv /\ EventInv /\ FoundInv /\ IdInv /\ ImageInv
      /\ req[p] = Idle /\ Registered(u) /\ registry' = Delete(registry, Position(u))
      /\ announced' = {a \in announced : a[1] # u}
      /\ req' = [req EXCEPT ![p] = Request("unregister", "destroy", u, Find(u), 0, NoMount)]
      /\ raced' = IF Holders(Find(u)) # {} THEN raced \cup {u} ELSE raced
      /\ UNCHANGED <<part, blends, last, twin>>
  BY Zenon DEF IInv, Unregister, RemoveEntry
<1>2. PICK f : f = Find(u)
  BY Zenon
<1> DEFINE r == Request("unregister", "destroy", u, f, 0, NoMount)
<1>3. u \in Objects
  BY Apart, Zenon
<1>4. /\ f \in DOMAIN part /\ part[f].uuid = u /\ part[f].live /\ Here(f, u)
  BY <1>1, <1>2, Search, Zenon
<1>5. Only(f)
  BY <1>1, Zenon DEF Only, TypeOK
<1>6. Unlisted(u)
  BY <1>1, Zenon DEF Unlisted
<1>7. /\ ListsOK' /\ \A o, e : Here(e, o)' <=> Here(e, o) /\ e # f
      /\ \A o : Range(EntriesFor(o)') = Range(EntriesFor(o)) \ {f}
      /\ Range(registry') \subseteq Range(registry) /\ f \notin Range(registry')
  BY <1>1, <1>2, <1>3, <1>5, <1>6, ShrunkLists
<1>8. /\ r.op = "unregister" /\ r.at = "destroy" /\ r.obj = u /\ r.entry = f
  BY DEF Request
<1>9. r \in Requests
  <2>1. f \in Nat
    <3>1. f \in 1 .. Len(part) /\ Len(part) \in Nat
      BY <1>1, <1>4, ListFacts, Zenon
    <3> QED
      BY <3>1
  <2> QED
    BY <1>3, <2>1 DEF Request, Requests
<1>10. req' = [req EXCEPT ![p] = r]
  BY <1>1, <1>2, Zenon
<1> HIDE DEF r
<1>11. Moved(p, r)
  BY <1>1, <1>10, MovedFacts, Zenon
<1>12. Idle.op = "none" /\ Idle.at = "idle" /\ "none" \notin Working /\ "none" \notin Changing
  BY WorkFacts DEF Idle, Request
<1>13. /\ "unregister" # "none" /\ "unregister" # "blend" /\ "unregister" \notin Working
       /\ "unregister" \in Changing /\ "destroy" \in Places("unregister")
  BY PlaceFacts DEF Working, Changing
<1>14. Sound(r, part', registry')
  BY <1>1, <1>4, <1>7, <1>8, <1>9, <1>13, Zenon DEF Sound
<1>15. ASSUME NEW q \in Procs PROVE Sound(req'[q], part', registry')
  <2>1. CASE q = p
    BY <1>11, <1>14, <2>1, Zenon DEF Moved
  <2>2. CASE q # p
    <3>1. Sound(req[q], part, registry) /\ req'[q] = req[q] /\ part' = part
      BY <1>1, <1>11, <2>2, Zenon DEF HoldInv, Moved
    <3> QED
      BY <1>7, <3>1, StillSound, Zenon DEF Sound
  <2> QED
    BY <2>1, <2>2, Zenon
<1>16. HistoryTypes'
  <2>1. raced' \subseteq Objects
    BY <1>1, <1>3, SameHistory, Zenon DEF HistoryTypes
  <2>2. announced' \subseteq announced
    BY <1>1, Zenon
  <2> QED
    BY <1>1, <2>1, <2>2, SameHistory, Zenon DEF HistoryTypes
<1>17. TypeOK' /\ HoldInv'
  <2>1. part' \in Seq(Entries) /\ Len(part') <= MaxEntries /\ \A e \in DOMAIN part' : IdsBelow(part'[e])
    BY <1>1, SameHistory, Zenon DEF TypeOK
  <2> QED
    BY <1>7, <1>11, <1>15, <1>16, <2>1, ListTypes, Zenon DEF Moved
<1>18. ASSUME NEW o, o # u, Registered(o) PROVE Registered(o)' /\ Find(o)' = Find(o)
  <2> DEFINE e == Find(o)
  <2>1. e \in Range(EntriesFor(o)) /\ part[e].uuid = o
    BY <1>1, <1>18, Search, Zenon
  <2>2. e # f
    BY <1>4, <1>18, <2>1, Zenon
  <2>3. e \in Range(EntriesFor(o)') /\ part'[e].uuid = o
    BY <1>1, <1>7, <2>1, <2>2, Zenon
  <2>4. \A d \in Range(EntriesFor(o)') : part'[d].uuid = o => Here(d, o)
    BY <1>1, <1>7, Zenon DEF Here
  <2> QED
    BY <1>1, <1>17, <1>18, <2>3, <2>4, KeptFound, Zenon
<1>19. raced \subseteq raced' /\ (u \notin raced' => Holders(f) = {})
  BY <1>1, <1>2, Zenon
<1>20. FoundInv'
  <2>1. \A q \in Procs : req'[q].op \in Working => req'[q] = req[q]
    BY <1>8, <1>11, <1>13, Zenon DEF Moved
  <2>2. ASSUME NEW q \in Procs, req'[q].op \in Working, req'[q].obj = u, u \notin raced' PROVE FALSE
    <3>1. req[q].op \in Working /\ req[q].obj = u /\ u \notin raced
      BY <1>19, <2>1, <2>2, Zenon
    <3>2. req[q].entry = f
      BY <1>1, <1>2, <3>1, Zenon DEF FoundInv
    <3>3. q \in Holders(f)
      BY <1>12, <3>1, <3>2, Zenon DEF Holders
    <3> QED
      BY <1>19, <2>2, <3>3, Zenon
  <2>3. announced' \subseteq announced /\ \A a \in announced' : a[1] # u
    BY <1>1, Zenon
  <2>4. \A o : /\ o \notin raced' /\ Registered(o)
               /\ (\E q \in Procs : req'[q].op \in Working /\ req'[q].obj = o) \/ (\E a \in announced' : a[1] = o)
               => Registered(o)' /\ Find(o)' = Find(o)
    BY <1>18, <2>2, <2>3, Zenon
  <2> QED
    BY <1>1, <1>19, <2>1, <2>3, <2>4, FoundFrame, Zenon
<1>21. IdInv' /\ ImageInv'
  <2>1. "destroy" \notin {"add", "reply", "record", "told", "clear"} /\ "unregister" # "umount"
    OBVIOUS
  <2>2. Loose(r)
    BY <1>8, <2>1, Zenon DEF Loose
  <2>3. Holds(r, part) /\ \A e, id : ~Amid(req[p], e, id) /\ ~Amid(r, e, id)
    BY <1>1, <2>2, IdleLoose, LooseHolds, Zenon
  <2>4. r.at # "add"
    BY <1>8
  <2> QED
    BY <1>1, <1>11, <2>3, <2>4, LocalItems, Zenon
<1>22. ASSUME NEW o \in Objects, o \notin twin' \cup raced' PROVE EventOf(o)'
  <2>1. EventOf(o)
    <3>1. o \notin twin \cup raced
      BY <1>1, <1>19, <1>22, Zenon
    <3> QED
      BY <1>1, <3>1, Zenon DEF EventInv
  <2>2. CASE o # u
    <3>1. \A e : Here(e, o)' <=> Here(e, o)
      <4>1. ~Here(f, o)
        BY <1>4, <2>2, Zenon DEF Here
      <4> QED
        BY <1>7, <4>1, Zenon
    <3>2. \A q \in Procs : \/ req'[q] = req[q]
                           \/ /\ ~(req[q].op \in Changing /\ req[q].obj = o)
                              /\ ~(req'[q].op \in Changing /\ req'[q].obj = o)
      BY <1>1, <1>8, <1>11, <1>12, <2>2, Zenon DEF Moved
    <3>3. last'[o] = last[o]
      BY <1>1, Zenon
    <3> QED
      BY <1>1, <2>1, <3>1, <3>2, <3>3, EventSame, Zenon
  <2>3. CASE o = u
    <3>1. Holders(f) = {}
      BY <1>19, <1>22, <2>3, Zenon
    <3>2. ASSUME NEW e PROVE ~Here(e, o)'
      <4>1. ASSUME Here(e, o), e # f PROVE FALSE
        <5>1. e \in DOMAIN part
          BY <1>1, <4>1, ListFacts, Zenon DEF Here, EntriesFor
        <5> QED
          BY <1>4, <2>1, <2>3, <4>1, <5>1, Zenon DEF EventOf
      <4> QED
        BY <1>7, <4>1, Zenon
    <3>3. ASSUME NEW q \in Procs, req[q].op \in Changing, req[q].obj = o PROVE FALSE
      <4>1. req[q].op \in {"register", "blend"} \/ req[q].op \in {"unregister"}
        BY <3>3, Zenon DEF Changing
      <4>2. CASE req[q].op \in {"register", "blend"}
        <5>1. Here(req[q].entry, o)
          BY <2>1, <3>3, <4>2, Zenon DEF EventOf, Under
        <5>2. req[q].entry \in DOMAIN part
          BY <1>1, <5>1, ListFacts, Zenon DEF Here, EntriesFor
        <5>3. req[q].entry = f
          BY <1>4, <2>1, <2>3, <5>1, <5>2, Zenon DEF EventOf
        <5>4. q \in Holders(f)
          BY <1>12, <3>3, <5>3, Zenon DEF Holders
        <5> QED
          BY <3>1, <5>4, Zenon
      <4>3. CASE req[q].op \in {"unregister"}
        BY <1>1, <2>1, <2>3, <3>3, <4>3, Zenon DEF Under, EventOf
      <4> QED
        BY <4>1, <4>2, <4>3, Zenon
    <3>4. \A q \in Procs : req'[q].op \in Changing /\ req'[q].obj = o => q = p
      BY <1>11, <3>3, Zenon DEF Moved
    <3>5. p \in Under(o, Changing)' /\ \A q \in Under(o, Changing)' : q = p
      BY <1>8, <1>11, <1>13, <2>3, <3>4, Zenon DEF Under, Moved
    <3>6. Under(o, {"register", "blend"})' = {}
      <4>1. ASSUME NEW q \in Under(o, {"register", "blend"})' PROVE FALSE
        <5>1. q \in Under(o, Changing)' /\ req'[q].op \in {"register", "blend"}
          BY <4>1, Zenon DEF Under, Changing
        <5>2. req'[q].op = "unregister"
          BY <1>8, <1>11, <3>5, <5>1, Zenon DEF Moved
        <5> QED
          BY <5>1, <5>2
      <4> QED
        BY <4>1, Zenon
    <3>7. ~Registered(o)'
      BY <3>2, Zenon DEF Registered, Matching, Here, Range
    <3>8. Under(o, Changing)' # {} /\ \A k, q \in Under(o, Changing)' : k = q
      BY <3>5, Zenon
    <3>9. \A d, e \in DOMAIN part' : Here(d, o)' /\ Here(e, o)' => d = e
      BY <3>2, Zenon
    <3> QED
      BY <3>6, <3>7, <3>8, <3>9, Zenon DEF EventOf
  <2> QED
    BY <2>2, <2>3, Zenon
<1>23. EventInv'
  BY <1>22, Zenon DEF EventInv
<1> QED
  BY <1>17, <1>20, <1>21, <1>23, Zenon DEF IInv

\* The entry is freed, and the requests that hold it go with it.
LEMMA EmitRemovedKeeps ==
    ASSUME IInv, NEW p \in Procs, EmitRemoved(p)
    PROVE  IInv'
<1>1. /\ TypeOK /\ HoldInv /\ EventInv /\ FoundInv /\ IdInv /\ ImageInv
      /\ req[p].op = "unregister" /\ UNCHANGED <<registry, blends, announced, twin, raced>>
  BY Zenon DEF IInv, EmitRemoved, Destroy
<1>2. PICK f : f = req[p].entry
  BY Zenon
<1>3. PICK x : x = req[p].obj
  BY Zenon
<1>4. /\ part' = [part EXCEPT ![f] = Freed(@)]
      /\ req' = [q \in Procs |-> IF q \in Holders(f) /\ (q = p \/ req[q].op # "register")
                                 THEN Idle ELSE req[q]]
      /\ last' = [last EXCEPT ![x] = "removed"]
  BY <1>2, <1>3, Zenon DEF EmitRemoved, Destroy
<1>5. /\ req[p].op # "none" /\ req[p].op \notin {"none", "register", "blend"}
      /\ req[p].op \in Working \cup {"register", "unregister"}
      /\ req[p].op \in Changing /\ req[p].op \in {"unregister"}
  BY <1>1 DEF Changing
<1>6. /\ f \in DOMAIN part /\ part[f].uuid = x /\ x \in Uuids /\ f \notin Range(registry)
  BY <1>1, <1>2, <1>3, <1>5, Zenon DEF HoldInv, Sound
<1>7. x \in Objects /\ x \notin BlendPoints
  BY <1>6, Apart, Zenon
<1>8. f \notin Range(blends)
  BY <1>1, <1>6, <1>7, Zenon DEF HoldInv
<1>9. Only(f) /\ \A l \in Lists : part'[f].list[l] = <<>>
  BY <1>1, <1>4, <1>6, FreedFacts, Zenon
<1>10. SameNames /\ part' \in Seq(Entries) /\ Len(part') = Len(part) /\ DOMAIN part' = DOMAIN part
       /\ \A d \in DOMAIN part : d # f => part'[d] = part[d]
  BY <1>1, <1>6, <1>9, Zenon DEF Only, SameNames
<1>11. ASSUME NEW q \in Procs
       PROVE  \/ req'[q] = Idle /\ q \in Holders(f)
              \/ /\ req'[q] = req[q] /\ q # p
                 /\ req[q].op \notin {"none", "register"} => req[q].entry # f
  <2>1. p \in Holders(f)
    BY <1>2, <1>5, Zenon DEF Holders
  <2>2. CASE q \in Holders(f) /\ (q = p \/ req[q].op # "register")
    BY <1>4, <2>2, Zenon
  <2>3. CASE ~(q \in Holders(f) /\ (q = p \/ req[q].op # "register"))
    BY <1>4, <2>1, <2>3, Zenon DEF Holders
  <2> QED
    BY <2>2, <2>3, Zenon
<1>12. req' = [q \in Procs |-> req'[q]]
  BY <1>4, Zenon
<1>13. Idle.op = "none" /\ Idle.at = "idle" /\ "none" \notin Working /\ "none" \notin Changing
  BY WorkFacts DEF Idle, Request
<1>14. ASSUME NEW q \in Procs PROVE Sound(req'[q], part', registry')
  <2>1. CASE req'[q] = Idle
    BY <2>1, IdleSound, Zenon
  <2>2. CASE req'[q] = req[q] /\ (req[q].op \notin {"none", "register"} => req[q].entry # f)
    <3>1. Sound(req[q], part, registry)
      BY <1>1, Zenon DEF HoldInv
    <3>2. req[q].op # "none" => req[q].entry \in DOMAIN part
      BY <3>1, Zenon DEF Sound
    <3>3. req[q].op # "none" => req[q].entry \in DOMAIN part' /\ part'[req[q].entry].uuid = part[req[q].entry].uuid
      BY <1>10, <3>2, Zenon DEF SameNames
    <3>4. req[q].op \notin {"none", "register", "blend"} => part'[req[q].entry].live
      <4> SUFFICES ASSUME req[q].op \notin {"none", "register", "blend"} PROVE part'[req[q].entry].live
        BY Zenon
      <4>1. req[q].entry \in DOMAIN part /\ req[q].entry # f /\ part[req[q].entry].live
        BY <2>2, <3>1, <3>2, Zenon DEF Sound
      <4> QED
        BY <1>10, <4>1, Zenon
    <3>5. req[q].op = "unregister" => req[q].entry \notin Range(registry')
      BY <1>1, <3>1, Zenon DEF Sound
    <3> QED
      BY <2>2, <3>1, <3>3, <3>4, <3>5, StillSound, Zenon
  <2> QED
    BY <1>11, <2>1, <2>2, Zenon
<1>15. ListsOK'
  <2>1. ListsOK /\ Range(registry) \subseteq DOMAIN part /\ Range(blends) \subseteq DOMAIN part
    BY <1>1, ListsOKNow, ListFacts, Zenon
  <2>2. /\ \A e \in Range(registry) : part'[e] = part[e]
        /\ \A e \in Range(blends) : part'[e] = part[e]
    BY <1>6, <1>8, <1>10, <2>1, Zenon
  <2> QED
    BY <1>1, <1>10, <2>1, <2>2, Zenon DEF ListsOK
<1>16. /\ last' \in [Objects -> {"none", "added", "removed"}] /\ last'[x] = "removed"
       /\ \A o \in Objects : o # x => last'[o] = last[o]
  <2>1. last \in [Objects -> {"none", "added", "removed"}]
    BY <1>1, Zenon DEF TypeOK
  <2> QED
    BY <1>4, <1>7, <2>1
<1>17. HistoryTypes'
  BY <1>1, <1>16, SameHistory, Zenon DEF HistoryTypes
<1>18. TypeOK' /\ HoldInv'
  <2>1. \A e \in DOMAIN part' : IdsBelow(part'[e])
    BY <1>1, <1>9, <1>10, SameHistory, EmptyBelow, Zenon
  <2>2. Len(part') <= MaxEntries
    BY <1>1, <1>10, Zenon DEF TypeOK
  <2> QED
    BY <1>10, <1>12, <1>14, <1>15, <1>17, <2>1, <2>2, ListTypes, Zenon
<1>19. ASSUME NEW o PROVE /\ Registered(o)' <=> Registered(o)
                          /\ Find(o)' = Find(o)
                          /\ \A e : Here(e, o)' <=> Here(e, o)
  BY <1>1, <1>10, SameFound, Zenon
<1>20. FoundInv'
  <2>1. \A q \in Procs : req'[q].op \in Working => req'[q] = req[q]
    BY <1>11, <1>13, Zenon
  <2>2. ASSUME NEW a \in announced, Registered(a[1]) PROVE part'[Find(a[1])].list = part[Find(a[1])].list
    <3>1. Find(a[1]) \in DOMAIN part /\ Find(a[1]) \in Range(EntriesFor(a[1]))
      BY <1>1, <2>2, Search, Zenon
    <3>2. Find(a[1]) # f
      BY <1>6, <1>8, <3>1, Zenon DEF EntriesFor
    <3> QED
      BY <1>10, <3>1, <3>2, Zenon
  <2> QED
    BY <1>1, <1>19, <2>1, <2>2, FoundFrame, Zenon
<1>21. ASSUME NEW q \in Procs PROVE Holds(req'[q], part')
  <2>1. CASE req'[q] = Idle
    BY <2>1, IdleLoose, LooseHolds, Zenon
  <2>2. CASE req'[q] = req[q] /\ (req[q].op \notin {"none", "register"} => req[q].entry # f)
    <3>1. Holds(req[q], part) /\ Sound(req[q], part, registry)
      BY <1>1, Zenon DEF IdInv, HoldInv
    <3>2. CASE req[q].op \in {"none", "register"}
      <4>1. req[q].at \in {"idle", "emit"} /\ req[q].op # "umount"
        BY <3>1, <3>2, PlaceFacts DEF Sound
      <4>2. Loose(req[q])
        BY <4>1 DEF Loose
      <4> QED
        BY <2>2, <4>2, LooseHolds, Zenon
    <3>3. CASE req[q].op \notin {"none", "register"}
      <4>1. part'[req[q].entry] = part[req[q].entry]
        BY <1>10, <2>2, <3>1, <3>3, Zenon DEF Sound
      <4> QED
        BY <2>2, <3>1, <4>1, HoldsSame, Zenon
    <3> QED
      BY <3>2, <3>3, Zenon
  <2> QED
    BY <1>11, <2>1, <2>2, Zenon
<1>22. IdInv'
  <2>1. \A d \in DOMAIN part', l \in Lists :
           part'[d].list[l] = <<>> \/ (d \in DOMAIN part /\ part'[d].list[l] = part[d].list[l])
    BY <1>9, <1>10, Zenon
  <2>2. \A q \in Procs : req'[q] = req[q] \/ req'[q].at # "add"
    <3>1. "idle" # "add"
      OBVIOUS
    <3> QED
      BY <1>11, <1>13, <3>1, Zenon
  <2> QED
    BY <1>1, <1>21, <2>1, <2>2, IdFrame, Zenon
<1>23. ImageInv'
  <2>1. ASSUME NEW d \in DOMAIN part, d # f, NEW q \in Procs
        PROVE  req'[q] = req[q] \/ \A id : ~Amid(req[q], d, id) /\ ~Amid(req'[q], d, id)
    <3>1. q \in Holders(f) => \A id : ~Amid(req[q], d, id)
      BY <2>1, Zenon DEF Holders, Amid
    <3>2. req'[q] = Idle => \A id : ~Amid(req'[q], d, id)
      BY IdleLoose, LooseHolds, Zenon
    <3> QED
      BY <1>11, <3>1, <3>2, Zenon
  <2>2. "images" \in Lists
    BY DEF Lists
  <2>3. \A d \in DOMAIN part' :
           \/ part'[d].list["images"] = <<>>
           \/ /\ d \in DOMAIN part /\ part'[d].list["images"] = part[d].list["images"]
              /\ \A q \in Procs : req'[q] = req[q] \/ \A id : ~Amid(req[q], d, id) /\ ~Amid(req'[q], d, id)
    BY <1>9, <1>10, <2>1, <2>2, Zenon
  <2> QED
    BY <1>1, <2>3, ImageFrame, Zenon
<1>24. ASSUME NEW o \in Objects, o \notin twin' \cup raced' PROVE EventOf(o)'
  <2>1. EventOf(o)
    BY <1>1, <1>24, Zenon DEF EventInv
  <2>2. CASE o # x
    <3>1. ASSUME NEW q \in Holders(f) PROVE req[q].obj = x
      BY <1>1, <1>6, Zenon DEF Holders, HoldInv, Sound
    <3>2. \A q \in Procs : \/ req'[q] = req[q]
                           \/ /\ ~(req[q].op \in Changing /\ req[q].obj = o)
                              /\ ~(req'[q].op \in Changing /\ req'[q].obj = o)
      BY <1>11, <1>13, <2>2, <3>1, Zenon
    <3>3. last'[o] = last[o]
      BY <1>16, <2>2, Zenon
    <3> QED
      BY <1>1, <1>19, <2>1, <3>2, <3>3, EventSame, Zenon
  <2>3. CASE o = x
    <3>1. p \in Under(o, Changing) /\ p \in Under(o, {"unregister"})
      BY <1>3, <1>5, <2>3, Zenon DEF Under
    <3>2. ~Registered(o)
      BY <2>1, <3>1, Zenon DEF EventOf
    <3>3. ASSUME NEW q \in Procs PROVE ~(req'[q].op \in Changing /\ req'[q].obj = o)
      <4>1. ASSUME q # p PROVE ~(req[q].op \in Changing /\ req[q].obj = o)
        BY <2>1, <3>1, <4>1, Zenon DEF EventOf, Under
      <4> QED
        BY <1>11, <1>13, <4>1, Zenon
    <3>4. /\ Under(o, Changing)' = {} /\ Under(o, {"register", "blend"})' = {}
          /\ Under(o, {"unregister"})' = {}
      BY <3>3, Zenon DEF Under, Changing
    <3>5. \A d, e \in DOMAIN part' : Here(d, o)' /\ Here(e, o)' => d = e
      BY <1>10, <1>19, <2>1, Zenon DEF EventOf
    <3>6. last'[o] # "added" /\ ~Registered(o)'
      <4>1. "removed" # "added"
        OBVIOUS
      <4> QED
        BY <1>16, <1>19, <2>3, <3>2, <4>1, Zenon
    <3> QED
      BY <3>4, <3>5, <3>6, Zenon DEF EventOf
  <2> QED
    BY <2>2, <2>3, Zenon
<1>25. EventInv'
  BY <1>24, Zenon DEF EventInv
<1> QED
  BY <1>18, <1>20, <1>22, <1>23, <1>25, Zenon DEF IInv

\* A blend mount goes; the search for another object does not see it.
LEMMA BlendUmountKeeps ==
    ASSUME IInv, NEW p \in Procs, NEW b \in BlendPoints, BlendUmount(p, b)
    PROVE  IInv'
<1>1. /\ TypeOK /\ HoldInv /\ EventInv /\ FoundInv /\ IdInv /\ ImageInv
      /\ Registered(b) /\ blends' = Delete(blends, Position(b))
      /\ part' = [part EXCEPT ![Find(b)] = Freed(@)]
      /\ last' = [last EXCEPT ![b] = "removed"]
      /\ raced' = IF Under(b, {"blend"}) # {} THEN raced \cup {b} ELSE raced
      /\ UNCHANGED <<registry, req, announced, twin>>
  BY Zenon DEF IInv, BlendUmount
<1>2. PICK f : f = Find(b)
  BY Zenon
<1>3. b \in Objects /\ b \notin Uuids
  BY RegistryAssumption DEF Objects
<1>4. /\ f \in DOMAIN part /\ part[f].uuid = b /\ Here(f, b)
  BY <1>1, <1>2, Search, Zenon
<1>5. Only(f) /\ \A l \in Lists : part'[f].list[l] = <<>>
  BY <1>1, <1>2, <1>4, FreedFacts, Zenon
<1>6. Unlisted(b)
  BY <1>1, <1>3, Zenon DEF Unlisted
<1>7. /\ ListsOK' /\ \A o, e : Here(e, o)' <=> Here(e, o) /\ e # f
      /\ \A o : Range(EntriesFor(o)') = Range(EntriesFor(o)) \ {f}
  BY <1>1, <1>2, <1>3, <1>5, <1>6, ShrunkLists
<1>8. /\ part' \in Seq(Entries) /\ Len(part') = Len(part) /\ DOMAIN part' = DOMAIN part
      /\ \A d \in DOMAIN part : d # f => part'[d] = part[d]
      /\ \A d \in DOMAIN part : part'[d].uuid = part[d].uuid
  BY <1>4, <1>5, Zenon DEF Only
<1>9. ASSUME NEW q \in Procs, req[q].op \notin {"none", "blend"}
      PROVE  req[q].entry \in DOMAIN part /\ req[q].entry # f
  <2>1. Sound(req[q], part, registry)
    BY <1>1, Zenon DEF HoldInv
  <2>2. req[q].op \in Working \cup {"register", "unregister"}
    BY <1>9, <2>1 DEF Sound, Requests, Working
  <2> QED
    BY <1>3, <1>4, <1>9, <2>1, <2>2, Zenon DEF Sound
<1>10. ASSUME NEW q \in Procs PROVE Sound(req'[q], part', registry')
  <2>1. Sound(req[q], part, registry) /\ req'[q] = req[q] /\ registry' = registry
    BY <1>1, Zenon DEF HoldInv
  <2>2. req[q].op # "none" => req[q].entry \in DOMAIN part' /\ part'[req[q].entry].uuid = part[req[q].entry].uuid
    BY <1>8, <2>1, Zenon DEF Sound
  <2>3. req[q].op \notin {"none", "register", "blend"} => part'[req[q].entry].live
    <3> SUFFICES ASSUME req[q].op \notin {"none", "register", "blend"} PROVE part'[req[q].entry].live
      BY Zenon
    <3>1. req[q].entry \in DOMAIN part /\ req[q].entry # f /\ part[req[q].entry].live
      BY <1>9, <2>1, Zenon DEF Sound
    <3> QED
      BY <1>8, <3>1, Zenon
  <2>4. req[q].op = "unregister" => req[q].entry \notin Range(registry')
    BY <2>1, Zenon DEF Sound
  <2> QED
    BY <2>1, <2>2, <2>3, <2>4, StillSound, Zenon
<1>11. /\ last' \in [Objects -> {"none", "added", "removed"}] /\ last'[b] = "removed"
       /\ \A o \in Objects : o # b => last'[o] = last[o]
  <2>1. last \in [Objects -> {"none", "added", "removed"}]
    BY <1>1, Zenon DEF TypeOK
  <2> QED
    BY <1>1, <1>3, <2>1
<1>12. HistoryTypes'
  <2>1. raced' \subseteq Objects
    BY <1>1, <1>3, SameHistory, Zenon DEF HistoryTypes
  <2> QED
    BY <1>1, <1>11, <2>1, SameHistory, Zenon DEF HistoryTypes
<1>13. TypeOK' /\ HoldInv'
  <2>1. \A e \in DOMAIN part' : IdsBelow(part'[e])
    BY <1>1, <1>5, <1>8, SameHistory, EmptyBelow, Zenon
  <2>2. Len(part') <= MaxEntries
    BY <1>1, <1>8, Zenon DEF TypeOK
  <2>3. req' = [q \in Procs |-> req'[q]]
    BY <1>1, Zenon DEF TypeOK
  <2> QED
    BY <1>7, <1>8, <1>10, <1>12, <2>1, <2>2, <2>3, ListTypes, Zenon
<1>14. ASSUME NEW o, o # b, Registered(o) PROVE Registered(o)' /\ Find(o)' = Find(o) /\ Find(o) \in DOMAIN part /\ Find(o) # f
  <2> DEFINE e == Find(o)
  <2>1. e \in Range(EntriesFor(o)) /\ part[e].uuid = o /\ e \in DOMAIN part
    BY <1>1, <1>14, Search, Zenon
  <2>2. e # f
    BY <1>4, <1>14, <2>1, Zenon
  <2>3. e \in Range(EntriesFor(o)') /\ part'[e].uuid = o
    BY <1>7, <1>8, <2>1, <2>2, Zenon
  <2>4. \A d \in Range(EntriesFor(o)') : part'[d].uuid = o => Here(d, o)
    <3>1. \A d : d \in Range(EntriesFor(o)') /\ part'[d].uuid = o => Here(d, o)'
      BY Zenon DEF Here
    <3> QED
      BY <1>7, <3>1, Zenon
  <2>5. Registered(o)' /\ Find(o)' = Find(o)
    BY <1>1, <1>13, <1>14, <2>3, <2>4, KeptFound, Zenon
  <2> QED
    BY <2>1, <2>2, <2>5, Zenon
<1>15. raced \subseteq raced' /\ (b \notin raced' => Under(b, {"blend"}) = {})
  BY <1>1, Zenon
<1>16. FoundInv'
  <2>1. \A q \in Procs : req[q].op \in Working => req[q].obj # b
    BY <1>1, <1>3, Zenon DEF HoldInv, Sound
  <2>2. \A a \in announced : a[1] # b
    <3>1. announced \subseteq Uuids \X Lists \X Nat
      BY <1>1, Zenon DEF TypeOK
    <3>2. \A a \in announced : a[1] \in Uuids
      BY <3>1
    <3> QED
      BY <1>3, <3>2, Zenon
  <2>3. \A o : /\ o \notin raced' /\ Registered(o)
               /\ (\E q \in Procs : req'[q].op \in Working /\ req'[q].obj = o) \/ (\E a \in announced' : a[1] = o)
               => Registered(o)' /\ Find(o)' = Find(o)
    BY <1>1, <1>14, <2>1, <2>2, Zenon
  <2>4. \A a \in announced' : a[1] \notin raced' /\ Registered(a[1]) =>
           part'[Find(a[1])].list = part[Find(a[1])].list
    BY <1>1, <1>8, <1>14, <2>2, Zenon
  <2>5. (\A q \in Procs : req'[q].op \in Working => req'[q] = req[q]) /\ announced' \subseteq announced
    BY <1>1, Zenon
  <2> QED
    BY <1>1, <1>15, <2>3, <2>4, <2>5, FoundFrame, Zenon
<1>17. ASSUME NEW q \in Procs PROVE Holds(req'[q], part')
  <2>1. Holds(req[q], part) /\ Sound(req[q], part, registry) /\ req'[q] = req[q]
    BY <1>1, Zenon DEF IdInv, HoldInv
  <2>2. CASE req[q].op \in {"none", "blend"}
    <3>1. req[q].at \in {"idle", "emit"} /\ req[q].op # "umount"
      BY <2>1, <2>2, PlaceFacts DEF Sound
    <3>2. Loose(req[q])
      BY <3>1 DEF Loose
    <3> QED
      BY <2>1, <3>2, LooseHolds, Zenon
  <2>3. CASE req[q].op \notin {"none", "blend"}
    <3>1. part'[req[q].entry] = part[req[q].entry]
      BY <1>8, <1>9, <2>3, Zenon
    <3> QED
      BY <2>1, <3>1, HoldsSame, Zenon
  <2> QED
    BY <2>2, <2>3, Zenon
<1>18. IdInv'
  <2>1. \A d \in DOMAIN part', l \in Lists :
           part'[d].list[l] = <<>> \/ (d \in DOMAIN part /\ part'[d].list[l] = part[d].list[l])
    BY <1>5, <1>8, Zenon
  <2> QED
    BY <1>1, <1>17, <2>1, IdFrame, Zenon
<1>19. ImageInv'
  <2>1. "images" \in Lists
    BY DEF Lists
  <2>2. \A d \in DOMAIN part' :
           \/ part'[d].list["images"] = <<>>
           \/ d \in DOMAIN part /\ part'[d].list["images"] = part[d].list["images"]
    BY <1>5, <1>8, <2>1, Zenon
  <2> QED
    BY <1>1, <2>2, ImageFrame, Zenon
<1>20. ASSUME NEW o \in Objects, o \notin twin' \cup raced' PROVE EventOf(o)'
  <2>1. EventOf(o)
    <3>1. o \notin twin \cup raced
      BY <1>1, <1>15, <1>20, Zenon
    <3> QED
      BY <1>1, <3>1, Zenon DEF EventInv
  <2>2. CASE o # b
    <3>1. \A e : Here(e, o)' <=> Here(e, o)
      <4>1. ~Here(f, o)
        BY <1>4, <2>2, Zenon DEF Here
      <4> QED
        BY <1>7, <4>1, Zenon
    <3>2. last'[o] = last[o] /\ \A q \in Procs : req'[q] = req[q]
      BY <1>1, <1>11, <2>2, Zenon
    <3> QED
      BY <1>1, <1>8, <2>1, <3>1, <3>2, EventSame, Zenon
  <2>3. CASE o = b
    <3>1. ASSUME NEW q \in Procs, req[q].op \in Changing, req[q].obj = o PROVE FALSE
      <4>1. req[q].op = "blend" \/ req[q].op \in {"register", "unregister"}
        BY <3>1, Zenon DEF Changing
      <4>2. req[q].op \in {"register", "unregister"} => req[q].obj \in Uuids
        BY <1>1, Zenon DEF HoldInv, Sound
      <4>3. req[q].op # "blend"
        BY <1>15, <1>20, <2>3, <3>1, Zenon DEF Under
      <4> QED
        BY <1>3, <2>3, <3>1, <4>1, <4>2, <4>3, Zenon
    <3>2. /\ Under(o, Changing)' = {} /\ Under(o, {"register", "blend"})' = {}
          /\ Under(o, {"unregister"})' = {}
      BY <1>1, <3>1, Zenon DEF Under, Changing
    <3>3. ASSUME NEW e PROVE ~Here(e, o)'
      <4>1. ASSUME Here(e, o), e # f PROVE FALSE
        <5>1. e \in DOMAIN part
          BY <1>1, <4>1, ListFacts, Zenon DEF Here, EntriesFor
        <5> QED
          BY <1>4, <2>1, <2>3, <4>1, <5>1, Zenon DEF EventOf
      <4> QED
        BY <1>7, <4>1, Zenon
    <3>4. ~Registered(o)'
      BY <3>3, Zenon DEF Registered, Matching, Here, Range
    <3>5. last'[o] # "added"
      <4>1. "removed" # "added"
        OBVIOUS
      <4> QED
        BY <1>11, <2>3, <4>1, Zenon
    <3>6. \A d, e \in DOMAIN part' : Here(d, o)' /\ Here(e, o)' => d = e
      BY <3>3, Zenon
    <3> QED
      BY <3>2, <3>4, <3>5, <3>6, Zenon DEF EventOf
  <2> QED
    BY <2>2, <2>3, Zenon
<1>21. EventInv'
  BY <1>20, Zenon DEF EventInv
<1> QED
  BY <1>13, <1>16, <1>18, <1>19, <1>21, Zenon DEF IInv

\* The lists are empty where no entry is on them.
NoneListed ==
    ListsOK /\ \A o : ~Registered(o) /\ \A e : ~Here(e, o)

\* Nothing is found in empty lists.
LEMMA EmptyLists == registry = <<>> /\ blends = <<>> => NoneListed
<1> SUFFICES ASSUME registry = <<>>, blends = <<>> PROVE NoneListed
  BY Zenon
<1>1. ASSUME NEW o PROVE EntriesFor(o) = <<>>
  BY Zenon DEF EntriesFor
<1>2. DOMAIN <<>> = {} /\ Range(<<>>) = {}
  BY DEF Range
<1>3. \A o : ~Registered(o) /\ \A e : ~Here(e, o)
  BY <1>1, <1>2, Zenon DEF Registered, Matching, Here
<1>4. <<>> \in Seq(DOMAIN part)
  OBVIOUS
<1>5. IsInjective(<<>>) /\ Ascending(<<>>)
  BY <1>2, Zenon DEF IsInjective, Ascending, Searchable
<1> QED
  BY <1>2, <1>3, <1>4, <1>5, Zenon DEF ListsOK, NoneListed

\* The module is loaded again: no entry is left, and an object whose ADDED
\* event is the last one is among those the listener was not told of.
LEMMA ReloadKeeps ==
    ASSUME IInv, Reload
    PROVE  IInv'
<1>1. /\ TypeOK /\ HoldInv /\ EventInv /\ FoundInv /\ IdInv /\ ImageInv
      /\ \A q \in Procs : req[q] = Idle
      /\ registry' = <<>> /\ blends' = <<>>
      /\ part' = [e \in DOMAIN part |-> Freed(part[e])]
      /\ announced' = {} /\ raced' = raced \cup {o \in Objects : last[o] = "added"}
      /\ UNCHANGED <<req, last, twin>>
  BY Zenon DEF IInv, Reload
<1>2. part \in Seq(Entries) /\ DOMAIN part = 1 .. Len(part) /\ Len(part) \in Nat
  BY <1>1, TypeFacts, Zenon
<1>3. ASSUME NEW e \in DOMAIN part
      PROVE  Freed(part[e]) \in Entries /\ \A l \in Lists : Freed(part[e]).list[l] = <<>>
  <2>1. part[e] \in Entries
    BY <1>2, <1>3
  <2> QED
    BY <2>1, FreedEntry, Zenon
<1>4. /\ DOMAIN part' = DOMAIN part
      /\ \A e \in DOMAIN part : part'[e] \in Entries /\ \A l \in Lists : part'[e].list[l] = <<>>
  BY <1>1, <1>3, Zenon
<1>5. part' \in Seq(Entries) /\ Len(part') = Len(part)
  <2>1. part' = [e \in 1 .. Len(part) |-> part'[e]]
    BY <1>1, <1>2, Zenon
  <2>2. \A e \in 1 .. Len(part) : part'[e] \in Entries
    BY <1>2, <1>4, Zenon
  <2> HIDE DEF Entries
  <2> QED
    BY <1>2, <2>1, <2>2
<1>6. ListsOK' /\ \A o : ~Registered(o)' /\ \A e : ~Here(e, o)'
  <2>1. (registry = <<>> /\ blends = <<>>)'
    BY <1>1, Zenon
  <2>2. NoneListed'
    BY <2>1, EmptyLists, PTL
  <2> QED
    BY <2>2, Zenon DEF NoneListed
<1>7. \A q \in Procs : req'[q] = Idle /\ Sound(req'[q], part', registry') /\ Holds(req'[q], part')
  BY <1>1, IdleSound, IdleLoose, LooseHolds, Zenon
<1>8. TypeOK' /\ HoldInv'
  <2>1. HistoryTypes'
    <3>1. raced' \subseteq Objects /\ announced' \subseteq Uuids \X Lists \X Nat
      BY <1>1, SameHistory, Zenon DEF HistoryTypes
    <3> QED
      BY <1>1, <3>1, SameHistory, Zenon DEF HistoryTypes
  <2>2. Len(part') <= MaxEntries /\ req' = [q \in Procs |-> req'[q]]
    BY <1>1, <1>5, Zenon DEF TypeOK
  <2>3. \A e \in DOMAIN part' : IdsBelow(part'[e])
    BY <1>4, EmptyBelow, Zenon
  <2> QED
    BY <1>5, <1>6, <1>7, <2>1, <2>2, <2>3, ListTypes, Zenon
<1>9. Idle.op = "none" /\ Idle.at = "idle" /\ "none" \notin Working /\ "none" \notin Changing
  BY WorkFacts DEF Idle, Request
<1>10. FoundInv'
  BY <1>1, <1>7, <1>9, Zenon DEF FoundInv
<1>11. IdInv'
  <2>1. \A q \in Procs : req'[q] = req[q]
    BY <1>1, Zenon
  <2> QED
    BY <1>1, <1>4, <1>7, <2>1, IdFrame, Zenon
<1>12. ImageInv'
  <2>1. "images" \in Lists
    BY DEF Lists
  <2> QED
    BY <1>1, <1>4, <2>1, ImageFrame, Zenon
<1>13. EventInv'
  <2>1. ASSUME NEW o \in Objects, o \notin twin' \cup raced' PROVE EventOf(o)'
    <3>1. last'[o] # "added"
      BY <1>1, <2>1, Zenon
    <3>2. \A q \in Procs : req'[q].op \notin Changing
      BY <1>7, <1>9, Zenon
    <3>3. Under(o, Changing)' = {} /\ Under(o, {"register", "blend"})' = {} /\ Under(o, {"unregister"})' = {}
      BY <3>2, Zenon DEF Under, Changing
    <3> QED
      BY <1>6, <3>1, <3>3, Zenon DEF EventOf
  <2> QED
    BY <2>1, Zenon DEF EventInv
<1> QED
  BY <1>8, <1>10, <1>11, <1>12, <1>13, Zenon DEF IInv

-----------------------------------------------------------------------------
(* The invariant                                                           *)

\* The initial state: the module has just been loaded.
LEMMA InitInv ==
    ASSUME Init
    PROVE  IInv
<1>1. /\ registry = <<>> /\ part = <<>> /\ blends = <<>> /\ req = [p \in Procs |-> Idle]
      /\ last = [o \in Objects |-> "none"] /\ announced = {} /\ twin = {} /\ raced = {}
  BY Zenon DEF Init
<1>2. ListsOK /\ \A o : ~Registered(o) /\ \A e : ~Here(e, o)
  BY <1>1, EmptyLists, Zenon DEF NoneListed
<1>3. part \in Seq(Entries) /\ Len(part) <= MaxEntries /\ DOMAIN part = {}
  BY <1>1, RegistryAssumption
<1>4. \A q \in Procs : req[q] = Idle
  BY <1>1, Zenon
<1>5. Idle.op = "none" /\ Idle.at = "idle" /\ "none" \notin Working /\ "none" \notin Changing
  BY WorkFacts DEF Idle, Request
<1>6. \A q \in Procs : Sound(req[q], part, registry) /\ Holds(req[q], part)
  BY <1>4, IdleSound, IdleLoose, LooseHolds, Zenon
<1>7. TypeOK
  <2>1. req \in [Procs -> Requests]
    BY <1>1, <1>4, <1>6, Zenon DEF Sound
  <2>2. last \in [Objects -> {"none", "added", "removed"}]
    BY <1>1
  <2>3. \A q \in Procs : req[q].op \notin {"none", "register", "blend"} =>
           req[q].entry \in DOMAIN part /\ part[req[q].entry].live
    BY <1>4, <1>5, Zenon
  <2> QED
    BY <1>1, <1>2, <1>3, <2>1, <2>2, <2>3, Zenon DEF TypeOK, ListsOK
<1>8. HoldInv
  BY <1>2, <1>6, Zenon DEF HoldInv, ListsOK
<1>9. EventInv
  <2>1. ASSUME NEW o \in Objects PROVE EventOf(o)
    <3>1. last[o] # "added"
      BY <1>1
    <3>2. Under(o, Changing) = {} /\ Under(o, {"register", "blend"}) = {} /\ Under(o, {"unregister"}) = {}
      BY <1>4, <1>5, Zenon DEF Under, Changing
    <3> QED
      BY <1>2, <3>1, <3>2, Zenon DEF EventOf
  <2> QED
    BY <2>1, Zenon DEF EventInv
<1>10. FoundInv
  BY <1>1, <1>4, <1>5, Zenon DEF FoundInv
<1>11. IdInv
  <2>1. ASSUME NEW p \in Procs, NEW q \in Procs PROVE ~Rivals(req[p], req[q])
    <3>1. "idle" # "add"
      OBVIOUS
    <3> QED
      BY <1>4, <1>5, <3>1, Zenon DEF Rivals
  <2> QED
    BY <1>3, <1>6, <2>1, Zenon DEF IdInv
<1>12. ImageInv
  BY <1>3, Zenon DEF ImageInv
<1> QED
  BY <1>7, <1>8, <1>9, <1>10, <1>11, <1>12, Zenon DEF IInv

\* The ioctls on a partition that begin with a search.
LEMMA BeginnersKeep ==
    ASSUME IInv, NEW p \in Procs, NEW u \in Uuids,
           \/ Export(p, u) \/ Store(p, u)
           \/ \E id \in 1 .. MaxImages :
                \/ Import(p, u, id) \/ Snapshot(p, u, id) \/ Umount(p, u, id)
                \/ \E mp \in MountPoints : Mount(p, u, id, mp)
    PROVE  IInv'
<1>1. /\ {"export", "store", "import", "snapshot", "mount", "umount"} \subseteq Working
      /\ 0 \in Nat /\ NoMount \in MountPoints \cup {NoMount}
      /\ \A op \in {"export", "store"} : "allocate" \in Places(op)
      /\ \A op \in {"import", "snapshot", "mount", "umount"} : "find" \in Places(op)
      /\ "find" \in {"find", "allocate"} /\ "allocate" \in {"find", "allocate"}
  BY PlaceFacts DEF Working, Adding
<1>2. CASE Export(p, u)
  BY <1>1, <1>2, BeginKeeps, Zenon DEF Export
<1>3. CASE Store(p, u)
  BY <1>1, <1>3, BeginKeeps, Zenon DEF Store
<1>4. CASE \E id \in 1 .. MaxImages :
             \/ Import(p, u, id) \/ Snapshot(p, u, id) \/ Umount(p, u, id)
             \/ \E mp \in MountPoints : Mount(p, u, id, mp)
  <2>1. PICK id \in 1 .. MaxImages :
             \/ Import(p, u, id) \/ Snapshot(p, u, id) \/ Umount(p, u, id)
             \/ \E mp \in MountPoints : Mount(p, u, id, mp)
    BY <1>4, Zenon
  <2>2. id \in Nat
    OBVIOUS
  <2>3. CASE Import(p, u, id)
    BY <1>1, <2>2, <2>3, BeginKeeps, Zenon DEF Import
  <2>4. CASE Snapshot(p, u, id)
    BY <1>1, <2>2, <2>4, BeginKeeps, Zenon DEF Snapshot
  <2>5. CASE Umount(p, u, id)
    BY <1>1, <2>2, <2>5, BeginKeeps, Zenon DEF Umount
  <2>6. CASE \E mp \in MountPoints : Mount(p, u, id, mp)
    <3>1. PICK mp \in MountPoints : Mount(p, u, id, mp)
      BY <2>6, Zenon
    <3>2. mp \in MountPoints \cup {NoMount}
      BY Zenon
    <3> QED
      BY <1>1, <2>2, <3>1, <3>2, BeginKeeps, Zenon DEF Mount
  <2> QED
    BY <2>1, <2>3, <2>4, <2>5, <2>6, Zenon
<1> QED
  BY <1>2, <1>3, <1>4, Zenon

\* IInv does not depend on anything but the variables.
LEMMA StutterKeeps ==
    ASSUME IInv, UNCHANGED vars
    PROVE  IInv'
<1>1. UNCHANGED <<registry, part, blends, req, last, announced, twin, raced>>
  BY Zenon DEF vars
<1>2. ASSUME NEW o PROVE /\ Registered(o)' <=> Registered(o)
                         /\ Find(o)' = Find(o)
                         /\ \A e : Here(e, o)' <=> Here(e, o)
                         /\ \A ops : Under(o, ops)' = Under(o, ops)
  BY <1>1, Zenon DEF Registered, Matching, Find, Position, Here, EntriesFor, Under
<1>3. TypeOK' /\ HoldInv'
  BY <1>1, Zenon DEF IInv, TypeOK, HoldInv
<1>4. FoundInv' /\ IdInv' /\ ImageInv'
  BY <1>1, <1>2, Zenon DEF IInv, FoundInv, IdInv, ImageInv
<1>5. EventInv'
  <2>1. ASSUME NEW o \in Objects, o \notin twin' \cup raced' PROVE EventOf(o)'
    <3>1. EventOf(o)
      BY <1>1, <2>1, Zenon DEF IInv, EventInv
    <3>2. \A q \in Procs : req'[q] = req[q]
      BY <1>1, Zenon
    <3> QED
      BY <1>1, <1>2, <3>1, <3>2, EventSame, Zenon DEF IInv
  <2> QED
    BY <2>1, Zenon DEF EventInv
<1> QED
  BY <1>3, <1>4, <1>5, Zenon DEF IInv

\* Every step keeps the invariant.
LEMMA NextKeeps == IInv /\ [Next]_vars => IInv'
<1> SUFFICES ASSUME IInv, [Next]_vars PROVE IInv'
  BY Zenon
<1>1. CASE UNCHANGED vars
  BY <1>1, StutterKeeps, Zenon
<1>2. CASE Reload
  BY <1>2, ReloadKeeps, Zenon
<1>3. ASSUME NEW p \in Procs, Step(p) PROVE IInv'
  BY <1>3, EmitAddedKeeps, EmitRemovedKeeps, FindImageKeeps, AllocateKeeps, NoMemoryKeeps, AddKeeps,
     AnnounceKeeps, RecordMountKeeps, EmitMountKeeps, EmitUmountKeeps, ClearMountKeeps, Zenon DEF Step
<1>4. ASSUME NEW p \in Procs, NEW u \in Uuids, PartitionOps(p, u) PROVE IInv'
  <2>1. CASE Unregister(p, u)
    BY <2>1, UnregisterKeeps, Zenon
  <2>2. ASSUME NEW kind \in Kinds, Register(p, u, kind) PROVE IInv'
    BY <2>2, RegisterKeeps, Zenon
  <2> QED
    BY <1>4, <2>1, <2>2, BeginnersKeep, Zenon DEF PartitionOps
<1>5. ASSUME NEW p \in Procs, NEW b \in BlendPoints, BlendMount(p, b) \/ BlendUmount(p, b) PROVE IInv'
  BY <1>5, BlendMountKeeps, BlendUmountKeeps, Zenon
<1> QED
  BY <1>1, <1>2, <1>3, <1>4, <1>5, Zenon DEF Next

\* The inductive invariant of the registry.
THEOREM RegistryInvariance == Spec => []IInv
<1>1. Init => IInv
  BY InitInv
<1> QED
  BY <1>1, NextKeeps, PTL DEF Spec

\* Every entry on bdfs_partition_list and bdfs_blend_mounts is there once and
\* is not freed, and no ioctl the model follows holds a freed entry, but for a
\* registration or a blend mount that only has its event to send: of the
\* locking in bdfs_register_partition, bdfs_unregister_partition and
\* bdfs_blend_umount, for any number of callers.
THEOREM RegistryTypes == Spec => []TypeOK
<1>1. IInv => TypeOK
  BY Zenon DEF IInv
<1> QED
  BY <1>1, RegistryInvariance, PTL

\* A listener that counts the ADDED and REMOVED events of
\* bdfs_register_partition, bdfs_unregister_partition, bdfs_blend_mount and
\* bdfs_blend_umount knows what is there: the events are sent outside the
\* locks and still come in the order of the changes, unless the object was
\* added twice or removed before its ADDED event was sent.
THEOREM ListenerIsRight == Spec => []ListenerKnows
<1>1. IInv => ListenerKnows
  <2> SUFFICES ASSUME IInv, NEW o \in Objects, o \notin twin \cup raced,
                      Under(o, {"register", "unregister", "blend"}) = {}
               PROVE  last[o] = "added" <=> Registered(o)
    BY Zenon DEF ListenerKnows
  <2>1. EventOf(o)
    BY Zenon DEF IInv, EventInv
  <2>2. Under(o, Changing) = {}
    BY Zenon DEF Changing, Under
  <2> QED
    BY <2>1, <2>2, Zenon DEF EventOf
<1> QED
  BY <1>1, RegistryInvariance, PTL

\* The id that bdfs_export_to_dwarfs, bdfs_store_image, bdfs_import_from_dwarfs
\* or bdfs_create_snapshot has put in an event or a reply names one item of the
\* list that bdfs_find_partition_locked leads every later call to, unless the
\* partition was once unregistered under a request that was using it, was
\* registered again before that was over, or the module was reloaded.
THEOREM AnnouncedIsReached == Spec => []AnnouncedIsFound
<1>1. IInv => AnnouncedIsFound
  <2> SUFFICES ASSUME IInv, NEW a \in announced, a[1] \notin raced
               PROVE  /\ Registered(a[1])
                      /\ LET list == part[Find(a[1])].list[a[2]]
                         IN  /\ HasId(list, a[3])
                             /\ \A i, j \in DOMAIN list :
                                   list[i].id = a[3] /\ list[j].id = a[3] => i = j
    BY Zenon DEF AnnouncedIsFound
  <2>1. TypeOK /\ HoldInv /\ FoundInv /\ IdInv
    BY Zenon DEF IInv
  <2>2. Registered(a[1]) /\ HasId(part[Find(a[1])].list[a[2]], a[3])
    BY <2>1, Zenon DEF FoundInv
  <2>3. Find(a[1]) \in DOMAIN part
    BY <2>1, <2>2, Search, Zenon
  <2>4. a[2] \in Lists
    <3>1. announced \subseteq Uuids \X Lists \X Nat
      BY <2>1, Zenon DEF TypeOK
    <3> QED
      BY <3>1
  <2>5. UniqueIds(part[Find(a[1])].list[a[2]])
    BY <2>1, <2>3, <2>4, Zenon DEF IdInv
  <2> QED
    BY <2>2, <2>5, Zenon DEF UniqueIds
<1> QED
  BY <1>1, RegistryInvariance, PTL

\* The mount point in bdfs_dwarfs_list_images is that of the last event: of
\* the two effects, in opposite orders, of bdfs_dwarfs_mount_image and
\* bdfs_dwarfs_umount_image.
THEOREM RecordIsRight == Spec => []RecordMatchesEvents
<1>1. IInv => RecordMatchesEvents
  <2> SUFFICES ASSUME IInv, NEW e \in Range(registry), NEW i \in DOMAIN part[e].list["images"]
               PROVE  LET img == part[e].list["images"][i] IN
                      \/ img.clash
                      \/ \E q \in Procs : /\ req[q].at \in {"told", "clear"}
                                          /\ req[q].entry = e /\ req[q].id = img.id
                      \/ img.mount = img.told
    BY Zenon DEF RecordMatchesEvents
  <2>1. e \in DOMAIN part
    BY ListFacts, Zenon DEF IInv
  <2>2. Settled(part[e].list["images"][i], e, req)
    BY <2>1, Zenon DEF IInv, ImageInv
  <2> QED
    BY <2>2, Zenon DEF Settled, Amid
<1> QED
  BY <1>1, RegistryInvariance, PTL

-----------------------------------------------------------------------------
(* Listings                                                                *)

\* List t begins with the items of s, whatever has become of their mounts.
SameIds(s, t) == DOMAIN s \subseteq DOMAIN t /\ \A i \in DOMAIN s : t[i].id = s[i].id

\* What a step does to the lists when it takes no partition off its list.
Growing ==
    /\ DOMAIN registry \subseteq DOMAIN registry' /\ \A i \in DOMAIN registry : registry'[i] = registry[i]
    /\ \A e \in Range(registry) :
          /\ part'[e].uuid = part[e].uuid
          /\ \A l \in Lists : SameIds(part[e].list[l], part'[e].list[l])

\* A step that keeps the list and what is on it.
LEMMA SameListed ==
    ASSUME registry' = registry, \A e \in Range(registry) : part'[e] = part[e]
    PROVE  Growing
BY Zenon DEF Growing, SameIds

\* A step that changes one entry, whose lists only grow.
LEMMA OneListed ==
    ASSUME TypeOK, registry' = registry, NEW e \in DOMAIN part, Only(e),
           \A l \in Lists : SameIds(part[e].list[l], part'[e].list[l])
    PROVE  Growing
<1>1. \A d \in Range(registry) : d \in DOMAIN part
  BY ListFacts, Zenon
<1>2. \A d \in DOMAIN part : d # e => part'[d] = part[d]
  BY Zenon DEF Only
<1>3. part'[e].uuid = part[e].uuid
  BY Zenon DEF Only
<1>4. ASSUME NEW d \in Range(registry)
      PROVE  part'[d].uuid = part[d].uuid /\ \A l \in Lists : SameIds(part[d].list[l], part'[d].list[l])
  <2>1. CASE d = e
    BY <1>3, <2>1, Zenon
  <2>2. CASE d # e
    <3>1. part'[d] = part[d]
      BY <1>1, <1>2, <2>2, Zenon
    <3> QED
      BY <3>1, Zenon DEF SameIds
  <2> QED
    BY <2>1, <2>2, Zenon
<1> QED
  BY <1>4, Zenon DEF Growing

\* Taking an id changes no list.
LEMMA AllocateGrows ==
    ASSUME IInv, NEW p \in Procs, Allocate(p)
    PROVE  Growing
<1> DEFINE e == req[p].entry
           l == ListOf(req[p].op)
<1>1. /\ TypeOK /\ HoldInv /\ req[p].at = "allocate" /\ registry' = registry
      /\ part' = [part EXCEPT ![e].next[l] = @ + 1]
  BY Zenon DEF IInv, Allocate
<1>2. req[p].at \in {"allocate", "add", "reply"}
  BY <1>1
<1>3. req[p].op \in Adding
  BY <1>1, <1>2, AtFacts, Zenon DEF HoldInv, Sound
<1>4. req[p].op \in Working /\ l \in Lists
  BY <1>3, WorkFacts, Zenon
<1>5. e \in DOMAIN part
  BY <1>1, <1>4, Worker, Zenon
<1>6. Only(e) /\ part'[e].list = part[e].list
  <2> HIDE DEF e, l
  <2> QED
    BY <1>1, <1>4, <1>5, NextFacts, Zenon
<1> QED
  BY <1>1, <1>5, <1>6, OneListed, Zenon DEF SameIds

\* A new item comes last.
LEMMA AddGrows ==
    ASSUME IInv, NEW p \in Procs, Add(p)
    PROVE  Growing
<1> DEFINE e == req[p].entry
           l == ListOf(req[p].op)
           id == req[p].id
           old == part[e].list[l]
           s == Append(old, Item(id))
<1>1. /\ TypeOK /\ HoldInv /\ req[p].at = "add" /\ registry' = registry
      /\ part' = [part EXCEPT ![e].list[l] = Append(@, Item(id))]
  BY Zenon DEF IInv, Add
<1>2. req[p].at \in {"allocate", "add", "reply"}
  BY <1>1, Zenon
<1>3. req[p].op \in Adding
  BY <1>1, <1>2, AtFacts, Zenon DEF HoldInv, Sound
<1>4. req[p].op \in Working /\ l \in Lists
  BY <1>3, WorkFacts, Zenon
<1>5. e \in DOMAIN part /\ part[e] \in Entries /\ req[p] \in Requests
  BY <1>1, <1>4, Worker, Zenon
<1>6. Item(id) \in Items
  <2>1. id \in Nat
    BY <1>5 DEF Requests
  <2> QED
    BY <2>1 DEF Item, Items
<1>7. old \in Seq(Items)
  BY <1>4, <1>5, ItemFacts, Zenon
<1>8. s \in Seq(Items) /\ DOMAIN old \subseteq DOMAIN s /\ \A i \in DOMAIN old : s[i] = old[i]
  <2> HIDE DEF old, id
  <2> QED
    BY <1>6, <1>7
<1>9. /\ Only(e) /\ part'[e].list[l] = s
       /\ \A k \in Lists : k # l => part'[e].list[k] = part[e].list[k]
  <2>1. part' = [part EXCEPT ![e] = [part[e] EXCEPT !.list = [part[e].list EXCEPT ![l] = s]]]
    BY <1>1, Zenon
  <2>2. s \in Seq(Items)
    BY <1>8, Zenon
  <2>3. TypeOK /\ e \in DOMAIN part /\ l \in Lists
    BY <1>1, <1>4, <1>5, Zenon
  <2> HIDE DEF e, l, s
  <2> QED
    BY <2>1, <2>2, <2>3, SetListFacts, Zenon
<1> HIDE DEF e, l, s
<1>10. ASSUME NEW k \in Lists PROVE SameIds(part[e].list[k], part'[e].list[k])
  BY <1>8, <1>9, Zenon DEF SameIds
<1> QED
  BY <1>1, <1>5, <1>9, <1>10, OneListed, Zenon

\* Writing to an image keeps its id and its place.
LEMMA SetImageGrows ==
    ASSUME IInv, NEW p \in Procs,
           req[p].at \in {"record", "told", "clear"} \/ (req[p].op = "umount" /\ req[p].at = "emit"),
           NEW item \in Items, item.id = req[p].id, NEW at, SetImage(p, item, at)
    PROVE  Growing
<1> DEFINE e == req[p].entry
           k == Place(p)
           old == part[e].list["images"]
<1>1. /\ TypeOK /\ HoldInv /\ IdInv /\ registry' = registry
      /\ part' = [part EXCEPT ![e].list["images"][k] = item]
  BY Zenon DEF IInv, SetImage
<1>2. req[p].op \in Working
  <2>1. req[p].op \in {"mount", "umount"}
    BY ImageFacts, Zenon
  <2> QED
    BY <2>1, WorkFacts
<1>3. e \in DOMAIN part
  BY <1>1, <1>2, Worker, Zenon
<1>4. HasId(old, req[p].id)
  BY <1>1, Zenon DEF IdInv, Holds
<1>5. k \in DOMAIN old /\ old[k].id = req[p].id
  BY <1>4, PlaceOf, Zenon DEF ImageOf
<1>6. \A l \in Lists : l = "images" \/ l = "subvols"
  BY DEF Lists
<1>7. /\ Only(e) /\ part'[e].list["subvols"] = part[e].list["subvols"]
      /\ DOMAIN part'[e].list["images"] = DOMAIN old
      /\ part'[e].list["images"][k] = item
      /\ \A i \in DOMAIN old : i # k => part'[e].list["images"][i] = old[i]
  <2> HIDE DEF e, k
  <2> QED
    BY <1>1, <1>3, <1>5, SetItemFacts, Zenon
<1>8. SameIds(old, part'[e].list["images"])
  BY <1>5, <1>7, Zenon DEF SameIds
<1>9. SameIds(part[e].list["subvols"], part'[e].list["subvols"])
  BY <1>7, Zenon DEF SameIds
<1> QED
  BY <1>1, <1>3, <1>6, <1>7, <1>8, <1>9, OneListed, Zenon

\* The steps of mounts and unmounts.
LEMMA ImageStepGrows ==
    ASSUME IInv, NEW p \in Procs, RecordMount(p) \/ EmitMount(p) \/ EmitUmount(p) \/ ClearMount(p)
    PROVE  Growing
<1> DEFINE old == ImageOf(p)
           mp == req[p].mount
           o == Overlaps(p)
<1>1. req[p].at \in {"record", "told", "clear"} \/ (req[p].op = "umount" /\ req[p].at = "emit")
  BY DEF RecordMount, EmitMount, EmitUmount, ClearMount
<1>2. old \in Items /\ old.id = req[p].id /\ mp \in MountPoints \cup {NoMount}
  BY <1>1, ImageFacts, Zenon
<1>3. CASE RecordMount(p)
  <2> DEFINE item == [old EXCEPT !.mount = mp, !.clash = @ \/ o]
  <2>1. SetImage(p, item, "told")
    BY <1>3, Zenon DEF RecordMount
  <2>2. item \in Items /\ item.id = old.id
    <3> HIDE DEF old, mp, o
    <3> QED
      BY <1>2, Zenon DEF Items
  <2> HIDE DEF item, old
  <2> QED
    BY <1>1, <1>2, <2>1, <2>2, SetImageGrows, Zenon
<1>4. CASE EmitMount(p)
  <2> DEFINE item == [old EXCEPT !.told = mp]
  <2>1. SetImage(p, item, "idle")
    BY <1>4, Zenon DEF EmitMount
  <2>2. item \in Items /\ item.id = old.id
    <3> HIDE DEF old, mp, o
    <3> QED
      BY <1>2 DEF Items
  <2> HIDE DEF item, old
  <2> QED
    BY <1>1, <1>2, <2>1, <2>2, SetImageGrows, Zenon
<1>5. CASE EmitUmount(p)
  <2> DEFINE item == [old EXCEPT !.told = NoMount, !.clash = @ \/ o]
  <2>1. SetImage(p, item, "clear")
    BY <1>5, Zenon DEF EmitUmount
  <2>2. item \in Items /\ item.id = old.id
    <3> HIDE DEF old, mp, o
    <3> QED
      BY <1>2, Zenon DEF Items
  <2> HIDE DEF item, old
  <2> QED
    BY <1>1, <1>2, <2>1, <2>2, SetImageGrows, Zenon
<1>6. CASE ClearMount(p)
  <2> DEFINE item == [old EXCEPT !.mount = NoMount]
  <2>1. SetImage(p, item, "idle")
    BY <1>6, Zenon DEF ClearMount
  <2>2. item \in Items /\ item.id = old.id
    <3> HIDE DEF old, mp, o
    <3> QED
      BY <1>2 DEF Items
  <2> HIDE DEF item, old
  <2> QED
    BY <1>1, <1>2, <2>1, <2>2, SetImageGrows, Zenon
<1> QED
  BY <1>3, <1>4, <1>5, <1>6, Zenon

\* The steps on entries: a partition goes off its list, or none does.
LEMMA EntryStepGrows ==
    ASSUME IInv, NEW p \in Procs,
           \/ EmitRemoved(p)
           \/ \E u \in Uuids : Unregister(p, u) \/ \E kind \in Kinds : Register(p, u, kind)
           \/ \E b \in BlendPoints : BlendMount(p, b) \/ BlendUmount(p, b)
    PROVE  Growing \/ ~(Range(registry) \subseteq Range(registry'))
<1>1. TypeOK /\ HoldInv /\ Range(registry) \subseteq DOMAIN part
  BY ListFacts, Zenon DEF IInv
<1>2. \A kind \in Kinds : kind \in Kinds \cup {"mount"}
  BY Zenon
<1>3. CASE EmitRemoved(p)
  <2>1. /\ req[p].op = "unregister" /\ registry' = registry
        /\ part' = [part EXCEPT ![req[p].entry] = Freed(@)]
    BY <1>3, Zenon DEF EmitRemoved, Destroy
  <2>2. req[p].op \notin {"none", "register", "blend"}
    BY <2>1
  <2>3. req[p].entry \in DOMAIN part /\ req[p].entry \notin Range(registry)
    BY <1>1, <2>1, <2>2, Zenon DEF HoldInv, Sound, TypeOK
  <2>4. \A d \in DOMAIN part : d # req[p].entry => part'[d] = part[d]
    BY <1>1, <2>1, <2>3, FreedFacts, Zenon DEF Only
  <2> QED
    BY <1>1, <2>1, <2>3, <2>4, SameListed, Zenon
<1>4. ASSUME NEW u \in Uuids, Unregister(p, u) PROVE ~(Range(registry) \subseteq Range(registry'))
  <2>1. /\ Registered(u) /\ registry' = Delete(registry, Position(u)) /\ UNCHANGED <<part, blends>>
    BY <1>4, Zenon DEF Unregister, RemoveEntry
  <2>2. Unlisted(u) /\ Only(Find(u)) /\ u \in Objects
    BY <1>1, <2>1, Apart, Zenon DEF Unlisted, Only, TypeOK
  <2>3. Find(u) \notin Range(registry')
    BY <1>1, <2>1, <2>2, ShrunkLists, Zenon
  <2>4. Find(u) \in Range(registry)
    BY <1>1, <2>1, Search, Zenon DEF EntriesFor
  <2> QED
    BY <2>3, <2>4, Zenon
<1>5. ASSUME NEW u \in Uuids, NEW kind \in Kinds, Register(p, u, kind) PROVE Growing
  <2>1. part' = Append(part, NewEntry(u, kind)) /\ registry' = Append(registry, Len(part) + 1)
    BY <1>5, Zenon DEF Register, AddEntry
  <2>2. /\ \A e \in DOMAIN part : part'[e] = part[e]
        /\ DOMAIN part' = DOMAIN part \cup {Len(part) + 1}
    BY <1>1, <1>2, <2>1, NewFacts, Apart, Zenon
  <2>3. registry \in Seq(Nat) /\ Len(part) + 1 \in Nat
    <3>1. registry \in Seq(DOMAIN part) /\ DOMAIN part = 1 .. Len(part) /\ Len(part) \in Nat
      BY <1>1, ListFacts, Zenon DEF TypeOK
    <3> QED
      BY <3>1
  <2>4. DOMAIN registry \subseteq DOMAIN registry' /\ \A i \in DOMAIN registry : registry'[i] = registry[i]
    BY <2>1, <2>3, AppendFacts
  <2> QED
    BY <1>1, <2>2, <2>4, Zenon DEF Growing, SameIds
<1>6. ASSUME NEW b \in BlendPoints, BlendMount(p, b) PROVE Growing
  <2>1. part' = Append(part, NewEntry(b, "mount")) /\ registry' = registry
    BY <1>6, Zenon DEF BlendMount
  <2>2. b \in Objects /\ "mount" \in Kinds \cup {"mount"}
    BY Zenon DEF Objects
  <2>3. \A e \in DOMAIN part : part'[e] = part[e]
    BY <1>1, <2>1, <2>2, NewFacts, Zenon
  <2> QED
    BY <1>1, <2>1, <2>3, SameListed, Zenon
<1>7. ASSUME NEW b \in BlendPoints, BlendUmount(p, b) PROVE Growing
  <2>1. Registered(b) /\ registry' = registry /\ part' = [part EXCEPT ![Find(b)] = Freed(@)]
    BY <1>7, Zenon DEF BlendUmount
  <2>2. Find(b) \in DOMAIN part /\ part[Find(b)].uuid = b
    BY <1>1, <2>1, Search, Zenon
  <2>3. Find(b) \notin Range(registry)
    <3>1. b \notin Uuids
      BY RegistryAssumption
    <3> QED
      BY <1>1, <2>2, <3>1, Zenon DEF HoldInv
  <2>4. \A d \in DOMAIN part : d # Find(b) => part'[d] = part[d]
    BY <1>1, <2>1, <2>2, FreedFacts, Zenon DEF Only
  <2> QED
    BY <1>1, <2>1, <2>3, <2>4, SameListed, Zenon
<1> QED
  BY <1>3, <1>4, <1>5, <1>6, <1>7, Zenon

\* Every step, unless it takes a partition off the list.
LEMMA NextGrows ==
    ASSUME IInv, [Next]_vars
    PROVE  Growing \/ ~(Range(registry) \subseteq Range(registry'))
<1>1. ASSUME registry' = registry, part' = part PROVE Growing
  BY <1>1, SameListed, Zenon
<1>2. CASE UNCHANGED vars
  BY <1>1, <1>2, Zenon DEF vars
<1>3. CASE Reload
  <2>1. registry' = <<>>
    BY <1>3, Zenon DEF Reload
  <2>2. Range(<<>>) = {}
    BY DEF Range
  <2>3. Range(registry) = {} => DOMAIN registry = {}
    BY Zenon DEF Range
  <2>4. DOMAIN registry = {} /\ Range(registry) = {} => Growing
    BY Zenon DEF Growing
  <2> QED
    BY <2>1, <2>2, <2>3, <2>4, Zenon
<1>4. ASSUME NEW p \in Procs, Step(p), ~EmitRemoved(p) PROVE Growing
  <2>1. CASE EmitAdded(p) \/ FindImage(p) \/ NoMemory(p) \/ Announce(p)
    BY <1>1, <2>1, Zenon DEF EmitAdded, FindImage, NoMemory, Announce
  <2> QED
    BY <1>4, <2>1, AllocateGrows, AddGrows, ImageStepGrows, Zenon DEF Step
<1>5. ASSUME NEW p \in Procs, NEW u \in Uuids, PartitionOps(p, u), ~Unregister(p, u),
             ~\E kind \in Kinds : Register(p, u, kind)
      PROVE  Growing
  BY <1>1, <1>5, Zenon DEF PartitionOps, Export, Store, Import, Snapshot, Umount, Mount, Begin
<1> QED
  BY <1>2, <1>3, <1>4, <1>5, EntryStepGrows, Zenon DEF Next

\* The search finds the same entry in a list that grew.
LEMMA GrowingFound ==
    ASSUME TypeOK, HoldInv, TypeOK', HoldInv', Growing, NEW u \in Uuids, Registered(u)
    PROVE  Find(u)' = Find(u)
<1>1. EntriesFor(u) = registry /\ EntriesFor(u)' = registry'
  BY Zenon DEF EntriesFor
<1>2. PICK i \in DOMAIN registry : registry[i] = Find(u)
  BY <1>1, Search, Zenon
<1>3. Find(u) \in Range(registry) /\ part[Find(u)].uuid = u
  BY <1>1, Search, Zenon
<1>4. /\ DOMAIN registry = 1 .. Len(registry) /\ Len(registry) \in Nat
      /\ DOMAIN registry' = 1 .. Len(registry') /\ Len(registry') \in Nat
      /\ registry \in Seq(Nat) /\ registry' \in Seq(Nat)
  <2>1. registry \in Seq(DOMAIN part) /\ registry' \in Seq(DOMAIN part')
        /\ part \in Seq(Entries) /\ part' \in Seq(Entries)
    BY Zenon DEF TypeOK
  <2> HIDE DEF Entries
  <2>2. DOMAIN part \subseteq Nat /\ DOMAIN part' \subseteq Nat
    BY <2>1
  <2> QED
    BY <2>1, <2>2
<1>5. Find(u) \in Range(registry') /\ part'[Find(u)].uuid = u /\ registry'[i] = Find(u) /\ i \in DOMAIN registry'
  BY <1>2, <1>3, Zenon DEF Growing, Range
<1>6. ASSUME NEW d \in Range(registry'), part'[d].uuid = u
      PROVE  Here(d, u) \/ (d \in Nat /\ Find(u) <= d)
  <2>1. PICK j \in DOMAIN registry' : registry'[j] = d
    BY <1>6, Zenon DEF Range
  <2>2. CASE j \in DOMAIN registry
    <3>1. registry[j] = d /\ d \in Range(registry)
      BY <2>1, <2>2, Zenon DEF Growing, Range
    <3>2. part[d].uuid = u
      BY <1>6, <3>1, Zenon DEF Growing
    <3> QED
      BY <1>1, <3>1, <3>2, Zenon DEF Here
  <2>3. CASE j \notin DOMAIN registry
    <3>1. i < j
      BY <1>2, <1>4, <2>1, <2>3
    <3>2. registry'[i] < registry'[j]
      BY <1>5, <2>1, <3>1, Zenon DEF HoldInv, Ascending
    <3> QED
      BY <1>4, <1>5, <2>1, <3>2
  <2> QED
    BY <2>2, <2>3, Zenon
<1> QED
  BY <1>1, <1>5, <1>6, KeptFound, Zenon

\* A part of the list up to the old length is the old list.
LEMMA SamePart ==
    ASSUME NEW S, NEW s \in Seq(S), NEW T, NEW t \in Seq(T), DOMAIN s \subseteq DOMAIN t
    PROVE  {i \in DOMAIN t : i <= Len(s)} = {i \in DOMAIN s : i <= Len(s)}
<1>1. DOMAIN s = 1 .. Len(s) /\ DOMAIN t = 1 .. Len(t) /\ Len(s) \in Nat /\ Len(t) \in Nat
  OBVIOUS
<1> QED
  BY <1>1

\* Two listings, the first for the number of entries, as the policy scan makes
\* them: bdfs_list_partitions, bdfs_dwarfs_list_images and
\* bdfs_btrfs_list_subvols give at the second call what was there at the
\* first, with any exports, mounts and registrations in between.
THEOREM ListingIsStable == Spec => TwoCallListing
<1>1. ASSUME IInv, IInv', [Next]_vars, Range(registry) \subseteq Range(registry')
      PROVE  /\ \A n \in {ListPartitions(0).total} :
                   ListPartitions(n)'.copied = ListPartitions(n).copied
             /\ \A u \in Uuids, l \in Lists : Registered(u) =>
                   \A n \in {ListItems(u, l, 0).total} :
                      ListItems(u, l, n)'.copied = ListItems(u, l, n).copied
  <2>1. TypeOK /\ HoldInv /\ TypeOK' /\ HoldInv' /\ Growing
    BY <1>1, NextGrows, Zenon DEF IInv
  <2>2. ASSUME NEW n \in {ListPartitions(0).total}
        PROVE  ListPartitions(n)'.copied = ListPartitions(n).copied
    <3>1. registry \in Seq(DOMAIN part) /\ registry' \in Seq(DOMAIN part')
      BY <2>1, Zenon DEF TypeOK
    <3>2. n = Len(registry)
      BY <2>2 DEF ListPartitions
    <3>3. {i \in DOMAIN registry' : i <= n} = {i \in DOMAIN registry : i <= n}
      BY <2>1, <3>1, <3>2, SamePart, Zenon DEF Growing
    <3>4. \A i \in DOMAIN registry : registry'[i] = registry[i]
      BY <2>1, Zenon DEF Growing
    <3>5. /\ ListPartitions(n).copied = [i \in {i \in DOMAIN registry : i <= n} |-> registry[i]]
          /\ ListPartitions(n)'.copied = [i \in {i \in DOMAIN registry' : i <= n} |-> registry'[i]]
      BY DEF ListPartitions
    <3> QED
      BY <3>3, <3>4, <3>5, Zenon
  <2>3. ASSUME NEW u \in Uuids, NEW l \in Lists, Registered(u), NEW n \in {ListItems(u, l, 0).total}
        PROVE  ListItems(u, l, n)'.copied = ListItems(u, l, n).copied
    <3>1. PICK e : e = Find(u)
      BY Zenon
    <3>2. Find(u)' = e
      BY <2>1, <2>3, <3>1, GrowingFound, Zenon
    <3>3. e \in DOMAIN part /\ e \in Range(registry)
      BY <2>1, <2>3, <3>1, Search, Zenon DEF EntriesFor
    <3>4. e \in DOMAIN part'
      <4>1. PICK i \in DOMAIN registry : registry[i] = e
        BY <3>3, Zenon DEF Range
      <4>2. registry' \in Seq(DOMAIN part') /\ i \in DOMAIN registry' /\ registry'[i] = e
        BY <2>1, <4>1, Zenon DEF TypeOK, Growing
      <4> QED
        BY <4>2
    <3>5. PICK s : s = part[e].list[l]
      BY Zenon
    <3>6. PICK t : t = part'[e].list[l]
      BY Zenon
    <3>7. s \in Seq(Items) /\ t \in Seq(Items)
      <4>1. part \in Seq(Entries) /\ part' \in Seq(Entries)
        BY <2>1, Zenon DEF TypeOK
      <4>2. part[e] \in Entries /\ part'[e] \in Entries
        BY <3>3, <3>4, <4>1
      <4> QED
        BY <2>3, <3>5, <3>6, <4>2, ItemFacts, Zenon
    <3>8. n = Len(s)
      BY <2>3, <3>1, <3>5 DEF ListItems
    <3>9. DOMAIN s \subseteq DOMAIN t /\ \A i \in DOMAIN s : t[i].id = s[i].id
      BY <2>1, <2>3, <3>3, <3>5, <3>6, Zenon DEF Growing, SameIds
    <3>10. {i \in DOMAIN t : i <= n} = {i \in DOMAIN s : i <= n}
      BY <3>7, <3>8, <3>9, SamePart, Zenon
    <3>11. /\ ListItems(u, l, n).copied = [i \in {i \in DOMAIN s : i <= n} |-> s[i].id]
           /\ ListItems(u, l, n)'.copied = [i \in {i \in DOMAIN t : i <= n} |-> t[i].id]
      BY <3>1, <3>2, <3>5, <3>6 DEF ListItems
    <3> QED
      BY <3>9, <3>10, <3>11, Zenon
  <2> QED
    BY <2>2, <2>3, Zenon
<1> QED
  BY <1>1, NextKeeps, RegistryInvariance, PTL DEF Spec, TwoCallListing
=============================================================================

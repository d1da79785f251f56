------------------------ MODULE LinuxfsMountsProofs ------------------------
(***************************************************************************)
(* Proofs about LinuxfsMounts, for any number of commands, devices and     *)
(* ports.                                                                  *)
(*                                                                         *)
(* Until two updates of mounts.json overlap or one is cut short, a single  *)
(* command at a time is between its load and its save, and both the file   *)
(* and that command's slice hold every active mount.  A port has one VM at *)
(* most, so that a teardown script that gets through reaches the VM of the *)
(* record, or one whose VM is gone needs none; and a share that was closed *)
(* and a file system that was unmounted stay so.                           *)
(***************************************************************************)
EXTENDS LinuxfsMounts, WellFoundedInduction, NaturalsInduction, TLAPS

\* Where a mount is before it has loaded mounts.json to add its record.
Before == {"idle", "boot", "setup", "load"}

Writing(c) == pc[c] \in {"writeAdd", "writeDel"}

\* A slice is in scope only between a load and a save, has no record twice,
\* and holds only records of mounts that came to adding theirs.
SliceInv ==
    /\ \A c \in Commands : IsInjective(mem[c])
    /\ \A c \in Commands : mem[c] # <<>> => Updating(c)
    /\ \A m \in Mounts : pc[m] \in Before =>
          m \notin Range(file.recs) /\ \A c \in Commands : m \notin Range(mem[c])
    /\ \A m \in Mounts : pc[m] \in {"truncAdd", "writeAdd"} => m \in Range(mem[m])
    /\ \A m \in Mounts : pc[m] \in {"truncDel", "writeDel"} => m \notin Range(mem[m])

\* Without a race one command at a time updates the file: the file is cut
\* short only while that command writes it, a record that was taken out is in
\* no slice, and an active mount is in the file and in the slice.
RaceInv ==
    ~raced =>
        /\ \A c, d \in Commands : Updating(c) /\ Updating(d) => c = d
        /\ \A c \in Commands : Writing(c) => file.st = "empty"
        /\ file.st # "ok" => \E c \in Commands : Writing(c)
        /\ \A m \in Mounts : pc[m] \in {"stop", "done"} =>
              m \notin Range(file.recs) /\ \A c \in Commands : m \notin Range(mem[c])
        /\ \A m \in Mounts : Active(m) =>
              /\ file.st = "ok" => m \in Range(file.recs)
              /\ \A c \in Commands : Updating(c) => m \in Range(mem[c])

\* The record that an unmount found is of its device, and of a mount that has
\* set up its VM.
RecInv ==
    /\ \A u \in Unmounts : rec[u] # NoMount =>
          DeviceOf[rec[u]] = DeviceOf[u] /\ pc[rec[u]] \notin Before
    /\ \A u \in Unmounts : pc[u] \in {"hostUnmount", "teardown", "kill"} => rec[u] # NoMount

\* The teardown of m has closed its share, and unmounted its file system.
Closed(m) == ~share[m] \/ m \in warned
Torn(m) == m \in warned \/ vm[m] # "on" \/ fs[m] \notin {"mounted", "lazy"}

\* One VM at most answers on a port, and whoever gets to killing a VM has torn
\* it down before.
VMInv ==
    /\ \A m, n \in Mounts : vm[m] = "on" /\ vm[n] = "on" /\ PortOf[m] = PortOf[n] => m = n
    /\ \A m \in Mounts : fs[m] = "lazy" => share[m]
    /\ \A m \in Mounts : pc[m] = "done" => vm[m] # "on"
    /\ \A m \in Mounts : pc[m] = "teardown" => Closed(m)
    /\ \A m \in Mounts : pc[m] \in {"loadDel", "truncDel", "writeDel", "stop"} => Torn(m)
    /\ \A u \in Unmounts : pc[u] = "teardown" => Closed(rec[u])
    /\ \A u \in Unmounts : pc[u] = "kill" => Torn(rec[u])
    /\ LostOnlyWarned

IInv == TypeOK /\ SliceInv /\ RaceInv /\ RecInv /\ VMInv

-----------------------------------------------------------------------------
(* Lists of records                                                        *)

Below == {ss \in Nat \X Nat : ss[1] < ss[2]}

\* A nonempty set of natural numbers has a least element.
LEMMA LeastNat ==
    ASSUME NEW T \in SUBSET Nat, NEW e \in T
    PROVE  \E n \in T : \A m \in T : n <= m
<1>1. OpToRel(<, Nat) = Below
  BY Zenon DEF OpToRel, Below
<1>2. IsWellFoundedOn(Below, Nat)
  BY <1>1, NatLessThanWellFounded, Zenon
<1>3. PICK n \in T : \A m \in T : ~(<<m, n>> \in Below)
  BY <1>2, WFMin, Zenon
<1>4. ASSUME NEW m \in T PROVE n <= m
  <2>1. m \in Nat /\ n \in Nat /\ <<m, n>> \notin Below
    BY <1>3, <1>4, Zenon
  <2> QED
    BY <2>1 DEF Below
<1> QED
  BY <1>4, Zenon

\* Induction, for a set of natural numbers.
LEMMA Induction ==
    ASSUME NEW T \in SUBSET Nat, 0 \in T, \A k \in T : k + 1 \in T, NEW n \in Nat
    PROVE  n \in T
<1> SUFFICES ASSUME n \notin T PROVE FALSE
  BY Zenon
<1>1. PICK k \in Nat \ T : \A m \in Nat \ T : k <= m
  BY LeastNat, Zenon
<1>2. k - 1 \in Nat /\ k = (k - 1) + 1 /\ ~(k <= k - 1)
  BY <1>1
<1> QED
  BY <1>1, <1>2, Zenon

\* One round of the loop of Kept.
KeptStep(recs, S, f, i) ==
    IF i = 0 THEN <<>>
    ELSE IF recs[i] \in S THEN Append(f[i - 1], recs[i])
    ELSE f[i - 1]

\* The loop of Kept computes something for every list.
LEMMA KeptExists ==
    ASSUME NEW recs, NEW S, NEW n \in Nat
    PROVE  \E f : f = [i \in 0..n |-> KeptStep(recs, S, f, i)]
<1> DEFINE T == {k \in Nat : \E f : f = [i \in 0..k |-> KeptStep(recs, S, f, i)]}
<1>1. ASSUME NEW k \in T PROVE k + 1 \in T
  <2>1. PICK f : f = [i \in 0..k |-> KeptStep(recs, S, f, i)]
    BY <1>1, Zenon
  <2> DEFINE g == [i \in 0..(k + 1) |-> IF i = k + 1 THEN KeptStep(recs, S, f, i) ELSE f[i]]
  <2>2. \A i \in 0..(k + 1) : KeptStep(recs, S, f, i) = KeptStep(recs, S, g, i)
    BY DEF KeptStep
  <2>3. \A i \in 0..k : f[i] = KeptStep(recs, S, f, i)
    BY <2>1, Zenon
  <2>4. \A i \in 0..(k + 1) : i = k + 1 \/ i \in 0..k
    OBVIOUS
  <2>5. g = [i \in 0..(k + 1) |-> KeptStep(recs, S, g, i)]
    BY <2>2, <2>3, <2>4, Zenon
  <2>6. k + 1 \in Nat
    OBVIOUS
  <2> QED
    BY <2>5, <2>6, Zenon
<1>2. 0 \in T
  <2>1. [i \in 0..0 |-> <<>>] = [i \in 0..0 |-> KeptStep(recs, S, [j \in 0..0 |-> <<>>], i)]
    BY DEF KeptStep
  <2> QED
    BY <2>1, Zenon
<1>3. T \in SUBSET Nat
  BY Zenon
<1> HIDE DEF T
<1>4. n \in T
  BY <1>1, <1>2, <1>3, Induction, Zenon
<1> QED
  BY <1>4, Zenon DEF T

\* Appending a record.
LEMMA AppendFacts ==
    ASSUME NEW M, NEW t \in Seq(M), NEW x \in M
    PROVE  /\ Append(t, x) \in Seq(M) /\ Range(Append(t, x)) = Range(t) \cup {x}
           /\ IsInjective(t) /\ x \notin Range(t) => IsInjective(Append(t, x))
<1>1. /\ Append(t, x) \in Seq(M) /\ DOMAIN Append(t, x) = DOMAIN t \cup {Len(t) + 1}
      /\ Append(t, x)[Len(t) + 1] = x /\ \A i \in DOMAIN t : Append(t, x)[i] = t[i]
  OBVIOUS
<1>2. Range(Append(t, x)) = Range(t) \cup {x}
  BY <1>1, Zenon DEF Range
<1>3. IsInjective(t) /\ x \notin Range(t) => IsInjective(Append(t, x))
  BY <1>1, Zenon DEF Range, IsInjective
<1> QED
  BY <1>1, <1>2, <1>3, Zenon

\* The loop keeps the records of S, and no record twice.
LEMMA KeptFacts ==
    ASSUME NEW M, NEW recs \in Seq(M), NEW S
    PROVE  /\ Kept(recs, S) \in Seq(M) /\ Range(Kept(recs, S)) = Range(recs) \cap S
           /\ IsInjective(recs) => IsInjective(Kept(recs, S))
<1>1. Len(recs) \in Nat /\ DOMAIN recs = 1..Len(recs) /\ \A i \in 1..Len(recs) : recs[i] \in M
  OBVIOUS
<1> DEFINE F == CHOOSE f : f = [i \in 0..Len(recs) |->
                IF i = 0 THEN <<>>
                ELSE IF recs[i] \in S THEN Append(f[i - 1], recs[i])
                ELSE f[i - 1]]
<1>2. Kept(recs, S) = F[Len(recs)]
  BY Zenon DEF Kept
<1>3. F = [i \in 0..Len(recs) |->
              IF i = 0 THEN <<>>
              ELSE IF recs[i] \in S THEN Append(F[i - 1], recs[i])
              ELSE F[i - 1]]
  <2>1. \E f : f = [i \in 0..Len(recs) |->
                IF i = 0 THEN <<>>
                ELSE IF recs[i] \in S THEN Append(f[i - 1], recs[i])
                ELSE f[i - 1]]
    <3>1. PICK f : f = [i \in 0..Len(recs) |-> KeptStep(recs, S, f, i)]
      BY <1>1, KeptExists, Zenon
    <3>2. f = [i \in 0..Len(recs) |->
                IF i = 0 THEN <<>>
                ELSE IF recs[i] \in S THEN Append(f[i - 1], recs[i])
                ELSE f[i - 1]]
      BY <3>1, Zenon DEF KeptStep
    <3> QED
      BY <3>2, Zenon
  <2> QED
    BY <2>1, Zenon
<1> HIDE DEF F
<1>4. F[0] = <<>> /\ \A i \in 1..Len(recs) :
        F[i] = IF recs[i] \in S THEN Append(F[i - 1], recs[i]) ELSE F[i - 1]
  <2>1. \A i \in 0..Len(recs) : F[i] = IF i = 0 THEN <<>>
              ELSE IF recs[i] \in S THEN Append(F[i - 1], recs[i]) ELSE F[i - 1]
    BY <1>3, Zenon
  <2>2. 0 \in 0..Len(recs) /\ \A i \in 1..Len(recs) : i \in 0..Len(recs) /\ i # 0
    BY <1>1
  <2> QED
    BY <2>1, <2>2, Zenon
<1> DEFINE Seen(k) == {recs[i] : i \in 1..k}
           T == {k \in Nat : k <= Len(recs) =>
                   /\ F[k] \in Seq(M) /\ Range(F[k]) = Seen(k) \cap S
                   /\ IsInjective(recs) => IsInjective(F[k])}
<1>5. 0 \in T
  <2>1. Seen(0) = {}
    OBVIOUS
  <2>2. <<>> \in Seq(M) /\ Range(<<>>) = {} /\ IsInjective(<<>>)
    BY DEF Range, IsInjective
  <2> QED
    BY <1>4, <2>1, <2>2, Zenon
<1>6. ASSUME NEW k \in T PROVE k + 1 \in T
  <2> SUFFICES ASSUME k + 1 <= Len(recs)
               PROVE  /\ F[k + 1] \in Seq(M) /\ Range(F[k + 1]) = Seen(k + 1) \cap S
                      /\ IsInjective(recs) => IsInjective(F[k + 1])
    OBVIOUS
  <2>1. k \in Nat /\ k <= Len(recs) /\ k + 1 \in 1..Len(recs) /\ (k + 1) - 1 = k
    BY <1>1
  <2>2. /\ F[k] \in Seq(M) /\ Range(F[k]) = Seen(k) \cap S
        /\ IsInjective(recs) => IsInjective(F[k])
    BY <2>1, Zenon
  <2>3. F[k + 1] = IF recs[k + 1] \in S THEN Append(F[k], recs[k + 1]) ELSE F[k]
    BY <1>4, <2>1, Zenon
  <2>4. Seen(k + 1) = Seen(k) \cup {recs[k + 1]} /\ recs[k + 1] \in M
    BY <1>1, <2>1
  <2>5. IsInjective(recs) => recs[k + 1] \notin Seen(k)
    BY <1>1, <2>1 DEF IsInjective
  <2> HIDE DEF Seen, T
  <2>6. CASE recs[k + 1] \in S
    <3>1. F[k + 1] = Append(F[k], recs[k + 1])
      BY <2>3, <2>6, Zenon
    <3>2. /\ Append(F[k], recs[k + 1]) \in Seq(M)
          /\ Range(Append(F[k], recs[k + 1])) = Range(F[k]) \cup {recs[k + 1]}
          /\ IsInjective(F[k]) /\ recs[k + 1] \notin Range(F[k]) => IsInjective(Append(F[k], recs[k + 1]))
      BY <2>2, <2>4, AppendFacts
    <3> QED
      BY <2>2, <2>4, <2>5, <2>6, <3>1, <3>2, Zenon
  <2>7. CASE recs[k + 1] \notin S
    <3>1. F[k + 1] = F[k]
      BY <2>3, <2>7, Zenon
    <3> QED
      BY <2>2, <2>4, <2>7, <3>1, Zenon
  <2> QED
    BY <2>6, <2>7, Zenon
<1>7. T \in SUBSET Nat
  BY Zenon
<1>8. Seen(Len(recs)) = Range(recs)
  BY <1>1, Zenon DEF Range
<1> HIDE DEF T
<1>9. Len(recs) \in T
  BY <1>1, <1>5, <1>6, <1>7, Induction, Zenon
<1> HIDE DEF Seen
<1> QED
  BY <1>1, <1>2, <1>8, <1>9 DEF T

\* An unmount finds a record of its device if there is one.
LEMMA FirstMatchFacts ==
    ASSUME NEW recs \in Seq(Mounts), NEW dev, FirstMatch(recs, dev) # NoMount
    PROVE  FirstMatch(recs, dev) \in Range(recs) /\ DeviceOf[FirstMatch(recs, dev)] = dev
<1> DEFINE match == {i \in DOMAIN recs : DeviceOf[recs[i]] = dev}
<1>1. match # {} /\ FirstMatch(recs, dev) = recs[CHOOSE i \in match : \A j \in match : i <= j]
  BY Zenon DEF FirstMatch
<1>2. match \in SUBSET Nat
  OBVIOUS
<1>3. \E i \in match : \A j \in match : i <= j
  <2> HIDE DEF match
  <2> QED
    BY <1>1, <1>2, LeastNat, Zenon
<1>4. (CHOOSE i \in match : \A j \in match : i <= j) \in match
  BY <1>3, Zenon
<1> QED
  BY <1>1, <1>4, Zenon DEF Range

-----------------------------------------------------------------------------
(* What the steps have in common                                           *)

\* Only the kinds of commands matter.
LEMMA Kinds ==
    /\ Mounts \subseteq Commands /\ Unmounts \subseteq Commands /\ Cleans \subseteq Commands
    /\ \A m \in Mounts : m \notin Unmounts /\ m \notin Cleans
    /\ \A u \in Unmounts : u \notin Cleans
    /\ NoMount \notin Mounts
BY CommandsAssumption, Zenon DEF Commands

\* Command c goes from one place to another, and nobody else moves.
Moves(c, from, to) ==
    /\ pc[c] = from /\ pc'[c] = to
    /\ \A d \in Commands : d # c => pc'[d] = pc[d]

\* A step that neither touches the file nor a slice.
Quiet ==
    /\ UNCHANGED <<file, mem, raced, dropped>>
    /\ \A c \in Commands : (Updating(c)' <=> Updating(c)) /\ (Writing(c)' <=> Writing(c))
    /\ \A m \in Mounts :
          /\ pc'[m] \in Before => pc[m] \in Before
          /\ pc'[m] \in {"truncAdd", "writeAdd"} => pc[m] \in {"truncAdd", "writeAdd"}
          /\ pc'[m] \in {"truncDel", "writeDel"} => pc[m] \in {"truncDel", "writeDel"}
          /\ pc'[m] \in {"stop", "done"} => pc[m] \in {"stop", "done"}
          /\ Active(m)' => Active(m)

\* The moves of the steps that neither touch the file nor a slice.
MountMoves ==
    {<<"idle", "boot">>, <<"idle", "exited">>, <<"boot", "setup">>, <<"boot", "exited">>,
     <<"setup", "load">>, <<"setup", "exited">>, <<"wait", "hostUnmount">>,
     <<"hostUnmount", "teardown">>, <<"teardown", "loadDel">>, <<"stop", "done">>}
UnmountMoves == {<<"hostOnly", "done">>, <<"hostUnmount", "teardown">>, <<"teardown", "kill">>}

\* A move of a mount that loads and saves nothing.
LEMMA MountMove ==
    ASSUME NEW c \in Mounts, NEW from, NEW to, Moves(c, from, to), <<from, to>> \in MountMoves,
           UNCHANGED <<file, mem, raced, dropped>>,
           \A m \in Mounts : vm'[m] = "on" => vm[m] = "on" \/ m = c
    PROVE  Quiet
<1>1. \A d \in Commands : (Updating(d)' <=> Updating(d)) /\ (Writing(d)' <=> Writing(d))
  BY Kinds, Zenon DEF Moves, MountMoves, Updating, Writing
<1>2. \A m \in Mounts : Active(m)' => Active(m)
  BY Kinds, Zenon DEF Moves, MountMoves, Active
<1>3. \A m \in Mounts :
          /\ pc'[m] \in Before => pc[m] \in Before
          /\ pc'[m] \in {"truncAdd", "writeAdd"} => pc[m] \in {"truncAdd", "writeAdd"}
          /\ pc'[m] \in {"truncDel", "writeDel"} => pc[m] \in {"truncDel", "writeDel"}
          /\ pc'[m] \in {"stop", "done"} => pc[m] \in {"stop", "done"}
  BY Kinds, Zenon DEF Moves, MountMoves, Before
<1> QED
  BY <1>1, <1>2, <1>3, Zenon DEF Quiet

\* A move of an unmount between its load and its save, or without a record.
LEMMA UnmountMove ==
    ASSUME NEW c \in Unmounts, NEW from, NEW to, Moves(c, from, to), <<from, to>> \in UnmountMoves,
           UNCHANGED <<file, mem, raced, dropped, vm>>
    PROVE  Quiet
<1>1. \A d \in Commands : (Updating(d)' <=> Updating(d)) /\ (Writing(d)' <=> Writing(d))
  BY Kinds, Zenon DEF Moves, UnmountMoves, Updating, Writing
<1>2. \A m \in Mounts : pc'[m] = pc[m]
  BY Kinds, Zenon DEF Moves
<1>3. \A m \in Mounts : Active(m)' => Active(m)
  BY <1>2, Zenon DEF Active
<1> QED
  BY <1>1, <1>2, <1>3, Zenon DEF Quiet

\* Such steps keep what is known of the file and the slices.
LEMMA QuietKeeps ==
    ASSUME SliceInv, RaceInv, Quiet
    PROVE  SliceInv' /\ RaceInv'
<1>1. SliceInv'
  BY Zenon DEF SliceInv, Quiet
<1>2. RaceInv'
  BY Zenon DEF RaceInv, Quiet
<1> QED
  BY <1>1, <1>2, Zenon

\* A step of c that leaves the file alone, and after which s is its slice: the
\* records it loaded or had, and perhaps its own.
Slices(c, s) ==
    /\ file' = file
    /\ mem'[c] = s /\ IsInjective(s) /\ (s # <<>> => Updating(c)')
    /\ \A d \in Commands : d # c => mem'[d] = mem[d] /\ pc'[d] = pc[d]
    /\ pc'[c] \notin Before /\ pc'[c] \notin {"writeAdd", "writeDel", "wait"}
    /\ \A m \in Range(s) : m \in Range(file.recs) \/ m \in Range(mem[c]) \/ m = c
    /\ c \in Mounts =>
          /\ pc'[c] = "truncAdd" => c \in Range(s)
          /\ pc'[c] = "truncDel" => c \notin Range(s)

\* Without a race it is the one that updates the file, and has lost no active
\* mount.
SlicesAlone(c, s) ==
    /\ ~raced /\ ~Writing(c)
    /\ c \in Mounts => pc'[c] \notin {"stop", "done"}
    /\ Updating(c)' => Updating(c) \/ \A d \in Commands : d # c => ~Updating(d)
    /\ \A m \in Mounts : Active(m)' => Active(m) /\ (Updating(c)' => m \in Range(s))

\* Such steps keep what is known of the file and the slices.
LEMMA SliceKeeps ==
    ASSUME SliceInv, RaceInv, NEW c \in Commands, NEW s, Slices(c, s),
           ~raced' => SlicesAlone(c, s)
    PROVE  SliceInv' /\ RaceInv'
<1>1. \A d \in Commands : d # c => (Updating(d)' <=> Updating(d)) /\ (Writing(d)' <=> Writing(d))
  BY Zenon DEF Slices, Updating, Writing
<1>2. ~Writing(c)'
  BY Zenon DEF Slices, Writing
<1>3. SliceInv'
  <2>1. \A d \in Commands : IsInjective(mem'[d]) /\ (mem'[d] # <<>> => Updating(d)')
    BY <1>1, Zenon DEF SliceInv, Slices
  <2>2. ASSUME NEW m \in Mounts, pc'[m] \in Before
        PROVE  m \notin Range(file'.recs) /\ \A d \in Commands : m \notin Range(mem'[d])
    <3>1. m # c /\ pc'[m] = pc[m]
      BY <2>2, Kinds, Zenon DEF Slices
    <3>2. m \notin Range(file.recs) /\ \A d \in Commands : m \notin Range(mem[d])
      BY <2>2, <3>1, Zenon DEF SliceInv
    <3> QED
      BY <3>1, <3>2, Zenon DEF Slices
  <2>3. ASSUME NEW m \in Mounts
        PROVE  /\ pc'[m] \in {"truncAdd", "writeAdd"} => m \in Range(mem'[m])
               /\ pc'[m] \in {"truncDel", "writeDel"} => m \notin Range(mem'[m])
    <3>1. CASE m = c
      BY <3>1, Zenon DEF Slices
    <3>2. CASE m # c
      BY <3>2, Kinds, Zenon DEF Slices, SliceInv
    <3> QED
      BY <3>1, <3>2, Zenon
  <2> QED
    BY <2>1, <2>2, <2>3, Zenon DEF SliceInv
<1>4. ASSUME ~raced'
      PROVE  /\ \A d, e \in Commands : Updating(d)' /\ Updating(e)' => d = e
             /\ \A d \in Commands : Writing(d)' => file'.st = "empty"
             /\ file'.st # "ok" => \E d \in Commands : Writing(d)'
             /\ \A m \in Mounts : pc'[m] \in {"stop", "done"} =>
                   m \notin Range(file'.recs) /\ \A d \in Commands : m \notin Range(mem'[d])
             /\ \A m \in Mounts : Active(m)' =>
                   /\ file'.st = "ok" => m \in Range(file'.recs)
                   /\ \A d \in Commands : Updating(d)' => m \in Range(mem'[d])
  <2>1. SlicesAlone(c, s) /\ ~raced
    BY <1>4, Zenon DEF SlicesAlone
  <2>2. \A d, e \in Commands : Updating(d)' /\ Updating(e)' => d = e
    BY <1>1, <2>1, Zenon DEF SlicesAlone, RaceInv
  <2>3. /\ \A d \in Commands : Writing(d)' => file'.st = "empty"
        /\ file'.st # "ok" => \E d \in Commands : Writing(d)'
    BY <1>1, <1>2, <2>1, Zenon DEF SlicesAlone, RaceInv, Slices
  <2>4. ASSUME NEW m \in Mounts, pc'[m] \in {"stop", "done"}
        PROVE  m \notin Range(file'.recs) /\ \A d \in Commands : m \notin Range(mem'[d])
    <3>1. m # c /\ pc'[m] = pc[m]
      BY <2>1, <2>4, Kinds, Zenon DEF Slices, SlicesAlone
    <3>2. m \notin Range(file.recs) /\ \A d \in Commands : m \notin Range(mem[d])
      BY <2>1, <2>4, <3>1, Zenon DEF RaceInv
    <3> QED
      BY <3>1, <3>2, Zenon DEF Slices
  <2>5. ASSUME NEW m \in Mounts, Active(m)'
        PROVE  /\ file'.st = "ok" => m \in Range(file'.recs)
               /\ \A d \in Commands : Updating(d)' => m \in Range(mem'[d])
    <3>1. Active(m) /\ (Updating(c)' => m \in Range(s))
      BY <2>1, <2>5, Zenon DEF SlicesAlone
    <3>2. /\ file.st = "ok" => m \in Range(file.recs)
          /\ \A d \in Commands : Updating(d) => m \in Range(mem[d])
      BY <2>1, <3>1, Zenon DEF RaceInv
    <3> QED
      BY <1>1, <3>1, <3>2, Zenon DEF Slices
  <2> QED
    BY <2>2, <2>3, <2>4, <2>5, Zenon
<1>5. RaceInv'
  BY <1>4, Zenon DEF RaceInv
<1> QED
  BY <1>3, <1>5, Zenon

-----------------------------------------------------------------------------
(* Loads and saves                                                         *)

\* loadMounts returns records that are in the file, each once.
LEMMA LoadFacts ==
    ASSUME TypeOK
    PROVE  /\ LoadMounts \in Seq(Mounts) /\ IsInjective(LoadMounts)
           /\ \A m \in Range(LoadMounts) : m \in Range(file.recs)
           /\ file.st = "ok" => LoadMounts = file.recs
           /\ Range(<<>>) = {} /\ IsInjective(<<>>)
BY DEF TypeOK, LoadMounts, Range, IsInjective

\* The places of the command that moves and of the others.
LEMMA GotoFacts ==
    ASSUME TypeOK, NEW c \in Commands, NEW l, Goto(c, l)
    PROVE  pc'[c] = l /\ \A d \in Commands : d # c => pc'[d] = pc[d]
BY Zenon DEF TypeOK, Goto

\* The slice of the command that changes its own, and those of the others.
LEMMA MemFacts ==
    ASSUME TypeOK, NEW c \in Commands, NEW s, mem' = [mem EXCEPT ![c] = s]
    PROVE  mem'[c] = s /\ \A d \in Commands : d # c => mem'[d] = mem[d]
BY Zenon DEF TypeOK

\* The first half of saveMounts.
LEMMA TruncateKeeps ==
    ASSUME TypeOK, SliceInv, RaceInv, NEW c \in Commands, Truncate(c)
    PROVE  SliceInv' /\ RaceInv'
<1>1. /\ pc[c] \in {"truncAdd", "truncDel"} /\ file' = [st |-> "empty", recs |-> <<>>]
      /\ pc'[c] = (IF pc[c] = "truncAdd" THEN "writeAdd" ELSE "writeDel")
      /\ \A d \in Commands : d # c => pc'[d] = pc[d]
      /\ UNCHANGED <<mem, vm, raced, dropped>>
  BY GotoFacts, Zenon DEF Truncate
<1>2. file'.st = "empty" /\ Range(file'.recs) = {}
  BY <1>1 DEF Range
<1>3. \A d \in Commands : Updating(d)' <=> Updating(d)
  BY <1>1, Zenon DEF Updating
<1>4. Updating(c) /\ \A d \in Commands : Writing(d)' => d = c \/ Updating(d)
  BY <1>1, Zenon DEF Updating, Writing
<1>5. \A m \in Mounts :
          /\ pc'[m] \in Before => pc[m] \in Before
          /\ pc'[m] \in {"truncAdd", "writeAdd"} => pc[m] \in {"truncAdd", "writeAdd"}
          /\ pc'[m] \in {"truncDel", "writeDel"} => pc[m] \in {"truncDel", "writeDel"}
          /\ pc'[m] \in {"stop", "done"} => pc[m] \in {"stop", "done"}
          /\ Active(m)' => Active(m)
  BY <1>1, Kinds, Zenon DEF Before, Active
<1>6. Writing(c)'
  BY <1>1, Zenon DEF Writing
<1>7. SliceInv'
  BY <1>1, <1>2, <1>3, <1>5, Zenon DEF SliceInv
<1>8. RaceInv'
  BY <1>1, <1>2, <1>3, <1>4, <1>5, <1>6, Zenon DEF RaceInv
<1> QED
  BY <1>7, <1>8, Zenon

\* The second half: without a race the file is what the command wrote.
LEMMA WriteKeeps ==
    ASSUME TypeOK, SliceInv, RaceInv, NEW c \in Commands, Write(c)
    PROVE  SliceInv' /\ RaceInv'
<1>0. /\ mem' = [mem EXCEPT ![c] = <<>>] /\ Goto(c, AfterSave(c))
      /\ pc[c] \in {"writeAdd", "writeDel"} /\ UNCHANGED <<vm, raced, dropped>>
  BY Zenon DEF Write
<1>1. /\ pc[c] \in {"writeAdd", "writeDel"}
      /\ \A d \in Commands : d # c => pc'[d] = pc[d] /\ mem'[d] = mem[d]
      /\ pc'[c] = AfterSave(c) /\ mem'[c] = <<>>
      /\ UNCHANGED <<vm, raced, dropped>>
  <2>1. pc'[c] = AfterSave(c) /\ \A d \in Commands : d # c => pc'[d] = pc[d]
    BY <1>0, GotoFacts, Zenon
  <2>2. mem'[c] = <<>> /\ \A d \in Commands : d # c => mem'[d] = mem[d]
    BY <1>0, MemFacts, Zenon
  <2> QED
    BY <1>0, <2>1, <2>2, Zenon
<1>2. Updating(c) /\ Writing(c)
  BY <1>1, Zenon DEF Updating, Writing
<1>3. /\ pc'[c] \in {"wait", "stop", "done"}
      /\ c \in Mounts => \/ pc[c] = "writeAdd" /\ pc'[c] = "wait"
                         \/ pc[c] = "writeDel" /\ pc'[c] = "stop"
  BY <1>1, Zenon DEF AfterSave
<1>4. /\ \A d \in Commands : d # c => (Updating(d)' <=> Updating(d)) /\ (Writing(d)' <=> Writing(d))
      /\ ~Updating(c)' /\ ~Writing(c)'
  <2>1. \A d \in Commands : d # c => (Updating(d)' <=> Updating(d)) /\ (Writing(d)' <=> Writing(d))
    BY <1>1, Zenon DEF Updating, Writing
  <2>2. ~Updating(c)' /\ ~Writing(c)'
    BY <1>3, Zenon DEF Updating, Writing
  <2> QED
    BY <2>1, <2>2, Zenon
<1>5. Range(<<>>) = {} /\ IsInjective(<<>>)
  BY LoadFacts, Zenon
<1>6. file' = [st |-> "ok", recs |-> mem[c]] \/ file' = [st |-> "garbled", recs |-> <<>>]
  BY Zenon DEF Write
<1>7. \A m \in Range(file'.recs) : m \in Range(mem[c])
  BY <1>5, <1>6
<1>8. SliceInv'
  <2>1. \A d \in Commands : IsInjective(mem'[d]) /\ (mem'[d] # <<>> => Updating(d)')
    BY <1>1, <1>4, <1>5, Zenon DEF SliceInv
  <2>2. ASSUME NEW m \in Mounts, pc'[m] \in Before
        PROVE  m \notin Range(file'.recs) /\ \A d \in Commands : m \notin Range(mem'[d])
    <3>1. m # c /\ pc'[m] = pc[m]
      BY <1>1, <1>3, <2>2, Kinds, Zenon DEF Before
    <3>2. \A d \in Commands : m \notin Range(mem[d])
      BY <2>2, <3>1, Zenon DEF SliceInv
    <3> QED
      BY <1>1, <1>5, <1>7, <3>2, Zenon
  <2>3. ASSUME NEW m \in Mounts
        PROVE  /\ pc'[m] \in {"truncAdd", "writeAdd"} => m \in Range(mem'[m])
               /\ pc'[m] \in {"truncDel", "writeDel"} => m \notin Range(mem'[m])
    <3>1. CASE m = c
      BY <1>3, <3>1, Zenon
    <3>2. CASE m # c
      BY <1>1, <3>2, Kinds, Zenon DEF SliceInv
    <3> QED
      BY <3>1, <3>2, Zenon
  <2> QED
    BY <2>1, <2>2, <2>3, Zenon DEF SliceInv
<1>9. ASSUME ~raced'
      PROVE  /\ \A d \in Commands : ~Updating(d)' /\ ~Writing(d)'
             /\ file'.st = "ok"
             /\ \A m \in Mounts : pc'[m] \in {"stop", "done"} =>
                   m \notin Range(file'.recs) /\ \A d \in Commands : m \notin Range(mem'[d])
             /\ \A m \in Mounts : Active(m)' => m \in Range(file'.recs)
  <2>1. ~raced
    BY <1>1, <1>9, Zenon
  <2>2. \A d \in Commands : ~Updating(d)' /\ ~Writing(d)'
    <3>1. \A d \in Commands : d # c => ~Updating(d)
      BY <1>2, <2>1, Zenon DEF RaceInv
    <3>2. \A d \in Commands : Writing(d) => Updating(d)
      BY Zenon DEF Writing, Updating
    <3> QED
      BY <1>4, <3>1, <3>2, Zenon
  <2>3. file' = [st |-> "ok", recs |-> mem[c]]
    <3>1. file.st = "empty"
      BY <1>2, <2>1, Zenon DEF RaceInv
    <3> QED
      BY <3>1, Zenon DEF Write
  <2>4. file'.st = "ok" /\ file'.recs = mem[c]
    BY <2>3, Zenon
  <2>5. ASSUME NEW m \in Mounts, pc'[m] \in {"stop", "done"}
        PROVE  m \notin Range(file'.recs) /\ \A d \in Commands : m \notin Range(mem'[d])
    <3>1. \A d \in Commands : mem'[d] = <<>>
      BY <1>8, <2>2, Zenon DEF SliceInv
    <3>2. m \notin Range(mem[c])
      <4>1. CASE m = c
        BY <1>3, <2>5, <4>1, Zenon DEF SliceInv
      <4>2. CASE m # c
        BY <1>1, <2>1, <2>5, <4>2, Kinds, Zenon DEF RaceInv
      <4> QED
        BY <4>1, <4>2, Zenon
    <3> QED
      BY <1>5, <2>4, <3>1, <3>2, Zenon
  <2>6. ASSUME NEW m \in Mounts, Active(m)'
        PROVE  m \in Range(file'.recs)
    <3>1. CASE m = c
      BY <1>3, <2>4, <2>6, <3>1, Zenon DEF SliceInv, Active
    <3>2. CASE m # c
      <4>1. Active(m)
        BY <1>1, <2>6, <3>2, Kinds, Zenon DEF Active
      <4> QED
        BY <1>2, <2>1, <2>4, <4>1, Zenon DEF RaceInv
    <3> QED
      BY <3>1, <3>2, Zenon
  <2> QED
    BY <2>2, <2>4, <2>5, <2>6, Zenon
<1>10. RaceInv'
  BY <1>9, Zenon DEF RaceInv
<1> QED
  BY <1>8, <1>10, Zenon

\* A command that loads, and is not found to race, has the file to itself.
LEMMA LoadAlone ==
    ASSUME RaceInv, NEW c \in Commands, Race(c), ~raced', ~Updating(c)
    PROVE  /\ ~raced /\ ~Writing(c) /\ \A d \in Commands : d # c => ~Updating(d)
           /\ file.st = "ok" /\ \A m \in Mounts : Active(m) => m \in Range(file.recs)
<1>1. ~raced /\ \A d \in Commands : d # c => ~Updating(d)
  BY Zenon DEF Race
<1>2. \A d \in Commands : Writing(d) => Updating(d)
  BY Zenon DEF Writing, Updating
<1>3. file.st = "ok"
  BY <1>1, <1>2, Zenon DEF RaceInv
<1> QED
  BY <1>1, <1>2, <1>3, Zenon DEF RaceInv

\* A mount stays active only if it was.
LEMMA ActiveBefore ==
    ASSUME NEW c \in Commands, pc'[c] # "wait", \A d \in Commands : d # c => pc'[d] = pc[d],
           dropped \subseteq dropped', \A m \in Mounts : vm'[m] = "on" => vm[m] = "on"
    PROVE  \A m \in Mounts : Active(m)' => Active(m)
BY Kinds, Zenon DEF Active

\* `linuxfs mount' appends its record to what it loaded.
LEMMA MountLoadKeeps ==
    ASSUME TypeOK, SliceInv, RaceInv, NEW m \in Mounts, MountLoad(m)
    PROVE  SliceInv' /\ RaceInv'
<1> DEFINE s == Append(LoadMounts, m)
<1>1. /\ m \in Commands /\ pc[m] = "load" /\ pc'[m] = "truncAdd"
      /\ \A d \in Commands : d # m => pc'[d] = pc[d] /\ mem'[d] = mem[d]
      /\ mem'[m] = s /\ Race(m) /\ UNCHANGED <<file, vm, dropped>>
  <2>1. /\ pc[m] = "load" /\ mem' = [mem EXCEPT ![m] = s] /\ Goto(m, "truncAdd")
        /\ Race(m) /\ UNCHANGED <<file, vm, dropped>>
    BY Zenon DEF MountLoad
  <2>2. m \in Commands
    BY Kinds, Zenon
  <2> HIDE DEF s
  <2>3. mem'[m] = s /\ \A d \in Commands : d # m => mem'[d] = mem[d]
    BY <2>1, <2>2, MemFacts, Zenon
  <2>4. pc'[m] = "truncAdd" /\ \A d \in Commands : d # m => pc'[d] = pc[d]
    BY <2>1, <2>2, GotoFacts, Zenon
  <2> QED
    BY <2>1, <2>2, <2>3, <2>4, Zenon
<1>2. ~Updating(m) /\ Updating(m)'
  BY <1>1, Kinds, Zenon DEF Updating
<1>3. m \notin Range(LoadMounts)
  BY <1>1, LoadFacts, Zenon DEF SliceInv, Before
<1>4. IsInjective(s) /\ Range(s) = Range(LoadMounts) \cup {m}
  BY <1>3, LoadFacts, AppendFacts
<1> HIDE DEF s
<1>5. Slices(m, s)
  BY <1>1, <1>2, <1>4, LoadFacts, Zenon DEF Slices, Before
<1>6. ASSUME ~raced' PROVE SlicesAlone(m, s)
  <2>1. \A n \in Mounts : Active(n)' => Active(n)
    BY <1>1, ActiveBefore, Zenon
  <2>2. /\ ~raced /\ ~Writing(m) /\ \A d \in Commands : d # m => ~Updating(d)
        /\ file.st = "ok" /\ \A n \in Mounts : Active(n) => n \in Range(file.recs)
    BY <1>1, <1>2, <1>6, LoadAlone, Zenon
  <2>3. \A n \in Mounts : Active(n) => n \in Range(s)
    BY <1>4, <2>2, LoadFacts, Zenon
  <2> QED
    BY <1>1, <2>1, <2>2, <2>3, Zenon DEF SlicesAlone
<1> QED
  BY <1>1, <1>5, <1>6, SliceKeeps, Zenon

\* At its end it drops the records of its device, unless it cannot load.
LEMMA MountLoadDelKeeps ==
    ASSUME TypeOK, SliceInv, RaceInv, NEW m \in Mounts, MountLoadDel(m)
    PROVE  SliceInv' /\ RaceInv'
<1>1. /\ m \in Commands /\ pc[m] = "loadDel" /\ Race(m) /\ UNCHANGED <<file, vm>>
      /\ \A d \in Commands : d # m => pc'[d] = pc[d]
      /\ \/ /\ file.st = "ok" /\ pc'[m] = "truncDel" /\ Drop(file.recs, DeviceOf[m])
            /\ mem' = [mem EXCEPT ![m] = WithoutDevice(file.recs, DeviceOf[m])]
         \/ file.st # "ok" /\ pc'[m] = "stop" /\ UNCHANGED <<mem, dropped>>
  BY GotoFacts, Kinds, Zenon DEF MountLoadDel
<1>2. ~Updating(m) /\ mem[m] = <<>>
  <2>1. ~Updating(m)
    BY <1>1, Kinds, Zenon DEF Updating
  <2> QED
    BY <1>1, <2>1, Zenon DEF SliceInv
<1>3. ASSUME ~raced'
      PROVE  /\ ~raced /\ ~Writing(m) /\ \A d \in Commands : d # m => ~Updating(d)
             /\ file.st = "ok" /\ \A n \in Mounts : Active(n) => n \in Range(file.recs)
  BY <1>1, <1>2, <1>3, LoadAlone, Zenon
<1>4. CASE /\ file.st = "ok" /\ pc'[m] = "truncDel" /\ Drop(file.recs, DeviceOf[m])
           /\ mem' = [mem EXCEPT ![m] = WithoutDevice(file.recs, DeviceOf[m])]
  <2> DEFINE s == WithoutDevice(file.recs, DeviceOf[m])
  <2>1. mem'[m] = s /\ \A d \in Commands : d # m => mem'[d] = mem[d]
    BY <1>1, <1>4, MemFacts, Zenon
  <2>2. IsInjective(s) /\ Range(s) = Range(file.recs) \cap {n \in Mounts : DeviceOf[n] # DeviceOf[m]}
    BY KeptFacts DEF WithoutDevice, TypeOK
  <2> HIDE DEF s
  <2>3. Updating(m)'
    BY <1>4, Zenon DEF Updating
  <2>4. Slices(m, s)
    BY <1>1, <1>4, <2>1, <2>2, <2>3, Zenon DEF Slices, Before
  <2>5. ASSUME ~raced' PROVE SlicesAlone(m, s)
    <3>1. dropped' = dropped \cup {n \in Range(file.recs) : DeviceOf[n] = DeviceOf[m]}
      BY <1>4, Zenon DEF Drop
    <3>2. \A n \in Mounts : Active(n)' => Active(n)
      BY <1>1, <1>4, <3>1, ActiveBefore, Zenon
    <3>3. \A n \in Mounts : Active(n)' => n \in Range(s)
      BY <1>3, <2>2, <2>5, <3>1, <3>2, Zenon DEF Active
    <3> QED
      BY <1>3, <1>4, <2>5, <3>2, <3>3, Zenon DEF SlicesAlone
  <2> QED
    BY <1>1, <2>4, <2>5, SliceKeeps, Zenon
<1>5. CASE file.st # "ok" /\ pc'[m] = "stop" /\ UNCHANGED <<mem, dropped>>
  <2>1. Slices(m, <<>>)
    BY <1>1, <1>2, <1>5, LoadFacts, Zenon DEF Slices, Before
  <2> QED
    BY <1>1, <1>3, <1>5, <2>1, SliceKeeps, Zenon
<1> QED
  BY <1>1, <1>4, <1>5, Zenon

\* A mount process that dies takes its slice with it.
LEMMA MountDiesKeeps ==
    ASSUME TypeOK, SliceInv, RaceInv, NEW m \in Mounts, MountDies(m)
    PROVE  SliceInv' /\ RaceInv'
<1>1. /\ m \in Commands /\ pc'[m] = "exited" /\ mem'[m] = <<>>
      /\ \A d \in Commands : d # m => pc'[d] = pc[d] /\ mem'[d] = mem[d]
      /\ (~raced' => ~raced /\ ~Writing(m)) /\ UNCHANGED <<file, vm, dropped>>
  <2>1. m \in Commands
    BY Kinds, Zenon
  <2>2. mem'[m] = <<>> /\ \A d \in Commands : d # m => mem'[d] = mem[d]
    BY <2>1, MemFacts, Zenon DEF MountDies
  <2>3. pc'[m] = "exited" /\ \A d \in Commands : d # m => pc'[d] = pc[d]
    BY <2>1, GotoFacts, Zenon DEF MountDies
  <2>4. (~raced' => ~raced /\ ~Writing(m)) /\ UNCHANGED <<file, vm, dropped>>
    BY Zenon DEF MountDies, Writing
  <2> QED
    BY <2>1, <2>2, <2>3, <2>4, Zenon
<1>2. ~Updating(m)'
  BY <1>1, Kinds, Zenon DEF Updating
<1>3. Slices(m, <<>>)
  BY <1>1, <1>2, LoadFacts, Zenon DEF Slices, Before
<1>4. \A n \in Mounts : Active(n)' => Active(n)
  BY <1>1, ActiveBefore, Zenon
<1>5. ~raced' => SlicesAlone(m, <<>>)
  BY <1>1, <1>2, <1>4, Zenon DEF SlicesAlone
<1> QED
  BY <1>1, <1>3, <1>5, SliceKeeps, Zenon

\* An unmount or a clean that loads the records, or finds none it wants.
LEMMA LoadKeeps ==
    ASSUME TypeOK, SliceInv, RaceInv, NEW c \in Commands, c \notin Mounts, pc[c] = "idle",
           Race(c), UNCHANGED <<file, vm, dropped>>,
           \A d \in Commands : d # c => pc'[d] = pc[d] /\ mem'[d] = mem[d],
           pc'[c] \notin Before \cup {"writeAdd", "writeDel", "wait"},
           \/ mem'[c] = <<>> /\ ~Updating(c)'
           \/ mem'[c] = LoadMounts /\ Updating(c)'
    PROVE  SliceInv' /\ RaceInv'
<1>1. ~Updating(c)
  BY Zenon DEF Updating
<1>2. Slices(c, mem'[c])
  BY LoadFacts, Zenon DEF Slices
<1>3. ASSUME ~raced' PROVE SlicesAlone(c, mem'[c])
  <2>1. \A n \in Mounts : Active(n)' => Active(n)
    BY ActiveBefore, Zenon
  <2>2. /\ ~raced /\ ~Writing(c) /\ \A d \in Commands : d # c => ~Updating(d)
        /\ file.st = "ok" /\ \A n \in Mounts : Active(n) => n \in Range(file.recs)
    BY <1>1, <1>3, LoadAlone, Zenon
  <2>3. LoadMounts = file.recs
    BY <2>2, LoadFacts, Zenon
  <2> QED
    BY <2>1, <2>2, <2>3, Zenon DEF SlicesAlone
<1> QED
  BY <1>2, <1>3, SliceKeeps, Zenon

\* `linuxfs unmount' loads the records once.
LEMMA UnmountLoadKeeps ==
    ASSUME TypeOK, SliceInv, RaceInv, NEW u \in Unmounts, UnmountLoad(u)
    PROVE  SliceInv' /\ RaceInv'
<1> DEFINE found == FirstMatch(LoadMounts, DeviceOf[u])
<1>1. /\ pc[u] = "idle" /\ mem' = [mem EXCEPT ![u] = IF found = NoMount THEN <<>> ELSE LoadMounts]
      /\ Goto(u, IF found = NoMount THEN "hostOnly" ELSE "hostUnmount")
      /\ Race(u) /\ UNCHANGED <<file, vm, dropped>>
  BY Zenon DEF UnmountLoad
<1> HIDE DEF found
<1>2. u \in Commands /\ u \notin Mounts
  BY Kinds, Zenon
<1>3. /\ mem'[u] = (IF found = NoMount THEN <<>> ELSE LoadMounts)
      /\ \A d \in Commands : d # u => mem'[d] = mem[d]
  BY <1>1, <1>2, MemFacts, Zenon
<1>4. /\ pc'[u] = (IF found = NoMount THEN "hostOnly" ELSE "hostUnmount")
      /\ \A d \in Commands : d # u => pc'[d] = pc[d]
  BY <1>1, <1>2, GotoFacts, Zenon
<1>5. /\ pc'[u] \notin Before \cup {"writeAdd", "writeDel", "wait"}
      /\ \/ mem'[u] = <<>> /\ ~Updating(u)'
         \/ mem'[u] = LoadMounts /\ Updating(u)'
  BY <1>3, <1>4, Zenon DEF Updating, Before
<1> QED
  BY <1>1, <1>2, <1>3, <1>4, <1>5, LoadKeeps, Zenon

\* `linuxfs clean' loads the records, or gives up.
LEMMA CleanLoadKeeps ==
    ASSUME TypeOK, SliceInv, RaceInv, NEW c \in Cleans, CleanLoad(c)
    PROVE  SliceInv' /\ RaceInv'
<1>1. c \in Commands /\ c \notin Mounts /\ c \notin Unmounts
  BY Kinds, Zenon
<1>2. pc[c] = "idle" /\ Race(c) /\ UNCHANGED <<file, vm, dropped>>
  BY Zenon DEF CleanLoad
<1>3. mem'[c] = LoadMounts /\ \A d \in Commands : d # c => mem'[d] = mem[d]
  BY <1>1, MemFacts, Zenon DEF CleanLoad
<1>4. /\ pc'[c] = (IF file.st = "ok" THEN "check" ELSE "done")
      /\ \A d \in Commands : d # c => pc'[d] = pc[d]
  BY <1>1, GotoFacts, Zenon DEF CleanLoad
<1>5. /\ pc'[c] \notin Before \cup {"writeAdd", "writeDel", "wait"}
      /\ \/ mem'[c] = <<>> /\ ~Updating(c)'
         \/ mem'[c] = LoadMounts /\ Updating(c)'
  BY <1>1, <1>3, <1>4, Zenon DEF Updating, Before, LoadMounts
<1> QED
  BY <1>1, <1>2, <1>3, <1>4, <1>5, LoadKeeps, Zenon

\* The unmount drops the records of its device from what it loaded.
LEMMA UnmountStopVMKeeps ==
    ASSUME TypeOK, SliceInv, RaceInv, NEW u \in Unmounts, UnmountStopVM(u),
           \A m \in Mounts : vm'[m] = "on" => vm[m] = "on"
    PROVE  SliceInv' /\ RaceInv'
<1> DEFINE dev == DeviceOf[rec[u]]
           s   == WithoutDevice(mem[u], dev)
<1>1. /\ pc[u] = "kill" /\ mem' = [mem EXCEPT ![u] = s] /\ Drop(mem[u], dev)
      /\ Goto(u, "truncDel") /\ UNCHANGED <<file, raced>>
  BY Zenon DEF UnmountStopVM
<1>2. u \in Commands /\ u \notin Mounts
  BY Kinds, Zenon
<1>3. IsInjective(s) /\ Range(s) = Range(mem[u]) \cap {n \in Mounts : DeviceOf[n] # dev}
  <2>1. mem[u] \in Seq(Mounts) /\ IsInjective(mem[u])
    BY <1>2, Zenon DEF TypeOK, SliceInv
  <2> QED
    BY <2>1, KeptFacts, Zenon DEF WithoutDevice
<1>4. dropped' = dropped \cup {n \in Range(mem[u]) : DeviceOf[n] = dev}
  BY <1>1, Zenon DEF Drop
<1> HIDE DEF s, dev
<1>5. mem'[u] = s /\ \A d \in Commands : d # u => mem'[d] = mem[d]
  BY <1>1, <1>2, MemFacts, Zenon
<1>6. pc'[u] = "truncDel" /\ \A d \in Commands : d # u => pc'[d] = pc[d]
  BY <1>1, <1>2, GotoFacts, Zenon
<1>7. Updating(u) /\ Updating(u)' /\ ~Writing(u)
  BY <1>1, <1>6, Zenon DEF Updating, Writing
<1>8. Slices(u, s)
  BY <1>1, <1>2, <1>3, <1>5, <1>6, <1>7, Zenon DEF Slices, Before
<1>9. ASSUME ~raced' PROVE SlicesAlone(u, s)
  <2>1. \A n \in Mounts : Active(n)' => Active(n)
    BY <1>2, <1>4, <1>6, ActiveBefore, Zenon
  <2>2. \A n \in Mounts : Active(n) => n \in Range(mem[u])
    BY <1>1, <1>2, <1>7, <1>9, Zenon DEF RaceInv
  <2>3. \A n \in Mounts : Active(n)' => n \in Range(s)
    BY <1>3, <1>4, <2>1, <2>2, Zenon DEF Active
  <2> QED
    BY <1>1, <1>2, <1>7, <1>9, <2>1, <2>3, Zenon DEF SlicesAlone
<1> QED
  BY <1>2, <1>8, <1>9, SliceKeeps, Zenon

\* The clean drops the records whose VM is gone, or saves nothing.
LEMMA CleanCheckKeeps ==
    ASSUME TypeOK, SliceInv, RaceInv, NEW c \in Cleans, CleanCheck(c)
    PROVE  SliceInv' /\ RaceInv'
<1> DEFINE live == Kept(mem[c], {m \in Mounts : vm[m] = "on"})
<1>1. /\ pc[c] = "check" /\ UNCHANGED <<file, vm, raced, dropped>>
      /\ \/ Goto(c, "truncDel") /\ mem' = [mem EXCEPT ![c] = live]
         \/ Goto(c, "done") /\ mem' = [mem EXCEPT ![c] = <<>>]
  BY Zenon DEF CleanCheck
<1>2. c \in Commands /\ c \notin Mounts /\ c \notin Unmounts
  BY Kinds, Zenon
<1>3. IsInjective(live) /\ Range(live) = Range(mem[c]) \cap {n \in Mounts : vm[n] = "on"}
  <2>1. mem[c] \in Seq(Mounts) /\ IsInjective(mem[c])
    BY <1>2, Zenon DEF TypeOK, SliceInv
  <2> QED
    BY <2>1, KeptFacts, Zenon
<1> HIDE DEF live
<1>4. Updating(c) /\ ~Writing(c)
  BY <1>1, Zenon DEF Updating, Writing
<1>5. PICK s : /\ mem'[c] = s /\ \A d \in Commands : d # c => mem'[d] = mem[d] /\ pc'[d] = pc[d]
               /\ \/ s = live /\ pc'[c] = "truncDel"
                  \/ s = <<>> /\ pc'[c] = "done"
  BY <1>1, <1>2, GotoFacts, MemFacts, Zenon
<1>6. /\ pc'[c] = "truncDel" => Updating(c)'
      /\ pc'[c] = "done" => ~Updating(c)'
  BY <1>2, Zenon DEF Updating
<1>7. Slices(c, s)
  BY <1>1, <1>2, <1>3, <1>5, <1>6, LoadFacts, Zenon DEF Slices, Before
<1>8. ASSUME ~raced' PROVE SlicesAlone(c, s)
  <2>1. \A n \in Mounts : Active(n)' => Active(n)
    BY <1>1, <1>2, <1>5, ActiveBefore, Zenon
  <2>2. \A n \in Mounts : Active(n) => n \in Range(live)
    BY <1>1, <1>2, <1>3, <1>4, <1>8, Zenon DEF RaceInv, Active
  <2> QED
    BY <1>1, <1>2, <1>4, <1>5, <1>6, <1>8, <2>1, <2>2, Zenon DEF SlicesAlone
<1> QED
  BY <1>2, <1>7, <1>8, SliceKeeps, Zenon

-----------------------------------------------------------------------------
(* The VMs and their file systems                                          *)

\* A step after which a port still has one VM, and a VM that was closed, torn
\* down or stopped still is.
Steady ==
    /\ \A m, n \in Mounts : vm'[m] = "on" /\ vm'[n] = "on" /\ PortOf[m] = PortOf[n] => m = n
    /\ \A m \in Mounts : fs'[m] = "lazy" => share'[m]
    /\ \A m \in Mounts : fs'[m] = "lost" => m \in warned'
    /\ \A m \in Mounts : pc[m] \notin Before =>
          /\ Closed(m) => Closed(m)'
          /\ Torn(m) => Torn(m)'
          /\ vm'[m] = "on" => vm[m] = "on"

Tearing == {"loadDel", "truncDel", "writeDel", "stop"}

\* A step that takes no command to a later part of a teardown before its time.
InOrder ==
    /\ \A m \in Mounts :
          /\ pc'[m] = "done" => pc[m] = "done" \/ vm'[m] # "on"
          /\ pc'[m] = "teardown" => pc[m] = "teardown" \/ Closed(m)'
          /\ pc'[m] \in Tearing => pc[m] \in Tearing \/ Torn(m)'
    /\ \A u \in Unmounts : pc'[u] \in {"teardown", "kill"} =>
          /\ rec'[u] = rec[u]
          /\ pc'[u] = "teardown" => pc[u] = "teardown" \/ \A m \in Mounts : m = rec[u] => Closed(m)'
          /\ pc'[u] = "kill" => pc[u] = "kill" \/ \A m \in Mounts : m = rec[u] => Torn(m)'

\* An unmount that is past its load has a record.
LEMMA RecFacts ==
    ASSUME TypeOK, RecInv, NEW u \in Unmounts, pc[u] \in {"hostUnmount", "teardown", "kill"}
    PROVE  rec[u] \in Mounts /\ pc[rec[u]] \notin Before /\ DeviceOf[rec[u]] = DeviceOf[u]
<1>1. rec[u] # NoMount /\ rec[u] \in Mounts \cup {NoMount}
  BY Zenon DEF RecInv, TypeOK
<1> QED
  BY <1>1, Zenon DEF RecInv

\* Such steps keep what is known of the VMs.
LEMMA SteadyKeeps ==
    ASSUME TypeOK, RecInv, RecInv', TypeOK', VMInv, Steady, InOrder
    PROVE  VMInv'
<1>1. \A m \in Mounts : pc[m] \in {"done", "teardown"} \cup Tearing => pc[m] \notin Before
  BY Zenon DEF Tearing, Before
<1>2. \A m \in Mounts : /\ pc'[m] = "done" => vm'[m] # "on"
                        /\ pc'[m] = "teardown" => Closed(m)'
                        /\ pc'[m] \in Tearing => Torn(m)'
  BY <1>1, Zenon DEF Steady, InOrder, VMInv, Tearing
<1>3. ASSUME NEW u \in Unmounts, pc'[u] \in {"teardown", "kill"}, NEW m \in Mounts, m = rec[u]
      PROVE  /\ pc'[u] = "teardown" => Closed(m)'
             /\ pc'[u] = "kill" => Torn(m)'
  <2>1. CASE pc'[u] = "teardown" /\ pc[u] = "teardown"
    <3>1. Closed(m) /\ pc[m] \notin Before
      BY <1>3, <2>1, RecFacts, Zenon DEF VMInv
    <3> QED
      BY <2>1, <3>1, Zenon DEF Steady
  <2>2. CASE pc'[u] = "kill" /\ pc[u] = "kill"
    <3>1. Torn(m) /\ pc[m] \notin Before
      BY <1>3, <2>2, RecFacts, Zenon DEF VMInv
    <3> QED
      BY <2>2, <3>1, Zenon DEF Steady
  <2> QED
    BY <1>3, <2>1, <2>2, Zenon DEF InOrder
<1>4. ASSUME NEW u \in Unmounts, pc'[u] \in {"teardown", "kill"}
      PROVE  rec'[u] = rec[u] /\ rec[u] \in Mounts
  <2>1. rec'[u] = rec[u]
    BY <1>4, Zenon DEF InOrder
  <2>2. rec'[u] # NoMount /\ rec'[u] \in Mounts \cup {NoMount}
    BY <1>4, Zenon DEF RecInv, TypeOK
  <2> QED
    BY <2>1, <2>2, Zenon
<1>5. \A u \in Unmounts : /\ pc'[u] = "teardown" => Closed(rec[u])'
                          /\ pc'[u] = "kill" => Torn(rec[u])'
  BY <1>3, <1>4, Zenon DEF Closed, Torn
<1> QED
  BY <1>2, <1>5, Zenon DEF VMInv, Steady, Tearing, LostOnlyWarned

\* Most steps leave the VMs alone.
LEMMA SteadySame ==
    ASSUME VMInv, UNCHANGED <<vm, fs, share, warned>>
    PROVE  Steady
BY Zenon DEF VMInv, Steady, Closed, Torn, LostOnlyWarned

\* A mount that starts its VM, or sets it up, is before its load.
LEMMA SteadyStart ==
    ASSUME TypeOK, VMInv, NEW m \in Mounts, StartQEMU(m)
    PROVE  Steady
<1>1. pc[m] \in Before /\ vm'[m] = "on" /\ (\A n \in Mounts : n # m => vm'[n] = vm[n])
  BY Zenon DEF StartQEMU, TypeOK, Before
<1>2. UNCHANGED <<fs, share, warned>> /\ VMAt(PortOf[m]) = {}
  BY Zenon DEF StartQEMU
<1>3. \A n \in Mounts : vm[n] = "on" => PortOf[n] # PortOf[m]
  BY <1>2, Zenon DEF VMAt
<1>4. \A k, n \in Mounts : vm'[k] = "on" /\ vm'[n] = "on" /\ PortOf[k] = PortOf[n] => k = n
  BY <1>1, <1>3, Zenon DEF VMInv
<1> QED
  BY <1>1, <1>2, <1>4, Zenon DEF VMInv, Steady, Closed, Torn, LostOnlyWarned

LEMMA SteadySetup ==
    ASSUME TypeOK, VMInv, NEW m \in Mounts, Setup(m) \/ SetupFails(m)
    PROVE  Steady
<1>1. pc[m] \in Before /\ UNCHANGED <<vm, warned>>
  BY Zenon DEF Setup, SetupFails, Before
<1>2. /\ \A n \in Mounts : n # m => fs'[n] = fs[n] /\ share'[n] = share[n]
      /\ fs'[m] = "mounted" \/ (fs'[m] = fs[m] /\ share'[m] = share[m])
  BY Zenon DEF Setup, SetupFails, TypeOK
<1> QED
  BY <1>1, <1>2, Zenon DEF VMInv, Steady, Closed, Torn, LostOnlyWarned

LEMMA SteadyCrash ==
    ASSUME TypeOK, VMInv, NEW m \in Mounts, VMCrash(m)
    PROVE  Steady
<1>1. UNCHANGED <<share, warned>>
  BY Zenon DEF VMCrash
<1>2. /\ \A n \in Mounts : n # m => fs'[n] = fs[n] /\ vm'[n] = vm[n]
      /\ vm'[m] = "dead" /\ (fs'[m] = "crashed" \/ fs'[m] = fs[m])
  BY Zenon DEF VMCrash, TypeOK
<1> QED
  BY <1>1, <1>2 DEF VMInv, Steady, Closed, Torn, LostOnlyWarned

\* The host unmount of a share closes it, or warns.
LEMMA SteadyHostUnmount ==
    ASSUME TypeOK, VMInv, NEW m \in Mounts, HostUnmount(m), UNCHANGED vm
    PROVE  Steady /\ Closed(m)'
<1>1. CASE warned' = (IF share[m] THEN warned \cup {m} ELSE warned) /\ UNCHANGED <<share, fs>>
  <2>1. \A n \in warned : n \in warned'
    BY <1>1, Zenon
  <2>2. share'[m] => m \in warned'
    BY <1>1, Zenon
  <2> QED
    BY <1>1, <2>1, <2>2, Zenon DEF VMInv, Steady, Closed, Torn, LostOnlyWarned
<1>2. CASE /\ share' = [share EXCEPT ![m] = FALSE] /\ UNCHANGED warned
           /\ fs' = [fs EXCEPT ![m] = IF @ = "lazy" THEN "clean" ELSE @]
  <2>1. /\ \A n \in Mounts : n # m => fs'[n] = fs[n] /\ share'[n] = share[n]
        /\ ~share'[m] /\ fs'[m] # "lazy" /\ (fs'[m] = "clean" \/ fs'[m] = fs[m])
    BY <1>2, Zenon DEF TypeOK
  <2> QED
    BY <1>2, <2>1 DEF VMInv, Steady, Closed, Torn, LostOnlyWarned
<1> QED
  BY <1>1, <1>2, Zenon DEF HostUnmount

\* The script reaches the one VM on the port, and unmounts a file system whose
\* share is closed.
LEMMA SteadyTeardown ==
    ASSUME TypeOK, VMInv, NEW r \in Mounts, Closed(r), TeardownScript(r), UNCHANGED <<vm, share>>
    PROVE  Steady /\ Torn(r)'
<1>1. CASE warned' = warned \cup {r} /\ UNCHANGED fs
  <2>1. (\A n \in warned : n \in warned') /\ r \in warned'
    BY <1>1, Zenon
  <2> QED
    BY <1>1, <2>1, Zenon DEF VMInv, Steady, Closed, Torn, LostOnlyWarned
<1>2. CASE /\ \E m \in VMAt(PortOf[r]) :
                fs' = [fs EXCEPT ![m] =
                      IF @ = "mounted" THEN IF share[m] THEN "lazy" ELSE "clean" ELSE @]
           /\ UNCHANGED warned
  <2>1. PICK m \in VMAt(PortOf[r]) :
                fs' = [fs EXCEPT ![m] =
                      IF @ = "mounted" THEN IF share[m] THEN "lazy" ELSE "clean" ELSE @]
    BY <1>2, Zenon
  <2>2. m \in Mounts /\ vm[m] = "on" /\ PortOf[m] = PortOf[r]
    BY <2>1, Zenon DEF VMAt
  <2>3. /\ \A n \in Mounts : n # m => fs'[n] = fs[n]
        /\ \/ fs[m] # "mounted" /\ fs'[m] = fs[m]
           \/ fs[m] = "mounted" /\ share[m] /\ fs'[m] = "lazy"
           \/ fs[m] = "mounted" /\ ~share[m] /\ fs'[m] = "clean"
    BY <2>1, <2>2, Zenon DEF TypeOK
  <2>4. Steady
    BY <1>2, <2>2, <2>3 DEF VMInv, Steady, Closed, Torn, LostOnlyWarned
  <2>5. Torn(r)'
    <3>1. vm[r] = "on" => r = m
      BY <2>2, Zenon DEF VMInv
    <3>2. fs'[m] = "lazy" => share[m]
      BY <2>2, <2>3, Zenon DEF VMInv
    <3>3. fs'[m] # "mounted"
      BY <2>3, Zenon
    <3> QED
      BY <1>2, <3>1, <3>2, <3>3, Zenon DEF Closed, Torn
  <2> QED
    BY <2>4, <2>5, Zenon
<1> QED
  BY <1>1, <1>2, Zenon DEF TeardownScript

\* Killing a VM that was torn down.
LEMMA SteadyKill ==
    ASSUME TypeOK, VMInv, NEW m \in Mounts, Torn(m), Killed(m), UNCHANGED <<share, warned>>
    PROVE  Steady /\ vm'[m] # "on"
<1>1. /\ \A n \in Mounts : n # m => fs'[n] = fs[n] /\ vm'[n] = vm[n]
      /\ vm'[m] # "on"
      /\ \/ fs'[m] = fs[m]
         \/ vm[m] = "on" /\ fs[m] \in {"mounted", "lazy"} /\ fs'[m] = "lost"
  BY Zenon DEF Killed, TypeOK
<1>2. fs'[m] = "lost" => m \in warned
  BY <1>1, Zenon DEF Torn, VMInv, LostOnlyWarned
<1> QED
  BY <1>1, <1>2 DEF VMInv, Steady, Closed, Torn, LostOnlyWarned

-----------------------------------------------------------------------------
(* Types                                                                   *)

\* The parts of a state that steps change together.
TypeFile ==
    /\ file \in [st : {"ok", "empty", "garbled"}, recs : Seq(Mounts)] /\ IsInjective(file.recs)
    /\ mem \in [Commands -> Seq(Mounts)] /\ raced \in BOOLEAN /\ dropped \in SUBSET Mounts
TypeVM ==
    /\ vm \in [Mounts -> VMStates] /\ fs \in [Mounts -> FSStates]
    /\ share \in [Mounts -> BOOLEAN] /\ warned \in SUBSET Mounts
TypeRest ==
    /\ pc \in [Commands -> PCs] /\ rec \in [Unmounts -> Mounts \cup {NoMount}]
    /\ faults \in 0..MaxFaults

LEMMA TypeParts == TypeOK <=> TypeFile /\ TypeVM /\ TypeRest
BY Zenon DEF TypeOK, TypeFile, TypeVM, TypeRest

LEMMA TypeMoves ==
    ASSUME TypeOK, NEW c \in Commands, NEW l \in PCs, Goto(c, l), UNCHANGED <<rec, faults>>
    PROVE  TypeRest'
<1>1. pc' \in [Commands -> PCs]
  BY Zenon DEF TypeOK, Goto
<1> QED
  BY <1>1, Zenon DEF TypeOK, TypeRest

LEMMA TypeFileSame ==
    ASSUME TypeOK, UNCHANGED <<file, mem, raced, dropped>>
    PROVE  TypeFile'
BY Zenon DEF TypeOK, TypeFile

LEMMA TypeVMSame ==
    ASSUME TypeOK, UNCHANGED <<vm, fs, share, warned>>
    PROVE  TypeVM'
BY Zenon DEF TypeOK, TypeVM

LEMMA TypeHostUnmount ==
    ASSUME TypeOK, NEW m \in Mounts, HostUnmount(m), UNCHANGED vm
    PROVE  TypeVM'
<1>1. CASE warned' = (IF share[m] THEN warned \cup {m} ELSE warned) /\ UNCHANGED <<share, fs>>
  BY <1>1, Zenon DEF TypeOK, TypeVM
<1>2. CASE /\ share' = [share EXCEPT ![m] = FALSE] /\ UNCHANGED warned
           /\ fs' = [fs EXCEPT ![m] = IF @ = "lazy" THEN "clean" ELSE @]
  BY <1>2, Zenon DEF TypeOK, TypeVM, FSStates
<1> QED
  BY <1>1, <1>2, Zenon DEF HostUnmount

LEMMA TypeTeardown ==
    ASSUME TypeOK, NEW r \in Mounts, TeardownScript(r), UNCHANGED <<vm, share>>
    PROVE  TypeVM'
<1>1. CASE warned' = warned \cup {r} /\ UNCHANGED fs
  BY <1>1, Zenon DEF TypeOK, TypeVM
<1>2. CASE /\ \E m \in VMAt(PortOf[r]) :
                fs' = [fs EXCEPT ![m] =
                      IF @ = "mounted" THEN IF share[m] THEN "lazy" ELSE "clean" ELSE @]
           /\ UNCHANGED warned
  BY <1>2, Zenon DEF TypeOK, TypeVM, FSStates, VMAt
<1> QED
  BY <1>1, <1>2, Zenon DEF TeardownScript

LEMMA TypeKilled ==
    ASSUME TypeOK, NEW m \in Mounts, Killed(m), UNCHANGED <<share, warned>>
    PROVE  TypeVM'
BY Zenon DEF TypeOK, TypeVM, Killed, FSStates, VMStates

\* A load, and what becomes of the slice.
LEMMA TypeSlice ==
    ASSUME TypeOK, NEW c \in Commands, NEW s \in Seq(Mounts), mem' = [mem EXCEPT ![c] = s],
           UNCHANGED file, raced' \in BOOLEAN, dropped' \in SUBSET Mounts
    PROVE  TypeFile'
<1>1. mem' \in [Commands -> Seq(Mounts)]
  BY Zenon DEF TypeOK
<1> QED
  BY <1>1, Zenon DEF TypeOK, TypeFile

\* What a command can have in hand is a list of records.
LEMMA TypeRecords ==
    ASSUME TypeOK
    PROVE  /\ LoadMounts \in Seq(Mounts) /\ file.recs \in Seq(Mounts) /\ <<>> \in Seq(Mounts)
           /\ Range(file.recs) \subseteq Mounts
           /\ \A c \in Commands : mem[c] \in Seq(Mounts) /\ Range(mem[c]) \subseteq Mounts
<1>1. /\ LoadMounts \in Seq(Mounts) /\ file.recs \in Seq(Mounts) /\ <<>> \in Seq(Mounts)
      /\ \A c \in Commands : mem[c] \in Seq(Mounts)
  BY DEF TypeOK, LoadMounts
<1>2. ASSUME NEW s \in Seq(Mounts) PROVE Range(s) \subseteq Mounts
  BY DEF Range
<1> QED
  BY <1>1, <1>2, Zenon

LEMMA TypeDropped ==
    ASSUME TypeOK, NEW recs, Range(recs) \subseteq Mounts, NEW dev, Drop(recs, dev)
    PROVE  dropped' \in SUBSET Mounts
BY Zenon DEF TypeOK, Drop

LEMMA TypeRace ==
    ASSUME NEW c, Race(c)
    PROVE  raced' \in BOOLEAN
BY Zenon DEF Race

-----------------------------------------------------------------------------
(* The order of a teardown                                                 *)

\* The records that the unmounts found stay good.
LEMMA RecKeeps ==
    ASSUME TypeOK, RecInv, UNCHANGED rec,
           \A m \in Mounts : pc'[m] \in Before => pc[m] \in Before,
           \A u \in Unmounts : pc'[u] \in {"hostUnmount", "teardown", "kill"} =>
                                   pc[u] \in {"hostUnmount", "teardown", "kill"}
    PROVE  RecInv'
<1>1. \A u \in Unmounts : rec[u] # NoMount => rec[u] \in Mounts
  BY Zenon DEF TypeOK
<1> QED
  BY <1>1, Zenon DEF RecInv

\* A step of a mount, seen by the others.
LEMMA MountOrder ==
    ASSUME TypeOK, RecInv, NEW c \in Mounts, UNCHANGED rec,
           \A d \in Commands : d # c => pc'[d] = pc[d],
           pc'[c] = "done" => vm'[c] # "on",
           pc'[c] = "teardown" => Closed(c)',
           pc'[c] \in Tearing => pc[c] \in Tearing \/ Torn(c)',
           pc'[c] \in Before => pc[c] \in Before
    PROVE  InOrder /\ RecInv'
<1>1. \A u \in Unmounts : pc'[u] = pc[u]
  BY Kinds, Zenon
<1>2. \A m \in Mounts : m # c => pc'[m] = pc[m]
  BY Kinds, Zenon
<1>3. \A m \in Mounts : pc'[m] \in Before => pc[m] \in Before
  BY <1>2, Zenon
<1>4. InOrder
  BY <1>1, <1>2, Zenon DEF InOrder
<1> QED
  BY <1>1, <1>3, <1>4, RecKeeps, Zenon

\* A step of an unmount or a clean.
LEMMA OtherOrder ==
    ASSUME TypeOK, RecInv, NEW c \in Commands, c \notin Mounts, UNCHANGED rec,
           \A d \in Commands : d # c => pc'[d] = pc[d],
           pc'[c] = "teardown" => pc[c] = "hostUnmount" /\ \A m \in Mounts : m = rec[c] => Closed(m)',
           pc'[c] = "kill" => pc[c] = "teardown" /\ \A m \in Mounts : m = rec[c] => Torn(m)',
           pc'[c] # "hostUnmount"
    PROVE  InOrder /\ RecInv'
<1>1. \A m \in Mounts : pc'[m] = pc[m]
  BY Kinds, Zenon
<1>2. \A u \in Unmounts : u # c => pc'[u] = pc[u]
  BY Kinds, Zenon
<1>3. \A u \in Unmounts : pc'[u] \in {"hostUnmount", "teardown", "kill"} =>
                              pc[u] \in {"hostUnmount", "teardown", "kill"}
  BY <1>2, Zenon
<1>4. InOrder
  BY <1>1, <1>2, Zenon DEF InOrder
<1> QED
  BY <1>1, <1>3, <1>4, RecKeeps, Zenon

-----------------------------------------------------------------------------
(* The steps                                                               *)

LEMMA Together ==
    ASSUME IInv, TypeFile', TypeVM', TypeRest', SliceInv', RaceInv', RecInv', Steady, InOrder
    PROVE  IInv'
<1>1. TypeOK'
  BY Zenon DEF TypeOK, TypeFile, TypeVM, TypeRest
<1> QED
  BY <1>1, SteadyKeeps, Zenon DEF IInv

\* A step of a mount that loads and saves nothing.
LEMMA QuietMount ==
    ASSUME IInv, NEW m \in Mounts, NEW from, NEW to, <<from, to>> \in MountMoves,
           pc[m] = from, Goto(m, to), UNCHANGED <<file, mem, rec, faults, raced, dropped>>,
           TypeVM', Steady, \A n \in Mounts : vm'[n] = "on" => vm[n] = "on" \/ n = m,
           to = "done" => vm'[m] # "on", to = "teardown" => Closed(m)', to = "loadDel" => Torn(m)'
    PROVE  IInv'
<1>1. TypeOK /\ SliceInv /\ RaceInv /\ RecInv
  BY Zenon DEF IInv
<1>2. m \in Commands
  BY Kinds, Zenon
<1>3. Moves(m, from, to)
  BY <1>1, <1>2, GotoFacts, Zenon DEF Moves
<1>4. /\ to \in PCs /\ (to \in Tearing => to = "loadDel") /\ (to \in Before => from \in Before)
  BY Zenon DEF MountMoves, PCs, Tearing, Before
<1>5. Quiet
  BY <1>3, MountMove, Zenon
<1>6. SliceInv' /\ RaceInv'
  BY <1>1, <1>5, QuietKeeps, Zenon
<1>7. InOrder /\ RecInv'
  BY <1>1, <1>3, <1>4, MountOrder, Zenon DEF Moves
<1>8. TypeFile' /\ TypeRest'
  BY <1>1, <1>2, <1>4, TypeFileSame, TypeMoves, Zenon
<1> QED
  BY <1>6, <1>7, <1>8, Together, Zenon

\* Starting, and the failures before the load.
LEMMA StartStep ==
    ASSUME IInv, NEW m \in Mounts,
           StartQEMU(m) \/ StartFails(m) \/ BootOk(m) \/ BootFails(m) \/ Signal(m)
    PROVE  IInv'
<1>1. TypeOK /\ VMInv
  BY Zenon DEF IInv
<1>2. CASE StartQEMU(m)
  <2>1. Steady
    BY <1>1, <1>2, SteadyStart, Zenon
  <2>2. TypeVM' /\ \A n \in Mounts : vm'[n] = "on" => vm[n] = "on" \/ n = m
    BY <1>1, <1>2, Zenon DEF StartQEMU, TypeOK, TypeVM, VMStates
  <2>3. /\ pc[m] = "idle" /\ Goto(m, "boot")
        /\ UNCHANGED <<file, mem, rec, faults, raced, dropped>>
    BY <1>2, Zenon DEF StartQEMU
  <2>4. <<"idle", "boot">> \in MountMoves
    BY Zenon DEF MountMoves
  <2> QED
    BY <2>1, <2>2, <2>3, <2>4, QuietMount, Zenon
<1>3. ASSUME UNCHANGED <<file, mem, rec, vm, fs, share, faults, raced, warned, dropped>>,
             NEW from, NEW to, pc[m] = from, Goto(m, to), <<from, to>> \in MountMoves,
             to \notin {"done", "teardown", "loadDel"}
      PROVE  IInv'
  <2>1. Steady /\ TypeVM'
    BY <1>1, <1>3, SteadySame, TypeVMSame, Zenon
  <2> QED
    BY <1>3, <2>1, QuietMount, Zenon
<1>4. /\ <<"idle", "exited">> \in MountMoves /\ <<"boot", "setup">> \in MountMoves
      /\ <<"boot", "exited">> \in MountMoves /\ <<"wait", "hostUnmount">> \in MountMoves
  BY Zenon DEF MountMoves
<1>5. CASE StartFails(m)
  BY <1>3, <1>4, <1>5, Zenon DEF StartFails
<1>6. CASE BootOk(m)
  BY <1>3, <1>4, <1>6, Zenon DEF BootOk
<1>7. CASE BootFails(m)
  BY <1>3, <1>4, <1>7, Zenon DEF BootFails
<1>8. CASE Signal(m)
  BY <1>3, <1>4, <1>8, Zenon DEF Signal
<1> QED
  BY <1>2, <1>5, <1>6, <1>7, <1>8, Zenon

LEMMA SetupStep ==
    ASSUME IInv, NEW m \in Mounts, Setup(m) \/ SetupFails(m)
    PROVE  IInv'
<1>1. TypeOK /\ VMInv
  BY Zenon DEF IInv
<1>2. Steady
  BY <1>1, SteadySetup, Zenon
<1>3. TypeVM'
  BY <1>1, Zenon DEF Setup, SetupFails, TypeOK, TypeVM, FSStates
<1>4. PICK to \in {"load", "exited"} :
         /\ pc[m] = "setup" /\ Goto(m, to)
         /\ UNCHANGED <<file, mem, rec, faults, raced, dropped, vm>>
  BY Zenon DEF Setup, SetupFails
<1>5. <<"setup", to>> \in MountMoves /\ to \notin {"done", "teardown", "loadDel"}
  BY <1>4, Zenon DEF MountMoves
<1> QED
  BY <1>2, <1>3, <1>4, <1>5, QuietMount, Zenon

\* The teardown of a mount, and its end.
LEMMA TeardownStep ==
    ASSUME IInv, NEW m \in Mounts, MountHostUnmount(m) \/ MountTeardown(m) \/ MountStop(m)
    PROVE  IInv'
<1>1. TypeOK /\ VMInv
  BY Zenon DEF IInv
<1>2. /\ <<"hostUnmount", "teardown">> \in MountMoves /\ <<"teardown", "loadDel">> \in MountMoves
      /\ <<"stop", "done">> \in MountMoves
  BY Zenon DEF MountMoves
<1>3. CASE MountHostUnmount(m)
  <2>1. /\ pc[m] = "hostUnmount" /\ HostUnmount(m) /\ Goto(m, "teardown")
        /\ UNCHANGED <<file, mem, rec, vm, faults, raced, dropped>>
    BY <1>3, Zenon DEF MountHostUnmount
  <2>2. Steady /\ Closed(m)' /\ TypeVM'
    BY <1>1, <2>1, SteadyHostUnmount, TypeHostUnmount, Zenon
  <2> QED
    BY <1>2, <2>1, <2>2, QuietMount, Zenon
<1>4. CASE MountTeardown(m)
  <2>1. /\ pc[m] = "teardown" /\ TeardownScript(m) /\ Goto(m, "loadDel")
        /\ UNCHANGED <<file, mem, rec, vm, share, faults, raced, dropped>>
    BY <1>4, Zenon DEF MountTeardown
  <2>2. Closed(m)
    BY <1>1, <2>1, Zenon DEF VMInv
  <2>3. Steady /\ Torn(m)' /\ TypeVM'
    BY <1>1, <2>1, <2>2, SteadyTeardown, TypeTeardown, Zenon
  <2> QED
    BY <1>2, <2>1, <2>3, QuietMount, Zenon
<1>5. CASE MountStop(m)
  <2>1. /\ pc[m] = "stop" /\ Killed(m) /\ Goto(m, "done")
        /\ UNCHANGED <<file, mem, rec, share, faults, raced, warned, dropped>>
    BY <1>5, Zenon DEF MountStop
  <2>2. Torn(m)
    BY <1>1, <2>1, Zenon DEF VMInv
  <2>3. Steady /\ vm'[m] # "on" /\ TypeVM'
    BY <1>1, <2>1, <2>2, SteadyKill, TypeKilled, Zenon
  <2>4. \A n \in Mounts : vm'[n] = "on" => vm[n] = "on" \/ n = m
    BY <1>1, <2>1, Zenon DEF Killed, TypeOK
  <2> QED
    BY <1>2, <2>1, <2>3, <2>4, QuietMount, Zenon
<1> QED
  BY <1>3, <1>4, <1>5, Zenon

\* A VM that dies by itself.
LEMMA CrashStep ==
    ASSUME IInv, NEW m \in Mounts, VMCrash(m)
    PROVE  IInv'
<1>1. TypeOK /\ VMInv /\ SliceInv /\ RaceInv /\ RecInv
  BY Zenon DEF IInv
<1>2. UNCHANGED <<file, pc, mem, rec, share, raced, warned, dropped>>
  BY Zenon DEF VMCrash
<1>3. \A n \in Mounts : vm'[n] = "on" => vm[n] = "on"
  BY <1>1, Zenon DEF VMCrash, TypeOK
<1>4. Quiet
  BY <1>2, <1>3, Zenon DEF Quiet, Updating, Writing, Active
<1>5. Steady
  BY <1>1, SteadyCrash, Zenon
<1>6. TypeVM'
  BY <1>1, Zenon DEF VMCrash, TypeOK, TypeVM, VMStates, FSStates
<1>7. TypeRest'
  <2>1. faults' \in 0..MaxFaults
    BY <1>1, CommandsAssumption DEF VMCrash, TypeOK
  <2> QED
    BY <1>1, <1>2, <2>1, Zenon DEF TypeOK, TypeRest
<1>8. InOrder /\ RecInv'
  BY <1>1, <1>2, RecKeeps, Zenon DEF InOrder
<1> QED
  BY <1>1, <1>2, <1>4, <1>5, <1>6, <1>7, <1>8, QuietKeeps, TypeFileSame, Together, Zenon

\* The load that adds a record, the one that removes it, and a mount process
\* that dies.
LEMMA MountLoadStep ==
    ASSUME IInv, NEW m \in Mounts, MountLoad(m)
    PROVE  IInv'
<1>1. TypeOK /\ VMInv /\ SliceInv /\ RaceInv /\ RecInv
  BY Zenon DEF IInv
<1>2. m \in Commands
  BY Kinds, Zenon
<1> DEFINE s == Append(LoadMounts, m)
<1>3. /\ mem' = [mem EXCEPT ![m] = s] /\ Goto(m, "truncAdd") /\ Race(m)
      /\ UNCHANGED <<file, rec, vm, fs, share, faults, warned, dropped>>
  BY Zenon DEF MountLoad
<1>4. s \in Seq(Mounts)
  BY <1>1, TypeRecords, AppendFacts, Zenon
<1> HIDE DEF s
<1>5. Steady /\ TypeVM'
  BY <1>1, <1>3, SteadySame, TypeVMSame, Zenon
<1>6. raced' \in BOOLEAN /\ dropped' \in SUBSET Mounts
  BY <1>1, <1>3, TypeRace, Zenon DEF TypeOK
<1>7. TypeFile'
  BY <1>1, <1>2, <1>3, <1>4, <1>6, TypeSlice, Zenon
<1>8. "truncAdd" \in PCs /\ "truncAdd" \notin Tearing \cup Before
  BY Zenon DEF PCs, Tearing, Before
<1>9. pc'[m] = "truncAdd" /\ \A d \in Commands : d # m => pc'[d] = pc[d]
  BY <1>1, <1>2, <1>3, GotoFacts, Zenon
<1>10. InOrder /\ RecInv'
  BY <1>1, <1>3, <1>8, <1>9, MountOrder, Zenon
<1>11. TypeRest'
  BY <1>1, <1>2, <1>3, <1>8, TypeMoves, Zenon
<1> QED
  BY <1>1, <1>5, <1>7, <1>10, <1>11, MountLoadKeeps, Together, Zenon

LEMMA MountLoadDelStep ==
    ASSUME IInv, NEW m \in Mounts, MountLoadDel(m)
    PROVE  IInv'
<1>1. TypeOK /\ VMInv /\ SliceInv /\ RaceInv /\ RecInv
  BY Zenon DEF IInv
<1>2. m \in Commands
  BY Kinds, Zenon
<1>3. Race(m) /\ pc[m] = "loadDel" /\ UNCHANGED <<file, rec, vm, fs, share, faults, warned>>
  BY Zenon DEF MountLoadDel
<1>4. PICK l \in {"truncDel", "stop"} : Goto(m, l)
  BY Zenon DEF MountLoadDel
<1>5. Steady /\ TypeVM' /\ raced' \in BOOLEAN
  BY <1>1, <1>3, SteadySame, TypeVMSame, TypeRace, Zenon
<1>6. TypeFile'
  <2> DEFINE s == WithoutDevice(file.recs, DeviceOf[m])
  <2>1. s \in Seq(Mounts)
    BY <1>1, TypeRecords, KeptFacts, Zenon DEF WithoutDevice
  <2>2. \/ mem' = [mem EXCEPT ![m] = s] /\ Drop(file.recs, DeviceOf[m])
        \/ UNCHANGED <<mem, dropped>>
    BY Zenon DEF MountLoadDel
  <2> HIDE DEF s
  <2>3. CASE mem' = [mem EXCEPT ![m] = s] /\ Drop(file.recs, DeviceOf[m])
    <3>1. dropped' \in SUBSET Mounts
      BY <1>1, <2>3, TypeRecords, TypeDropped, Zenon
    <3> QED
      BY <1>1, <1>2, <1>3, <1>5, <2>1, <2>3, <3>1, TypeSlice, Zenon
  <2>4. CASE UNCHANGED <<mem, dropped>>
    BY <1>1, <1>3, <1>5, <2>4, Zenon DEF TypeOK, TypeFile
  <2> QED
    BY <2>2, <2>3, <2>4, Zenon
<1>7. /\ l \in PCs /\ l \notin Before /\ pc[m] \in Tearing /\ l # "done" /\ l # "teardown"
  BY <1>3, <1>4, Zenon DEF PCs, Tearing, Before
<1>8. pc'[m] = l /\ \A d \in Commands : d # m => pc'[d] = pc[d]
  BY <1>1, <1>2, <1>4, GotoFacts, Zenon
<1>9. InOrder /\ RecInv'
  BY <1>1, <1>3, <1>7, <1>8, MountOrder, Zenon
<1>10. TypeRest'
  BY <1>1, <1>2, <1>3, <1>4, <1>7, TypeMoves, Zenon
<1> QED
  BY <1>1, <1>5, <1>6, <1>9, <1>10, MountLoadDelKeeps, Together, Zenon

LEMMA MountDiesStep ==
    ASSUME IInv, NEW m \in Mounts, MountDies(m)
    PROVE  IInv'
<1>1. TypeOK /\ VMInv /\ SliceInv /\ RaceInv /\ RecInv
  BY Zenon DEF IInv
<1>2. m \in Commands
  BY Kinds, Zenon
<1>3. /\ Goto(m, "exited") /\ mem' = [mem EXCEPT ![m] = <<>>]
      /\ UNCHANGED <<file, rec, vm, fs, share, warned, dropped>>
  BY Zenon DEF MountDies
<1>4. Steady /\ TypeVM'
  BY <1>1, <1>3, SteadySame, TypeVMSame, Zenon
<1>5. raced' \in BOOLEAN /\ dropped' \in SUBSET Mounts
  BY <1>1, Zenon DEF MountDies, TypeOK
<1>6. TypeFile'
  BY <1>1, <1>2, <1>3, <1>5, TypeRecords, TypeSlice, Zenon
<1>7. "exited" \in PCs /\ "exited" \notin Tearing \cup Before
  BY Zenon DEF PCs, Tearing, Before
<1>8. pc'[m] = "exited" /\ \A d \in Commands : d # m => pc'[d] = pc[d]
  BY <1>1, <1>2, <1>3, GotoFacts, Zenon
<1>9. InOrder /\ RecInv'
  BY <1>1, <1>3, <1>7, <1>8, MountOrder, Zenon
<1>10. TypeRest'
  <2>1. faults' \in 0..MaxFaults
    BY <1>1, CommandsAssumption DEF MountDies, TypeOK
  <2>2. pc' \in [Commands -> PCs]
    BY <1>1, <1>2, <1>3, <1>7, Zenon DEF TypeOK, Goto
  <2> QED
    BY <1>1, <1>3, <2>1, <2>2, Zenon DEF TypeOK, TypeRest
<1> QED
  BY <1>1, <1>4, <1>6, <1>9, <1>10, MountDiesKeeps, Together, Zenon

\* A step of an unmount that loads and saves nothing.
LEMMA QuietUnmount ==
    ASSUME IInv, NEW u \in Unmounts, NEW from, NEW to, <<from, to>> \in UnmountMoves,
           pc[u] = from, Goto(u, to), UNCHANGED <<file, mem, rec, vm, faults, raced, dropped>>,
           TypeVM', Steady,
           to = "teardown" => \A m \in Mounts : m = rec[u] => Closed(m)',
           to = "kill" => \A m \in Mounts : m = rec[u] => Torn(m)'
    PROVE  IInv'
<1>1. TypeOK /\ SliceInv /\ RaceInv /\ RecInv
  BY Zenon DEF IInv
<1>2. u \in Commands /\ u \notin Mounts
  BY Kinds, Zenon
<1>3. Moves(u, from, to)
  BY <1>1, <1>2, GotoFacts, Zenon DEF Moves
<1>4. /\ to \in PCs /\ to # "hostUnmount"
      /\ (to = "teardown" => from = "hostUnmount") /\ (to = "kill" => from = "teardown")
  BY Zenon DEF UnmountMoves, PCs
<1>5. SliceInv' /\ RaceInv'
  BY <1>1, <1>3, UnmountMove, QuietKeeps, Zenon
<1>6. InOrder /\ RecInv'
  BY <1>1, <1>2, <1>3, <1>4, OtherOrder, Zenon DEF Moves
<1>7. TypeFile' /\ TypeRest'
  BY <1>1, <1>2, <1>4, TypeFileSame, TypeMoves, Zenon
<1> QED
  BY <1>5, <1>6, <1>7, Together, Zenon

LEMMA UnmountTeardownStep ==
    ASSUME IInv, NEW u \in Unmounts,
           UnmountHostOnly(u) \/ UnmountHostUnmount(u) \/ UnmountTeardown(u)
    PROVE  IInv'
<1>1. TypeOK /\ VMInv /\ RecInv
  BY Zenon DEF IInv
<1>2. /\ <<"hostOnly", "done">> \in UnmountMoves /\ <<"hostUnmount", "teardown">> \in UnmountMoves
      /\ <<"teardown", "kill">> \in UnmountMoves
  BY Zenon DEF UnmountMoves
<1>3. CASE UnmountHostOnly(u)
  <2>1. /\ pc[u] = "hostOnly" /\ Goto(u, "done")
        /\ UNCHANGED <<file, mem, rec, vm, faults, raced, dropped>>
        /\ UNCHANGED <<share, fs, warned>> \/ \E m \in Mounts : HostUnmount(m)
    BY <1>3, Zenon DEF UnmountHostOnly
  <2>2. CASE UNCHANGED <<share, fs, warned>>
    BY <1>1, <1>2, <2>1, <2>2, SteadySame, TypeVMSame, QuietUnmount, Zenon
  <2>3. CASE \E m \in Mounts : HostUnmount(m)
    BY <1>1, <1>2, <2>1, <2>3, SteadyHostUnmount, TypeHostUnmount, QuietUnmount, Zenon
  <2> QED
    BY <2>1, <2>2, <2>3, Zenon
<1>4. CASE UnmountHostUnmount(u)
  <2>1. /\ pc[u] = "hostUnmount" /\ HostUnmount(rec[u]) /\ Goto(u, "teardown")
        /\ UNCHANGED <<file, mem, rec, vm, faults, raced, dropped>>
    BY <1>4, Zenon DEF UnmountHostUnmount
  <2>2. PICK m \in Mounts : m = rec[u]
    BY <1>1, <2>1, RecFacts, Zenon
  <2>3. Steady /\ Closed(m)' /\ TypeVM'
    BY <1>1, <2>1, <2>2, SteadyHostUnmount, TypeHostUnmount, Zenon
  <2>4. \A n \in Mounts : n = rec[u] => Closed(n)'
    BY <2>2, <2>3, Zenon
  <2> QED
    BY <1>2, <2>1, <2>3, <2>4, QuietUnmount, Zenon
<1>5. CASE UnmountTeardown(u)
  <2>1. /\ pc[u] = "teardown" /\ TeardownScript(rec[u]) /\ Goto(u, "kill")
        /\ UNCHANGED <<file, mem, rec, vm, share, faults, raced, dropped>>
    BY <1>5, Zenon DEF UnmountTeardown
  <2>2. PICK m \in Mounts : m = rec[u]
    BY <1>1, <2>1, RecFacts, Zenon
  <2>3. Closed(m)
    BY <1>1, <2>1, <2>2, Zenon DEF VMInv
  <2>4. Steady /\ Torn(m)' /\ TypeVM'
    BY <1>1, <2>1, <2>2, <2>3, SteadyTeardown, TypeTeardown, Zenon
  <2>5. \A n \in Mounts : n = rec[u] => Torn(n)'
    BY <2>2, <2>4, Zenon
  <2> QED
    BY <1>2, <2>1, <2>4, <2>5, QuietUnmount, Zenon
<1> QED
  BY <1>3, <1>4, <1>5, Zenon

LEMMA UnmountStopVMStep ==
    ASSUME IInv, NEW u \in Unmounts, UnmountStopVM(u)
    PROVE  IInv'
<1>1. TypeOK /\ VMInv /\ SliceInv /\ RaceInv /\ RecInv
  BY Zenon DEF IInv
<1>2. u \in Commands /\ u \notin Mounts
  BY Kinds, Zenon
<1> DEFINE s == WithoutDevice(mem[u], DeviceOf[rec[u]])
<1>3. /\ pc[u] = "kill" /\ mem' = [mem EXCEPT ![u] = s] /\ Drop(mem[u], DeviceOf[rec[u]])
      /\ Goto(u, "truncDel") /\ UNCHANGED <<file, rec, share, faults, raced, warned>>
      /\ Killed(rec[u]) \/ UNCHANGED <<vm, fs>>
  BY Zenon DEF UnmountStopVM
<1>4. s \in Seq(Mounts)
  BY <1>1, <1>2, TypeRecords, KeptFacts, Zenon DEF WithoutDevice
<1> HIDE DEF s
<1>5. PICK m \in Mounts : m = rec[u]
  BY <1>1, <1>3, RecFacts, Zenon
<1>6. Torn(m)
  BY <1>1, <1>3, <1>5, Zenon DEF VMInv
<1>7. Steady /\ TypeVM'
  BY <1>1, <1>3, <1>5, <1>6, SteadyKill, SteadySame, TypeKilled, TypeVMSame, Zenon
<1>8. \A n \in Mounts : vm'[n] = "on" => vm[n] = "on"
  BY <1>1, <1>3, Zenon DEF Killed, TypeOK
<1>9. dropped' \in SUBSET Mounts /\ raced' \in BOOLEAN
  BY <1>1, <1>2, <1>3, TypeRecords, TypeDropped, Zenon DEF TypeOK
<1>10. TypeFile'
  BY <1>1, <1>2, <1>3, <1>4, <1>9, TypeSlice, Zenon
<1>11. "truncDel" \in PCs
  BY Zenon DEF PCs
<1>12. pc'[u] = "truncDel" /\ \A d \in Commands : d # u => pc'[d] = pc[d]
  BY <1>1, <1>2, <1>3, GotoFacts, Zenon
<1>13. InOrder /\ RecInv' /\ TypeRest'
  BY <1>1, <1>2, <1>3, <1>11, <1>12, OtherOrder, TypeMoves, Zenon
<1>14. SliceInv' /\ RaceInv'
  BY <1>1, <1>8, UnmountStopVMKeeps, Zenon
<1> QED
  BY <1>7, <1>10, <1>13, <1>14, Together, Zenon

LEMMA UnmountLoadStep ==
    ASSUME IInv, NEW u \in Unmounts, UnmountLoad(u)
    PROVE  IInv'
<1>1. TypeOK /\ VMInv /\ SliceInv /\ RaceInv /\ RecInv
  BY Zenon DEF IInv
<1>2. u \in Commands /\ u \notin Mounts
  BY Kinds, Zenon
<1> DEFINE found == FirstMatch(LoadMounts, DeviceOf[u])
           s == IF found = NoMount THEN <<>> ELSE LoadMounts
           l == IF found = NoMount THEN "hostOnly" ELSE "hostUnmount"
<1>3. /\ pc[u] = "idle" /\ mem' = [mem EXCEPT ![u] = s] /\ rec' = [rec EXCEPT ![u] = found]
      /\ Goto(u, l) /\ Race(u) /\ UNCHANGED <<file, vm, fs, share, faults, warned, dropped>>
  BY Zenon DEF UnmountLoad
<1>4. s \in Seq(Mounts) /\ l \in PCs /\ l \notin {"teardown", "kill"}
      /\ (l = "hostUnmount" => found # NoMount)
  BY <1>1, TypeRecords, Zenon DEF PCs
<1>5. found # NoMount => found \in Mounts /\ found \in Range(LoadMounts) /\ DeviceOf[found] = DeviceOf[u]
  <2>1. LoadMounts \in Seq(Mounts) /\ Range(LoadMounts) \subseteq Mounts
    <3>1. LoadMounts \in Seq(Mounts)
      BY <1>1, TypeRecords, Zenon
    <3> QED
      BY <3>1 DEF Range
  <2> QED
    BY <2>1, FirstMatchFacts, Zenon
<1> HIDE DEF found, s, l
<1>6. found # NoMount => pc[found] \notin Before
  <2>1. \A m \in Range(LoadMounts) : m \in Range(file.recs)
    BY <1>1, LoadFacts, Zenon
  <2> QED
    BY <1>1, <1>5, <2>1, Zenon DEF SliceInv
<1>7. Steady /\ TypeVM' /\ raced' \in BOOLEAN /\ dropped' \in SUBSET Mounts
  BY <1>1, <1>3, SteadySame, TypeVMSame, TypeRace, Zenon DEF TypeOK
<1>8. TypeFile'
  BY <1>1, <1>2, <1>3, <1>4, <1>7, TypeSlice, Zenon
<1>9. pc'[u] = l /\ \A d \in Commands : d # u => pc'[d] = pc[d]
  BY <1>1, <1>2, <1>3, GotoFacts, Zenon
<1>10. rec'[u] = found /\ \A v \in Unmounts : v # u => rec'[v] = rec[v]
  BY <1>1, <1>3, Zenon DEF TypeOK
<1>11. TypeRest'
  <2>1. pc' \in [Commands -> PCs]
    BY <1>1, <1>3, <1>4, Zenon DEF TypeOK, Goto
  <2>2. rec' \in [Unmounts -> Mounts \cup {NoMount}]
    BY <1>1, <1>3, <1>5, Zenon DEF TypeOK
  <2> QED
    BY <1>1, <1>3, <2>1, <2>2, Zenon DEF TypeOK, TypeRest
<1>12. \A m \in Mounts : pc'[m] = pc[m]
  BY <1>2, <1>9, Kinds, Zenon
<1>13. \A v \in Unmounts : v # u => pc'[v] = pc[v]
  BY <1>9, Kinds, Zenon
<1>14. InOrder
  BY <1>4, <1>9, <1>10, <1>12, <1>13, Zenon DEF InOrder
<1>15. RecInv'
  <2>1. ASSUME NEW v \in Unmounts, rec'[v] # NoMount
        PROVE  DeviceOf[rec'[v]] = DeviceOf[v] /\ pc'[rec'[v]] \notin Before
    <3>1. rec'[v] \in Mounts
      BY <1>11, <2>1, Zenon DEF TypeRest
    <3>2. CASE v = u
      BY <1>5, <1>6, <1>10, <1>12, <2>1, <3>2, Zenon
    <3>3. CASE v # u
      BY <1>1, <1>10, <1>12, <2>1, <3>1, <3>3, Zenon DEF RecInv
    <3> QED
      BY <3>2, <3>3, Zenon
  <2>2. \A v \in Unmounts : pc'[v] \in {"hostUnmount", "teardown", "kill"} => rec'[v] # NoMount
    BY <1>1, <1>4, <1>9, <1>10, <1>13, Zenon DEF RecInv
  <2> QED
    BY <2>1, <2>2, Zenon DEF RecInv
<1> QED
  BY <1>1, <1>7, <1>8, <1>11, <1>14, <1>15, UnmountLoadKeeps, Together, Zenon

LEMMA CleanStep ==
    ASSUME IInv, NEW c \in Cleans, CleanLoad(c) \/ CleanCheck(c)
    PROVE  IInv'
<1>1. TypeOK /\ VMInv /\ SliceInv /\ RaceInv /\ RecInv
  BY Zenon DEF IInv
<1>2. c \in Commands /\ c \notin Mounts
  BY Kinds, Zenon
<1> DEFINE live == Kept(mem[c], {m \in Mounts : vm[m] = "on"})
<1>3. live \in Seq(Mounts)
  BY <1>1, <1>2, TypeRecords, KeptFacts, Zenon
<1>4. PICK l \in {"check", "done", "truncDel"} : Goto(c, l)
  BY Zenon DEF CleanLoad, CleanCheck
<1>5. PICK s \in {LoadMounts, live, <<>>} : mem' = [mem EXCEPT ![c] = s]
  BY Zenon DEF CleanLoad, CleanCheck
<1>6. UNCHANGED <<file, rec, vm, fs, share, faults, warned, dropped>>
  BY Zenon DEF CleanLoad, CleanCheck
<1>7. raced' \in BOOLEAN
  BY <1>1, Zenon DEF CleanLoad, CleanCheck, Race, TypeOK
<1> HIDE DEF live
<1>8. s \in Seq(Mounts) /\ dropped' \in SUBSET Mounts
  BY <1>1, <1>3, <1>6, TypeRecords, Zenon DEF TypeOK
<1>9. TypeFile' /\ TypeVM' /\ Steady
  BY <1>1, <1>2, <1>5, <1>6, <1>7, <1>8, TypeSlice, TypeVMSame, SteadySame, Zenon
<1>10. l \in PCs /\ l \notin {"teardown", "kill", "hostUnmount"}
  BY Zenon DEF PCs
<1>11. pc'[c] = l /\ \A d \in Commands : d # c => pc'[d] = pc[d]
  BY <1>1, <1>2, <1>4, GotoFacts, Zenon
<1>12. InOrder /\ RecInv' /\ TypeRest'
  BY <1>1, <1>2, <1>4, <1>6, <1>10, <1>11, OtherOrder, TypeMoves, Zenon
<1> QED
  BY <1>1, <1>9, <1>12, CleanLoadKeeps, CleanCheckKeeps, Together, Zenon

\* The two halves of a save.
LEMMA SaveStep ==
    ASSUME IInv, NEW c \in Commands, Truncate(c) \/ Write(c)
    PROVE  IInv'
<1>1. TypeOK /\ VMInv /\ SliceInv /\ RaceInv /\ RecInv
  BY Zenon DEF IInv
<1>2. UNCHANGED <<rec, vm, fs, share, faults, raced, warned, dropped>>
  BY Zenon DEF Truncate, Write
<1>3. PICK l : /\ Goto(c, l)
               /\ l \in {"writeAdd", "writeDel", "wait", "stop", "done"}
               /\ c \in Mounts => l # "done"
               /\ c \in Mounts /\ l \in {"writeDel", "stop"} => pc[c] \in {"truncDel", "writeDel"}
  BY DEF Truncate, Write, AfterSave
<1>4. /\ l \in PCs /\ l \notin {"teardown", "kill", "hostUnmount"} /\ l \notin Before
      /\ c \in Mounts /\ l \in Tearing => pc[c] \in Tearing
  BY <1>3, Zenon DEF PCs, Before, Tearing
<1>5. pc'[c] = l /\ \A d \in Commands : d # c => pc'[d] = pc[d]
  BY <1>1, <1>3, GotoFacts, Zenon
<1>6. InOrder /\ RecInv'
  <2>1. CASE c \in Mounts
    BY <1>1, <1>2, <1>3, <1>4, <1>5, <2>1, MountOrder, Zenon
  <2>2. CASE c \notin Mounts
    BY <1>1, <1>2, <1>4, <1>5, <2>2, OtherOrder, Zenon
  <2> QED
    BY <2>1, <2>2, Zenon
<1>7. TypeRest' /\ TypeVM' /\ Steady
  BY <1>1, <1>2, <1>3, <1>4, TypeMoves, TypeVMSame, SteadySame, Zenon
<1>8. TypeFile'
  <2>1. /\ mem[c] \in Seq(Mounts) /\ IsInjective(mem[c])
        /\ <<>> \in Seq(Mounts) /\ IsInjective(<<>>)
    BY <1>1, TypeRecords, LoadFacts, Zenon DEF SliceInv
  <2>2. \/ file' = [st |-> "empty", recs |-> <<>>]
        \/ file' = [st |-> "ok", recs |-> mem[c]]
        \/ file' = [st |-> "garbled", recs |-> <<>>]
    BY Zenon DEF Truncate, Write
  <2>3. file' \in [st : {"ok", "empty", "garbled"}, recs : Seq(Mounts)] /\ IsInjective(file'.recs)
    <3>1. ASSUME NEW st \in {"ok", "empty", "garbled"}, NEW recs \in Seq(Mounts),
                 file' = [st |-> st, recs |-> recs]
          PROVE  file' \in [st : {"ok", "empty", "garbled"}, recs : Seq(Mounts)] /\ file'.recs = recs
      BY <3>1, Zenon
    <3> QED
      BY <2>1, <2>2, <3>1, Zenon
  <2>4. mem' \in [Commands -> Seq(Mounts)]
    BY <1>1, <2>1, Zenon DEF Truncate, Write, TypeOK
  <2> QED
    BY <1>1, <1>2, <2>3, <2>4, Zenon DEF TypeFile, TypeOK
<1> QED
  BY <1>1, <1>6, <1>7, <1>8, TruncateKeeps, WriteKeeps, Together, Zenon

\* No command has started.
LEMMA InitInv == Init => IInv
<1> SUFFICES ASSUME Init PROVE IInv
  BY Zenon
<1>1. /\ file = [st |-> "ok", recs |-> <<>>] /\ file.st = "ok" /\ file.recs = <<>>
      /\ Range(<<>>) = {} /\ IsInjective(<<>>)
  BY DEF Init, Range, IsInjective
<1>2. /\ \A c \in Commands : pc[c] = "idle" /\ mem[c] = <<>>
      /\ \A u \in Unmounts : rec[u] = NoMount
      /\ \A m \in Mounts : pc[m] = "idle" /\ vm[m] = "off" /\ fs[m] = "none"
      /\ \A u \in Unmounts : pc[u] = "idle"
  BY Kinds, Zenon DEF Init
<1>3. \A c \in Commands : ~Updating(c) /\ ~Writing(c)
  BY <1>2, Zenon DEF Updating, Writing
<1>4. TypeOK
  <2>1. TypeFile
    <3>1. file \in [st : {"ok", "empty", "garbled"}, recs : Seq(Mounts)]
      BY DEF Init
    <3>2. IsInjective(file.recs)
      BY <1>1, Zenon
    <3>3. mem \in [Commands -> Seq(Mounts)]
      BY DEF Init
    <3>4. raced \in BOOLEAN /\ dropped \in SUBSET Mounts
      BY Zenon DEF Init
    <3> QED
      BY <3>1, <3>2, <3>3, <3>4, Zenon DEF TypeFile
  <2>2. TypeVM
    BY Zenon DEF Init, TypeVM, VMStates, FSStates
  <2>3. TypeRest
    BY CommandsAssumption DEF Init, TypeRest, PCs
  <2> QED
    BY <2>1, <2>2, <2>3, TypeParts, Zenon
<1>5. SliceInv
  BY <1>1, <1>2, Zenon DEF SliceInv
<1>6. RaceInv
  BY <1>1, <1>2, <1>3, Zenon DEF RaceInv, Active
<1>7. RecInv /\ VMInv
  BY <1>2, Zenon DEF RecInv, VMInv, LostOnlyWarned
<1> QED
  BY <1>4, <1>5, <1>6, <1>7, Zenon DEF IInv

LEMMA StutterInv == ASSUME IInv, UNCHANGED vars PROVE IInv'
<1>1. UNCHANGED <<file, pc, mem, rec, vm, fs, share, faults, raced, warned, dropped>>
  BY Zenon DEF vars
<1>2. TypeOK'
  BY <1>1, Zenon DEF IInv, TypeOK
<1>3. SliceInv' /\ RaceInv'
  BY <1>1, Zenon DEF IInv, SliceInv, RaceInv, Updating, Writing, Active
<1>4. RecInv' /\ VMInv'
  BY <1>1, Zenon DEF IInv, RecInv, VMInv, Closed, Torn, LostOnlyWarned
<1> QED
  BY <1>2, <1>3, <1>4, Zenon DEF IInv

LEMMA StepInv == ASSUME IInv, [Next]_vars PROVE IInv'
<1>1. ASSUME NEW m \in Mounts, MountNext(m) PROVE IInv'
  BY <1>1, StartStep, SetupStep, TeardownStep, CrashStep, MountLoadStep, MountLoadDelStep,
     MountDiesStep, Zenon DEF MountNext
<1>2. ASSUME NEW u \in Unmounts, UnmountNext(u) PROVE IInv'
  BY <1>2, UnmountLoadStep, UnmountTeardownStep, UnmountStopVMStep, Zenon DEF UnmountNext
<1> QED
  BY <1>1, <1>2, CleanStep, SaveStep, StutterInv, Zenon DEF Next

-----------------------------------------------------------------------------
(* The theorems                                                            *)

\* Whatever the commands, the invariant holds.
THEOREM Invariance == Spec => []IInv
BY InitInv, StepInv, PTL DEF Spec

\* The variables have their types, and mounts.json never holds two records of
\* one mount, however the saves of mount, unmount and clean overlap
\* (mount.go:216-236).
THEOREM RecordsAreDistinct == Spec => []TypeOK
<1>1. IInv => TypeOK
  BY Zenon DEF IInv
<1> QED
  BY <1>1, Invariance, PTL

\* As long as no two read-modify-writes of mounts.json overlapped and none was
\* cut short, a running mount is in the file between saves (list.go:12).
THEOREM RunningIsListed == Spec => []ListedUnlessRaced
<1>1. ASSUME IInv PROVE ListedUnlessRaced
  <2> SUFFICES ASSUME ~raced, NoSave, NEW m \in Mounts, Active(m)
               PROVE  m \in Range(file.recs)
    BY Zenon DEF ListedUnlessRaced, ActiveMountListed
  <2>1. RaceInv
    BY <1>1, Zenon DEF IInv
  <2>2. \A c \in Commands : ~Writing(c)
    BY Zenon DEF NoSave, Writing
  <2>3. file.st = "ok"
    BY <2>1, <2>2, Zenon DEF RaceInv
  <2> QED
    BY <2>1, <2>3, Zenon DEF RaceInv
<1> QED
  BY <1>1, Invariance, PTL

\* A mount that ended by its own teardown leaves no VM running, and no record
\* unless a racing save put it back (mount.go:237-268).
THEOREM EndedLeavesNothing == Spec => []NothingLeft
<1>1. ASSUME IInv PROVE NothingLeft
  <2>1. VMInv /\ RaceInv
    BY <1>1, Zenon DEF IInv
  <2> QED
    BY <2>1, Zenon DEF VMInv, RaceInv, NothingLeft
<1> QED
  BY <1>1, Invariance, PTL

\* QEMU is killed over a file system that is still mounted only after a
\* warning (mount.go:350-353).
THEOREM NoSilentLoss == Spec => []LostOnlyWarned
<1>1. IInv => LostOnlyWarned
  BY Zenon DEF IInv, VMInv
<1> QED
  BY <1>1, Invariance, PTL

\* An unmount stops no VM but the one of a mount of its device
\* (mount.go:375-381).
THEOREM OwnVMOnly == Spec => StopsOnlyItsDevice
<1> DEFINE A == \A u \in Unmounts, m \in Mounts :
                  /\ pc[u] = "kill" /\ pc'[u] # "kill"
                  /\ vm[m] = "on" /\ vm'[m] = "dead"
                  => DeviceOf[m] = DeviceOf[u]
<1>1. ASSUME IInv, [Next]_vars PROVE [A]_vars
  <2> SUFFICES ASSUME NEW u \in Unmounts, NEW m \in Mounts, pc[u] = "kill", pc'[u] # "kill",
                      vm[m] = "on", vm'[m] = "dead"
               PROVE  DeviceOf[m] = DeviceOf[u]
    BY Zenon
  <2>1. TypeOK /\ RecInv /\ u \in Commands
    BY <1>1, Kinds, Zenon DEF IInv
  <2>2. \A c \in Commands : c # u => \A l : ~Goto(c, l)
    BY <2>1, GotoFacts, Zenon
  <2>3. UnmountStopVM(u)
    <3>1. ASSUME NEW n \in Mounts PROVE ~MountNext(n)
      <4>1. n # u /\ n \in Commands
        BY Kinds, Zenon
      <4>2. \A l : ~Goto(n, l)
        BY <2>2, <4>1, Zenon
      <4> QED
        BY <4>2, Zenon DEF MountNext, StartQEMU, StartFails, BootOk, BootFails, Setup, SetupFails,
           MountLoad, Signal, MountHostUnmount, MountTeardown, MountLoadDel, MountStop, MountDies, VMCrash
    <3>2. ASSUME NEW v \in Unmounts, UnmountNext(v) PROVE UnmountStopVM(u)
      <4>1. CASE v = u
        BY <3>2, <4>1, Zenon DEF UnmountNext, UnmountLoad, UnmountHostOnly, UnmountHostUnmount, UnmountTeardown
      <4>2. CASE v # u
        <5>1. \A l : ~Goto(v, l)
          BY <2>2, <4>2, Kinds, Zenon
        <5> QED
          BY <3>2, <5>1, Zenon DEF UnmountNext, UnmountLoad, UnmountHostOnly, UnmountHostUnmount,
             UnmountTeardown, UnmountStopVM
      <4> QED
        BY <4>1, <4>2, Zenon
    <3>3. ASSUME NEW c \in Cleans PROVE ~CleanLoad(c) /\ ~CleanCheck(c)
      <4>1. \A l : ~Goto(c, l)
        BY <2>2, Kinds, Zenon
      <4> QED
        BY <4>1, Zenon DEF CleanLoad, CleanCheck
    <3>4. ASSUME NEW c \in Commands PROVE ~Truncate(c) /\ ~Write(c)
      <4>1. CASE c = u
        BY <4>1, Zenon DEF Truncate, Write
      <4>2. CASE c # u
        BY <2>2, <4>2, Zenon DEF Truncate, Write
      <4> QED
        BY <4>1, <4>2, Zenon
    <3>5. ~UNCHANGED vars
      BY Zenon DEF vars
    <3> QED
      BY <1>1, <3>1, <3>2, <3>3, <3>4, <3>5, Zenon DEF Next
  <2>4. rec[u] \in Mounts /\ DeviceOf[rec[u]] = DeviceOf[u]
    BY <2>1, RecFacts, Zenon
  <2>5. m = rec[u]
    BY <2>1, <2>3, <2>4, Zenon DEF UnmountStopVM, Killed, TypeOK
  <2> QED
    BY <2>4, <2>5, Zenon
<1>2. Spec => [][A]_vars
  BY <1>1, Invariance, PTL DEF Spec
<1> QED
  BY <1>2, Zenon DEF StopsOnlyItsDevice

=============================================================================

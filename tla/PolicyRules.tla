----------------------------- MODULE PolicyRules -----------------------------
(***************************************************************************)
(* The rules of the auto-demote policy engine (bdfs_policy.c), the socket  *)
(* requests that change them (bdfs_socket.c), and the scan, by the policy  *)
(* thread or for a policy-scan request, over partitions whose subvolume    *)
(* lists and subvolumes change under it.                                   *)
(*                                                                         *)
(* BdfsDaemon models when a scan runs; this module models what it does.  A *)
(* scan holds rules_lock from its first rule to its last, so one runs at a *)
(* time and no rule changes meanwhile.  rule->enabled is always true, and  *)
(* memory allocation succeeds here.                                        *)
(***************************************************************************)
EXTENDS Naturals, FiniteSets, SequencesExt

CONSTANTS Partitions,  \* partitions that can be registered
          Zero,        \* the UUID of zeros, which none has
          Subvols,     \* subvolumes that can be imported
          Home,        \* Home[s]: the partition of s
          Templates,   \* rules to add: the partition they are for, and the
                       \* subvolumes that match by name and size
          Zeroed,      \* a list entry that was never filled in
          FirstCount,  \* entries asked for at first: 64 in the code
          MaxRules     \* bound: rules ever added

ASSUME PolicyAssumption ==
    /\ Zero \notin Partitions /\ Zeroed \notin Subvols
    /\ Home \in [Subvols -> Partitions]
    /\ Templates \subseteq [part    : Partitions,
                            matches : SUBSET (Subvols \cup {Zeroed})]

VARIABLES
    rules,         \* pe->rules: [id, part, t], part the partition_uuid
    next_rule_id,
    running,       \* pe->running
    thread,        \* the policy thread: "on", "due" (about to scan, or
                   \* scanning), "ended" or "joined"
    scan,          \* the scan under way
    queued,        \* the jobs it has enqueued: [rule, subvol]
    listed,        \* kernel: the subvolume list of a partition, or NotThere
    age,           \* file system: "fresh", "old", or "gone" (stat fails)
    granted,       \* history: the ids given out, oldest first
    due            \* history: jobs due since the scan began

engine == <<rules, next_rule_id, running, thread, granted>>
world  == <<listed, age>>
vars   == <<engine, scan, queued, world, due>>

NotThere == [there |-> FALSE, list |-> <<>>]
There(list) == [there |-> TRUE, list |-> list]
NoScan   == [at |-> "none"]
Ids      == {rules[i].id : i \in DOMAIN rules}

Init ==
    /\ rules = <<>> /\ next_rule_id = 1 /\ granted = <<>>
    /\ running = TRUE /\ thread = "on"
    /\ scan = NoScan /\ queued = {} /\ due = {}
    /\ listed = [p \in Partitions |-> There(<<>>)]
    /\ age \in [Subvols -> {"fresh", "old"}]

-----------------------------------------------------------------------------
(* Requests, by the main thread: rules_lock must be free                   *)

Insert(id, part, t) ==
    /\ running /\ scan = NoScan
    /\ Len(granted) < MaxRules
    /\ rules' = Append(rules, [id |-> id, part |-> part, t |-> t])
    /\ next_rule_id' = next_rule_id + 1
    /\ granted' = Append(granted, id)
    /\ UNCHANGED <<running, thread, scan, queued, world, due>>

\* bdfs_policy_add_rule, the engine's interface, for a rule that names its
\* partition.
AddRule(t) == Insert(next_rule_id, t.part, t)

\* The policy-add request, the one caller in the daemon: it parses the UUID,
\* drops it, and passes a rule with partition_uuid zero.
PolicyAdd(t) == Insert(next_rule_id, Zero, t)

\* policy-remove: bdfs_policy_remove_rule (-ENOENT if there is none).
RemoveRule(id) ==
    /\ running /\ scan = NoScan /\ id \in Ids
    /\ rules' = SelectSeq(rules, LAMBDA r : r.id # id)
    /\ UNCHANGED <<next_rule_id, running, thread, granted, scan, queued, world, due>>

\* bdfs_policy_shutdown, called by the main thread when it is not scanning.
Stop ==
    /\ running
    /\ scan # NoScan => scan.by = "policy"
    /\ running' = FALSE
    /\ UNCHANGED <<rules, next_rule_id, thread, granted, scan, queued, world, due>>

\* A bug to check against: the rules are freed without waiting for the thread.
FreeUnjoined ==
    /\ ~running /\ thread # "joined"
    /\ thread' = "joined"
    /\ rules' = <<>>
    /\ UNCHANGED <<next_rule_id, running, granted, scan, queued, world, due>>

\* pthread_join, then the rules are freed.
Join ==
    /\ ~running /\ thread = "ended"
    /\ thread' = "joined"
    /\ rules' = <<>>
    /\ UNCHANGED <<next_rule_id, running, granted, scan, queued, world, due>>

\* policy_thread: the interval is over, or running is seen to be false.
ThreadWakes ==
    /\ thread = "on"
    /\ thread' = IF running THEN "due" ELSE "ended"
    /\ UNCHANGED <<rules, next_rule_id, running, granted, scan, queued, world, due>>

-----------------------------------------------------------------------------
(* bdfs_policy_scan                                                        *)

\* A bug to check against: what cannot be read counts as very old, as the
\* comment on subvol_last_access has it.
MatchesUnread(t, s) == s \in t.matches /\ (s = Zeroed \/ age[s] # "fresh")

\* rule_matches_subvol: name and size as the template says, stat works, and
\* the last access is old.
Matches(t, s) == s \in t.matches /\ s # Zeroed /\ age[s] = "old"

\* BDFS_IOC_LIST_BTRFS_SUBVOLS: the first count entries, and their number.
IsThere(p) == p \in Partitions /\ listed[p].there
Entries(p, count) == SubSeq(listed[p].list, 1, Min({count, Len(listed[p].list)}))
Total(p) == Len(listed[p].list)

\* What a scan that starts now should demote.
Due == {j \in [rule : Ids, subvol : Subvols] :
          \E i \in DOMAIN rules :
             /\ rules[i].id = j.rule
             /\ j.subvol \in rules[i].t.matches /\ age[j.subvol] = "old"
             /\ Contains(listed[rules[i].t.part].list, j.subvol)}

\* rules_lock taken: by the policy thread, which may have been told to stop
\* since it looked, or by the main thread for a policy-scan request.
ScanBegin(by) ==
    /\ scan = NoScan
    /\ IF by = "policy" THEN thread = "due" ELSE running
    /\ scan' = [by |-> by, at |-> "rule", k |-> 1]
    /\ queued' = {}
    /\ due' = Due
    /\ UNCHANGED <<engine, world>>

\* The first list ioctl for rule r succeeds.
FirstList(r) ==
    [by |-> scan.by, k |-> scan.k + 1, rule |-> r,
     at    |-> IF Total(r.part) > FirstCount THEN "again" ELSE "match",
     list  |-> Entries(r.part, FirstCount),
     total |-> Total(r.part)]

\* A bug to check against: the list is asked for until there is one.
ScanRuleRetries ==
    /\ scan.at = "rule" /\ scan.k <= Len(rules)
    /\ IsThere(rules[scan.k].part)
    /\ scan' = FirstList(rules[scan.k])
    /\ UNCHANGED <<engine, queued, world, due>>

\* The next rule; if the list ioctl fails it is skipped.
ScanRule ==
    /\ scan.at = "rule" /\ scan.k <= Len(rules)
    /\ scan' = IF IsThere(rules[scan.k].part) THEN FirstList(rules[scan.k])
               ELSE [scan EXCEPT !.k = @ + 1]
    /\ UNCHANGED <<engine, queued, world, due>>

\* A bug to check against: the list is not asked for again.
ScanNotAgain ==
    /\ scan.at = "again"
    /\ scan' = [scan EXCEPT !.at = "match"]
    /\ UNCHANGED <<engine, queued, world, due>>

\* There were more: the second list ioctl, into a new zeroed array.  Its
\* result is not looked at; if it fails, count is still the number asked for.
ScanAgain ==
    /\ scan.at = "again"
    /\ LET p == scan.rule.part IN
       scan' = [scan EXCEPT
                  !.at = "match",
                  !.list = IF IsThere(p) THEN Entries(p, scan.total)
                           ELSE [i \in 1 .. scan.total |-> Zeroed]]
    /\ UNCHANGED <<engine, queued, world, due>>

\* The next entry of the list; a job for it if it matches.
ScanEntry ==
    /\ scan.at = "match" /\ scan.list # <<>>
    /\ queued' = IF Matches(scan.rule.t, Head(scan.list))
                 THEN queued \cup {[rule |-> scan.rule.id, subvol |-> Head(scan.list)]}
                 ELSE queued
    /\ scan' = [scan EXCEPT !.list = Tail(@)]
    /\ UNCHANGED <<engine, world, due>>

ScanRuleEnd ==
    /\ scan.at = "match" /\ scan.list = <<>>
    /\ scan' = [by |-> scan.by, at |-> "rule", k |-> scan.k]
    /\ UNCHANGED <<engine, queued, world, due>>

ScanEnd ==
    /\ scan.at = "rule" /\ scan.k > Len(rules)
    /\ scan' = NoScan
    /\ thread' = IF scan.by = "policy" THEN "on" ELSE thread
    /\ UNCHANGED <<rules, next_rule_id, running, granted, queued, world, due>>

ScanStep == ScanRule \/ ScanAgain \/ ScanEntry \/ ScanRuleEnd \/ ScanEnd

-----------------------------------------------------------------------------
(* What changes around the engine                                          *)

\* An import adds a subvolume to the list of its partition.
Imported(s) ==
    /\ IsThere(Home[s]) /\ ~Contains(listed[Home[s]].list, s)
    /\ listed' = [listed EXCEPT ![Home[s]].list = Append(@, s)]
    /\ UNCHANGED <<engine, scan, queued, age, due>>

Unregistered(p) ==
    /\ IsThere(p)
    /\ listed' = [listed EXCEPT ![p] = NotThere]
    /\ due' = {j \in due : Home[j.subvol] # p}
    /\ UNCHANGED <<engine, scan, queued, age>>

Registered(p) ==
    /\ ~IsThere(p)
    /\ listed' = [listed EXCEPT ![p] = There(<<>>)]
    /\ UNCHANGED <<engine, scan, queued, age, due>>

\* A subvolume is used, grows old, is deleted, or made again.
Aged(s, a) ==
    /\ a # age[s] /\ (age[s] = "gone" => a = "fresh")
    /\ age' = [age EXCEPT ![s] = a]
    /\ due' = {j \in due : j.subvol # s}
    /\ UNCHANGED <<engine, scan, queued, listed>>

Environment ==
    \/ \E s \in Subvols : Imported(s) \/ \E a \in {"fresh", "old", "gone"} : Aged(s, a)
    \/ \E p \in Partitions : Unregistered(p) \/ Registered(p)

Next ==
    \/ \E t \in Templates : AddRule(t) \/ PolicyAdd(t)
    \/ \E id \in Ids : RemoveRule(id)
    \/ \E by \in {"main", "policy"} : ScanBegin(by)
    \/ Stop \/ ThreadWakes \/ Join
    \/ ScanStep
    \/ Environment

\* The thread that scans keeps running: its only waits are for ioctls and
\* for the queue's lock.
Spec == Init /\ [][Next]_vars /\ WF_vars(ScanStep)

-----------------------------------------------------------------------------
(* Properties                                                              *)

\* Types; every id in use is below next_rule_id; the engine runs only while
\* its thread does.
TypeOK ==
    /\ \A i \in DOMAIN rules : rules[i].t \in Templates /\ rules[i].id < next_rule_id
    /\ running => thread \in {"on", "due"}
    /\ scan.at \in {"none", "rule", "again", "match"}
    /\ \A p \in Partitions : ToSet(listed[p].list) \subseteq Subvols

\* The rule that a scan works with is not freed under it, although the main
\* thread may be about to remove it or to shut the engine down.
RuleInUseIsListed == scan.at \in {"again", "match"} => Contains(rules, scan.rule)

\* A job is for a rule that has not been removed, and names a subvolume of its
\* partition that exists and has not been used lately, even if the partition
\* goes away, or its list grows, between the two list ioctls.
DemotesOnlyOld ==
    [][\A j \in queued' \ queued :
         /\ j.subvol \in Subvols /\ age[j.subvol] = "old"
         /\ \E i \in DOMAIN rules : /\ rules[i].id = j.rule
                                     /\ rules[i].part = Home[j.subvol]]_vars

ScanIsDone == scan.at = "rule" /\ scan.k > Len(rules)

\* At the end of a scan every subvolume that was listed, old and matched when
\* the scan began and has stayed so is queued, for each rule it matches whose
\* partition_uuid is set, also when the list is longer than the first array.
ScanMissesNothing ==
    ScanIsDone => \A i \in DOMAIN rules : \A j \in due :
                     rules[i].id = j.rule /\ rules[i].part # Zero => j \in queued

\* What bdfs_policy.h says of every rule, however it was added: subvolumes of
\* its partition that have not been accessed for longer than age_days are
\* demoted.
OldIsDemoted == ScanIsDone => due \subseteq queued

\* A scan comes to an end, with lists that keep growing.
ScanEnds == (scan # NoScan) ~> (scan = NoScan)
=============================================================================

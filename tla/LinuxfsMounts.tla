--------------------------- MODULE LinuxfsMounts ---------------------------
(***************************************************************************)
(* The linuxfs commands that share the state file mounts.json              *)
(* (src/linuxfs/cmd/mount.go, list.go, clean.go, with vm/vm.go and         *)
(* mount/setup.go).  `linuxfs mount' is a process that boots a microVM,    *)
(* mounts the device inside it, appends a MountRecord to mounts.json and   *)
(* waits for Ctrl+C; `linuxfs unmount' and `linuxfs clean' are separate    *)
(* processes that load the file, act on its records and write it back.     *)
(* Nothing locks the file: loadMounts and saveMounts are separate steps,   *)
(* and os.WriteFile truncates before it writes.                            *)
(*                                                                         *)
(* A MountRecord is named by the mount command that wrote it: its Device,  *)
(* SSHPort and VMPid are DeviceOf, PortOf and the VM of that command.  Two *)
(* commands may be given the same device, and have the same SSH port       *)
(* (10022) unless --ssh-port says otherwise.                               *)
(***************************************************************************)
EXTENDS Naturals, Sequences, Functions

CONSTANTS
    Mounts,      \* `linuxfs mount' commands
    Unmounts,    \* `linuxfs unmount' commands
    Cleans,      \* `linuxfs clean' commands
    NoMount,     \* no record found
    DeviceOf,    \* the device of a mount, the argument of an unmount
    PortOf,      \* the host SSH port of a mount
    MaxFaults    \* bound: VMs and mount processes that die by themselves

ASSUME CommandsAssumption ==
    /\ Mounts \cap Unmounts = {} /\ Mounts \cap Cleans = {} /\ Unmounts \cap Cleans = {}
    /\ NoMount \notin Mounts
    /\ DOMAIN DeviceOf = Mounts \cup Unmounts
    /\ DOMAIN PortOf = Mounts
    /\ MaxFaults \in Nat

Commands == Mounts \cup Unmounts \cup Cleans

VARIABLES
    file,    \* mounts.json: [st: ok, empty (truncated), garbled; recs]
    pc,      \* where each command is
    mem,     \* records: the slice each command is going to save, while in scope
    rec,     \* the record each unmount found
    vm,      \* the QEMU process of each mount
    fs,      \* the file system inside that VM
    share,   \* the host still has the share open
    faults,  \* counter for the bound
    raced,   \* history: a load saw the file between another command's load and
             \* save, or a save was cut short
    warned,  \* history: mounts a teardown printed a warning about
    dropped  \* history: mounts whose record a command took out by its device

vars == <<file, pc, mem, rec, vm, fs, share, faults, raced, warned, dropped>>

VMStates == {"off", "on", "dead"}
\* lazy: umount -l on a file system in use; lost: QEMU killed before the file
\* system was unmounted; crashed: QEMU died by itself before that.
FSStates == {"none", "mounted", "lazy", "clean", "lost", "crashed"}
\* truncAdd and writeAdd, truncDel and writeDel are the two halves of
\* saveMounts; exited is os.Exit or a killed process, done the normal end.
PCs == {"idle", "boot", "setup", "load", "truncAdd", "writeAdd", "wait",
        "hostUnmount", "hostOnly", "teardown", "kill", "check", "loadDel", "truncDel",
        "writeDel", "stop", "exited", "done"}

Init ==
    /\ file = [st |-> "ok", recs |-> <<>>]
    /\ pc = [c \in Commands |-> "idle"]
    /\ mem = [c \in Commands |-> <<>>]
    /\ rec = [u \in Unmounts |-> NoMount]
    /\ vm = [m \in Mounts |-> "off"]
    /\ fs = [m \in Mounts |-> "none"]
    /\ share = [m \in Mounts |-> FALSE]
    /\ faults = 0
    /\ raced = FALSE
    /\ warned = {}
    /\ dropped = {}

Goto(c, l) == pc' = [pc EXCEPT ![c] = l]

-----------------------------------------------------------------------------
(* mounts.json *)

\* loadMounts: an empty or garbled file is a JSON error, and every caller but
\* the two that test err goes on with no records.
LoadMounts == IF file.st = "ok" THEN file.recs ELSE <<>>

\* Command c has loaded the records and not yet saved them.
Updating(c) ==
    \/ pc[c] \in {"truncAdd", "writeAdd", "check", "truncDel", "writeDel"}
    \/ c \in Unmounts /\ pc[c] \in {"hostUnmount", "teardown", "kill"}

Race(c) == raced' = (raced \/ \E d \in Commands \ {c} : Updating(d))

\* A loop that appends the records of the mounts in S, and no others.
Kept(recs, S) ==
    LET kept[i \in 0..Len(recs)] ==
            IF i = 0 THEN <<>>
            ELSE IF recs[i] \in S THEN Append(kept[i - 1], recs[i])
            ELSE kept[i - 1]
    IN  kept[Len(recs)]

\* A bug to check against: nothing is appended to `updated'.
ForgetAll(recs, dev) == <<>>

\* The `updated' loops: every record but those of this device.
WithoutDevice(recs, dev) == Kept(recs, {m \in Mounts : DeviceOf[m] # dev})

Drop(recs, dev) == dropped' = dropped \cup {m \in Range(recs) : DeviceOf[m] = dev}

\* os.WriteFile, first half: O_TRUNC.
Truncate(c) ==
    /\ pc[c] \in {"truncAdd", "truncDel"}
    /\ file' = [st |-> "empty", recs |-> <<>>]
    /\ Goto(c, IF pc[c] = "truncAdd" THEN "writeAdd" ELSE "writeDel")
    /\ UNCHANGED <<mem, rec, vm, fs, share, faults, raced, warned, dropped>>

\* Where saveMounts returns to.
AfterSave(c) ==
    CASE pc[c] = "writeAdd" -> "wait"
      [] pc[c] = "writeDel" /\ c \in Mounts -> "stop"
      [] OTHER -> "done"

\* os.WriteFile, second half, at offset 0 of the file as it is by now: over
\* another command's longer text it leaves that text's tail behind.
Write(c) ==
    /\ pc[c] \in {"writeAdd", "writeDel"}
    /\ \/ file' = [st |-> "ok", recs |-> mem[c]]
       \/ /\ file.st # "empty" /\ file # [st |-> "ok", recs |-> mem[c]]
          /\ file' = [st |-> "garbled", recs |-> <<>>]
    /\ mem' = [mem EXCEPT ![c] = <<>>]
    /\ Goto(c, AfterSave(c))
    /\ UNCHANGED <<rec, vm, fs, share, faults, raced, warned, dropped>>

-----------------------------------------------------------------------------
(* The microVM *)

\* The VM whose SSH daemon answers on a host port.
VMAt(port) == {m \in Mounts : vm[m] = "on" /\ PortOf[m] = port}

\* QEMU is gone: what that means for the file system it had mounted.
Killed(m) ==
    /\ vm' = [vm EXCEPT ![m] = IF @ = "on" THEN "dead" ELSE @]
    /\ fs' = [fs EXCEPT ![m] =
                IF vm[m] = "on" /\ @ \in {"mounted", "lazy"} THEN "lost" ELSE @]

\* AutoUnmount or UnmountSSHFS of m's share; a failure is only a warning.  A
\* file system detached by umount -l is unmounted once its last user is gone.
HostUnmount(m) ==
    \/ /\ warned' = IF share[m] THEN warned \cup {m} ELSE warned
       /\ UNCHANGED <<share, fs>>
    \/ /\ share' = [share EXCEPT ![m] = FALSE]
       /\ fs' = [fs EXCEPT ![m] = IF @ = "lazy" THEN "clean" ELSE @]
       /\ UNCHANGED warned

\* buildTeardownScript over ssh to the port of r: it stops the share server and runs
\* `umount -l /mnt/linuxfs || true' in whichever VM answers.  If ssh fails the
\* caller prints a warning and goes on.
TeardownScript(r) ==
    \/ warned' = warned \cup {r} /\ UNCHANGED fs
    \/ /\ \E m \in VMAt(PortOf[r]) :
             fs' = [fs EXCEPT ![m] =
                      IF @ = "mounted" THEN IF share[m] THEN "lazy" ELSE "clean"
                                       ELSE @]
       /\ UNCHANGED warned

\* QEMU dies by itself.
VMCrash(m) ==
    /\ vm[m] = "on"
    /\ vm' = [vm EXCEPT ![m] = "dead"]
    /\ fs' = [fs EXCEPT ![m] = IF @ \in {"mounted", "lazy"} THEN "crashed" ELSE @]
    /\ faults < MaxFaults /\ faults' = faults + 1
    /\ UNCHANGED <<file, pc, mem, rec, share, raced, warned, dropped>>

-----------------------------------------------------------------------------
(* linuxfs mount *)

\* v.Start: QEMU binds the forwarded SSH port, or exits at once.
StartQEMU(m) ==
    /\ pc[m] = "idle"
    /\ VMAt(PortOf[m]) = {}
    /\ vm' = [vm EXCEPT ![m] = "on"]
    /\ Goto(m, "boot")
    /\ UNCHANGED <<file, mem, rec, fs, share, faults, raced, warned, dropped>>

\* No QEMU, no image, no overlay, or the port is taken: os.Exit(1).
StartFails(m) ==
    /\ pc[m] = "idle"
    /\ Goto(m, "exited")
    /\ UNCHANGED <<file, mem, rec, vm, fs, share, faults, raced, warned, dropped>>

\* waitForSSH and waitForCloudInit.
BootOk(m) ==
    /\ pc[m] = "boot"
    /\ vm[m] = "on"
    /\ Goto(m, "setup")
    /\ UNCHANGED <<file, mem, rec, vm, fs, share, faults, raced, warned, dropped>>

\* They gave up: os.Exit(1), before Stop is deferred.
BootFails(m) ==
    /\ pc[m] = "boot"
    /\ Goto(m, "exited")
    /\ UNCHANGED <<file, mem, rec, vm, fs, share, faults, raced, warned, dropped>>

\* mount.Setup, or the sshfs branch; the host's auto-mount may fail.
Setup(m) ==
    /\ pc[m] = "setup"
    /\ vm[m] = "on"
    /\ fs' = [fs EXCEPT ![m] = "mounted"]
    /\ \E mounted \in BOOLEAN : share' = [share EXCEPT ![m] = mounted]
    /\ Goto(m, "load")
    /\ UNCHANGED <<file, mem, rec, vm, faults, raced, warned, dropped>>

\* The in-VM script (set -e), the share port or sshfs failed: os.Exit(1) skips
\* the deferred Stop.
SetupFails(m) ==
    /\ pc[m] = "setup"
    /\ \/ UNCHANGED fs
       \/ vm[m] = "on" /\ fs' = [fs EXCEPT ![m] = "mounted"]
    /\ Goto(m, "exited")
    /\ UNCHANGED <<file, mem, rec, vm, share, faults, raced, warned, dropped>>

\* records, _ := loadMounts(); append.
MountLoad(m) ==
    /\ pc[m] = "load"
    /\ mem' = [mem EXCEPT ![m] = Append(LoadMounts, m)]
    /\ Goto(m, "truncAdd")
    /\ Race(m)
    /\ UNCHANGED <<file, rec, vm, fs, share, faults, warned, dropped>>

\* A bug to check against: the handler jumps back to the load.
SignalLoadsAgain(m) ==
    /\ pc[m] = "wait"
    /\ Goto(m, "load")
    /\ UNCHANGED <<file, mem, rec, vm, fs, share, faults, raced, warned, dropped>>

\* Ctrl+C, or SIGTERM.
Signal(m) ==
    /\ pc[m] = "wait"
    /\ Goto(m, "hostUnmount")
    /\ UNCHANGED <<file, mem, rec, vm, fs, share, faults, raced, warned, dropped>>

MountHostUnmount(m) ==
    /\ pc[m] = "hostUnmount"
    /\ HostUnmount(m)
    /\ Goto(m, "teardown")
    /\ UNCHANGED <<file, mem, rec, vm, faults, raced, dropped>>

MountTeardown(m) ==
    /\ pc[m] = "teardown"
    /\ TeardownScript(m)
    /\ Goto(m, "loadDel")
    /\ UNCHANGED <<file, mem, rec, vm, share, faults, raced, dropped>>

\* A bug to check against: the record is left to clean.
MountLoadDelSkips(m) ==
    /\ pc[m] = "loadDel"
    /\ Goto(m, "stop")
    /\ UNCHANGED <<file, mem, rec, vm, fs, share, faults, raced, warned, dropped>>

\* Remove from the state file, unless it cannot be read.
MountLoadDel(m) ==
    /\ pc[m] = "loadDel"
    /\ IF file.st = "ok"
       THEN /\ mem' = [mem EXCEPT ![m] = WithoutDevice(file.recs, DeviceOf[m])]
            /\ Drop(file.recs, DeviceOf[m])
            /\ Goto(m, "truncDel")
       ELSE Goto(m, "stop") /\ UNCHANGED <<mem, dropped>>
    /\ Race(m)
    /\ UNCHANGED <<file, rec, vm, fs, share, faults, warned>>

\* The deferred v.Stop().
MountStop(m) ==
    /\ pc[m] = "stop"
    /\ Killed(m)
    /\ Goto(m, "done")
    /\ UNCHANGED <<file, mem, rec, share, faults, raced, warned, dropped>>

\* The mount process is killed, or its terminal goes away; QEMU lives on.
MountDies(m) ==
    /\ pc[m] \notin {"idle", "exited", "done"}
    /\ Goto(m, "exited")
    /\ faults < MaxFaults /\ faults' = faults + 1
    /\ raced' = (raced \/ pc[m] \in {"writeAdd", "writeDel"})
    /\ mem' = [mem EXCEPT ![m] = <<>>]
    /\ UNCHANGED <<file, rec, vm, fs, share, warned, dropped>>

-----------------------------------------------------------------------------
(* linuxfs unmount *)

\* A bug to check against: the first record is taken whatever its device.
FirstMatchIsHead(recs, dev) ==
    IF recs = <<>> THEN NoMount ELSE Head(recs)

\* The first record of the device, if any.
FirstMatch(recs, dev) ==
    LET match == {i \in DOMAIN recs : DeviceOf[recs[i]] = dev}
    IN  IF match = {} THEN NoMount
        ELSE recs[CHOOSE i \in match : \A j \in match : i <= j]

\* Load once; with no record only the host unmount is left to do.
UnmountLoad(u) ==
    LET found == FirstMatch(LoadMounts, DeviceOf[u])
    IN  /\ pc[u] = "idle"
        /\ mem' = [mem EXCEPT ![u] = IF found = NoMount THEN <<>> ELSE LoadMounts]
        /\ rec' = [rec EXCEPT ![u] = found]
        /\ Goto(u, IF found = NoMount THEN "hostOnly" ELSE "hostUnmount")
        /\ Race(u)
        /\ UNCHANGED <<file, vm, fs, share, faults, warned, dropped>>

\* The argument may be the mount point of a share nobody has a record of.
UnmountHostOnly(u) ==
    /\ pc[u] = "hostOnly"
    /\ \/ UNCHANGED <<share, fs, warned>>
       \/ \E m \in Mounts : DeviceOf[m] = DeviceOf[u] /\ HostUnmount(m)
    /\ Goto(u, "done")
    /\ UNCHANGED <<file, mem, rec, vm, faults, raced, dropped>>

\* A bug to check against: the in-VM teardown is skipped.
UnmountHostUnmountKills(u) ==
    /\ pc[u] = "hostUnmount"
    /\ HostUnmount(rec[u])
    /\ Goto(u, "kill")
    /\ UNCHANGED <<file, mem, rec, vm, faults, raced, dropped>>

UnmountHostUnmount(u) ==
    /\ pc[u] = "hostUnmount"
    /\ HostUnmount(rec[u])
    /\ Goto(u, "teardown")
    /\ UNCHANGED <<file, mem, rec, vm, faults, raced, dropped>>

\* RunScriptOnPort with the recorded port.
UnmountTeardown(u) ==
    /\ pc[u] = "teardown"
    /\ TeardownScript(rec[u])
    /\ Goto(u, "kill")
    /\ UNCHANGED <<file, mem, rec, vm, share, faults, raced, dropped>>

\* stopProcess on the recorded pid unless --no-stop-vm; then save the records
\* loaded at the start without the device.
UnmountStopVM(u) ==
    /\ pc[u] = "kill"
    /\ Killed(rec[u]) \/ UNCHANGED <<vm, fs>>
    /\ mem' = [mem EXCEPT ![u] = WithoutDevice(@, DeviceOf[rec[u]])]
    /\ Drop(mem[u], DeviceOf[rec[u]])
    /\ Goto(u, "truncDel")
    /\ UNCHANGED <<file, rec, share, faults, raced, warned>>

-----------------------------------------------------------------------------
(* linuxfs clean *)

CleanLoad(c) ==
    /\ pc[c] = "idle"
    /\ mem' = [mem EXCEPT ![c] = LoadMounts]
    /\ Goto(c, IF file.st = "ok" THEN "check" ELSE "done")
    /\ Race(c)
    /\ UNCHANGED <<file, rec, vm, fs, share, faults, warned, dropped>>

\* Split the records by isProcessAlive(VMPid); save only if some are stale and
\* this is not a dry run.
CleanCheck(c) ==
    LET live == Kept(mem[c], {m \in Mounts : vm[m] = "on"})
    IN  /\ pc[c] = "check"
        /\ \/ live # mem[c] /\ Goto(c, "truncDel") /\ mem' = [mem EXCEPT ![c] = live]
           \/ Goto(c, "done") /\ mem' = [mem EXCEPT ![c] = <<>>]
        /\ UNCHANGED <<file, rec, vm, fs, share, faults, raced, warned, dropped>>

-----------------------------------------------------------------------------
MountNext(m) ==
    \/ StartQEMU(m) \/ StartFails(m) \/ BootOk(m) \/ BootFails(m)
    \/ Setup(m) \/ SetupFails(m) \/ MountLoad(m) \/ Signal(m)
    \/ MountHostUnmount(m) \/ MountTeardown(m) \/ MountLoadDel(m)
    \/ MountStop(m) \/ MountDies(m) \/ VMCrash(m)

UnmountNext(u) ==
    \/ UnmountLoad(u) \/ UnmountHostOnly(u) \/ UnmountHostUnmount(u)
    \/ UnmountTeardown(u) \/ UnmountStopVM(u)

Next ==
    \/ \E m \in Mounts : MountNext(m)
    \/ \E u \in Unmounts : UnmountNext(u)
    \/ \E c \in Cleans : CleanLoad(c) \/ CleanCheck(c)
    \/ \E c \in Commands : Truncate(c) \/ Write(c)

Spec == Init /\ [][Next]_vars

-----------------------------------------------------------------------------
(* Properties *)

\* The variables have their types, and mounts.json never holds two records of
\* one mount: a command appends once.
TypeOK ==
    /\ file \in [st : {"ok", "empty", "garbled"}, recs : Seq(Mounts)]
    /\ IsInjective(file.recs)
    /\ pc \in [Commands -> PCs]
    /\ mem \in [Commands -> Seq(Mounts)]
    /\ rec \in [Unmounts -> Mounts \cup {NoMount}]
    /\ vm \in [Mounts -> VMStates]
    /\ fs \in [Mounts -> FSStates]
    /\ share \in [Mounts -> BOOLEAN]
    /\ faults \in 0..MaxFaults
    /\ raced \in BOOLEAN
    /\ warned \in SUBSET Mounts
    /\ dropped \in SUBSET Mounts

\* m is mounted, its VM runs, and no unmount and no other mount has taken out
\* the records of its device.
Active(m) == pc[m] = "wait" /\ vm[m] = "on" /\ m \notin dropped

NoSave == \A c \in Commands : pc[c] \notin {"writeAdd", "writeDel"}

\* Between saves an active mount is in mounts.json, so that list, unmount and
\* clean see it (list.go:12, "so 'list' and 'unmount' work").
ActiveMountListed ==
    NoSave => \A m \in Mounts : Active(m) => m \in Range(file.recs)

\* That holds as long as no two read-modify-writes of the file overlapped and
\* none was cut short: the saves of clean, of unmount and of another mount's
\* teardown drop no record but their own, whatever died meanwhile.
ListedUnlessRaced == ~raced => ActiveMountListed

\* A mount that ended by its own teardown leaves no VM running, and no record
\* behind unless a racing save put it back, whatever unmount and clean did to
\* the file and to the VM meanwhile (mount.go:237-268).
NothingLeft ==
    \A m \in Mounts : pc[m] = "done" =>
        vm[m] # "on" /\ (raced \/ m \notin Range(file.recs))

\* An unmount stops no VM but the one of a mount of the device it was given
\* (stopProcess on the recorded pid, mount.go:375-381).
StopsOnlyItsDevice ==
    [][\A u \in Unmounts, m \in Mounts :
          /\ pc[u] = "kill" /\ pc'[u] # "kill"
          /\ vm[m] = "on" /\ vm'[m] = "dead"
          => DeviceOf[m] = DeviceOf[u]]_vars

\* QEMU is killed over a file system that is still mounted only after a
\* warning about its teardown, by whichever of the mount and an unmount tears
\* it down (mount.go:350-353: the teardown "ensures dirty page-cache data is
\* flushed and the journal is closed cleanly before QEMU is killed").
LostOnlyWarned == \A m \in Mounts : fs[m] = "lost" => m \in warned
=============================================================================

---------------------------- MODULE ImageUpdate ----------------------------
(***************************************************************************)
(* boot/bdfs-image-update, which rotates the root image of an immutable    *)
(* system, and the choice of an image by the boot script bdfs-root.        *)
(*                                                                         *)
(* The script works on three names (current, .prev, .new) of the image     *)
(* store and takes no lock: the systemd timer and an administrator may run *)
(* it at the same time.  A name refers to an inode, because a download     *)
(* writes to the file it opened, whatever that is called meanwhile.  An    *)
(* image is good when the checks of the script accept it.  The BTRFS       *)
(* snapshot taken before the rotation touches none of the three names.     *)
(***************************************************************************)
EXTENDS Naturals, Sequences

CONSTANTS Procs,         \* concurrent runs of the script
          Versions,      \* images the update server may offer
          MaxRuns,       \* bound: runs of the script
          MaxInterrupts  \* bound: crashes and terminated runs

ASSUME UpdateAssumption == Versions # {} /\ MaxRuns \in Nat /\ MaxInterrupts \in Nat

VARIABLES
    current, prev, new,  \* the inode of a name; 0: no such file
    content,             \* inode -> version, and whether it passes the checks
    pc,                  \* where a run of the script is
    fd,                  \* the inode its download writes to
    up,                  \* the system is booted
    reboot_required,     \* /run/bdfs/reboot-required exists
    runs, interrupts,    \* counters for the bounds
    kept,                \* history: .prev as the last rotation left it
    overlapped           \* history: a run started before another had ended

names == <<current, prev, new>>
bound == <<runs, interrupts>>
vars  == <<current, prev, new, content, pc, fd, up, reboot_required,
           runs, interrupts, kept, overlapped>>

Outcomes == {"pass", "fail"}
Good(i)  == i # 0 /\ content[i].checks = "pass"

Init ==
    /\ content = << [ver |-> 0, checks |-> "pass"] >>
    /\ current = 1 /\ prev = 0 /\ new = 0
    /\ pc = [p \in Procs |-> "idle"]
    /\ fd = [p \in Procs |-> 0]
    /\ up = TRUE
    /\ reboot_required = FALSE
    /\ runs = 0 /\ interrupts = 0
    /\ kept = 0
    /\ overlapped = FALSE

-----------------------------------------------------------------------------
(* The script                                                              *)

Goto(p, from, to) == pc[p] = from /\ pc' = [pc EXCEPT ![p] = to]

\* curl -o or cp: creates .new or truncates what is there.
Fetch(p, v) ==
    LET i == IF new = 0 THEN Len(content) + 1 ELSE new
        file == [ver |-> v, checks |-> "fail"]
    IN
    /\ up
    /\ runs < MaxRuns /\ runs' = runs + 1
    /\ Goto(p, "idle", "fetch")
    /\ new' = i
    /\ fd' = [fd EXCEPT ![p] = i]
    /\ content' = IF new = 0 THEN Append(content, file)
                             ELSE [content EXCEPT ![i] = file]
    /\ overlapped' = (overlapped \/ \E q \in Procs : pc[q] # "idle")
    /\ UNCHANGED <<current, prev, up, reboot_required, interrupts, kept>>

\* The file is complete; it may still be one the checks refuse.
Fetched(p) ==
    /\ Goto(p, "fetch", "verify")
    /\ \E c \in Outcomes : content' = [content EXCEPT ![fd[p]].checks = c]
    /\ UNCHANGED <<names, fd, up, reboot_required, bound, kept, overlapped>>

\* exit: the EXIT trap removes .new.
Exit(p) ==
    /\ pc' = [pc EXCEPT ![p] = "idle"]
    /\ new' = 0
    /\ UNCHANGED <<current, prev, content, fd, up, runs, kept, overlapped>>

\* The download failed, or SHA-256 or GPG refused the image or were required
\* and missing: die.
FetchOrChecksumFails(p) ==
    /\ pc[p] \in {"fetch", "verify"}
    /\ Exit(p)
    /\ UNCHANGED <<reboot_required, interrupts>>

\* SHA-256 and GPG have no objection; without a published hash they are
\* skipped.
ChecksumPasses(p) ==
    /\ Goto(p, "verify", "compare")
    /\ new # 0
    /\ UNCHANGED <<names, content, fd, up, reboot_required, bound, kept, overlapped>>

\* Without --force: same hash as the current image, exit 0.  A file that is
\* gone makes sha256sum fail, and set -e ends the script.
Unchanged(p) ==
    /\ pc[p] = "compare"
    /\ new # 0 /\ current # 0 => content[current] = content[new]
    /\ current = 0 => new = 0
    /\ Exit(p)
    /\ UNCHANGED <<reboot_required, interrupts>>

Changed(p) ==
    /\ Goto(p, "compare", "dwarfsck")
    /\ new # 0
    /\ UNCHANGED <<names, content, fd, up, reboot_required, bound, kept, overlapped>>

\* dwarfsck refuses the image: die.  --dry-run stops here too.
DwarfsckFailsOrDryRun(p) ==
    /\ pc[p] = "dwarfsck"
    /\ Exit(p)
    /\ UNCHANGED <<reboot_required, interrupts>>

\* A bug to check against: the result of dwarfsck is only logged.
DwarfsckIgnored(p) ==
    /\ Goto(p, "dwarfsck", "rotate")
    /\ new # 0
    /\ UNCHANGED <<names, content, fd, up, reboot_required, bound, kept, overlapped>>

DwarfsckPasses(p) ==
    /\ Goto(p, "dwarfsck", "rotate")
    /\ Good(new)
    /\ UNCHANGED <<names, content, fd, up, reboot_required, bound, kept, overlapped>>

\* rm -f "$PREV_IMAGE"
RmPrev(p) ==
    /\ Goto(p, "rotate", "mv_current")
    /\ prev' = 0
    /\ UNCHANGED <<current, new, content, fd, up, reboot_required, bound, kept, overlapped>>

\* A bug to check against: .new is cleaned up before the second rename.
MvCurrentAndNew(p) ==
    /\ Goto(p, "mv_current", "mv_new")
    /\ prev' = current /\ current' = 0 /\ new' = 0
    /\ UNCHANGED <<content, fd, up, reboot_required, bound, kept, overlapped>>

\* mv "$CURRENT_IMAGE" "$PREV_IMAGE", if there is a current image
MvCurrent(p) ==
    /\ Goto(p, "mv_current", "mv_new")
    /\ IF current # 0 THEN prev' = current /\ current' = 0
                      ELSE UNCHANGED <<prev, current>>
    /\ UNCHANGED <<new, content, fd, up, reboot_required, bound, kept, overlapped>>

\* mv "$NEW_IMAGE" "$CURRENT_IMAGE": the commit point
MvNew(p) ==
    /\ Goto(p, "mv_new", "flag")
    /\ new # 0
    /\ current' = new /\ new' = 0
    /\ kept' = prev
    /\ UNCHANGED <<prev, content, fd, up, reboot_required, bound, overlapped>>

\* A bug to check against: a failed rotation takes the old image along.
MvNewFailsCleansUp(p) ==
    /\ pc[p] = "mv_new"
    /\ new = 0
    /\ pc' = [pc EXCEPT ![p] = "idle"]
    /\ prev' = 0
    /\ UNCHANGED <<current, new, content, fd, up, reboot_required, bound, kept,
                   overlapped>>

\* .new is gone, mv fails, set -e ends the script.
MvNewFails(p) ==
    /\ pc[p] = "mv_new"
    /\ new = 0
    /\ Exit(p)
    /\ UNCHANGED <<reboot_required, interrupts>>

\* A bug to check against: a rotation that succeeded drops the old image.
FlagDropsPrev(p) ==
    /\ pc[p] = "flag"
    /\ pc' = [pc EXCEPT ![p] = "idle"]
    /\ prev' = 0 /\ new' = 0
    /\ reboot_required' = TRUE
    /\ UNCHANGED <<current, content, fd, up, bound, kept, overlapped>>

\* Write the flag file; exit 0.
Flag(p) ==
    /\ pc[p] = "flag"
    /\ Exit(p)
    /\ reboot_required' = TRUE
    /\ UNCHANGED interrupts

-----------------------------------------------------------------------------
(* Interruptions and boot                                                  *)

\* SIGTERM (TimeoutStartSec of the unit) or a command that fails under
\* set -e: the trap runs.
Terminated(p) ==
    /\ pc[p] # "idle"
    /\ interrupts < MaxInterrupts /\ interrupts' = interrupts + 1
    /\ Exit(p)
    /\ UNCHANGED reboot_required

\* Power loss or a reboot: no trap runs, /run is empty afterwards.
Crash ==
    /\ up
    /\ interrupts < MaxInterrupts /\ interrupts' = interrupts + 1
    /\ up' = FALSE
    /\ pc' = [p \in Procs |-> "idle"]
    /\ reboot_required' = FALSE
    /\ UNCHANGED <<names, content, fd, runs, kept, overlapped>>

\* The inode bdfs-root mounts as the lower layer, 0 if it dies.
BootImage(rollback) == IF rollback /\ prev # 0 THEN prev ELSE current

Boot(rollback) ==
    /\ ~up
    /\ Good(BootImage(rollback))
    /\ up' = TRUE
    /\ UNCHANGED <<names, content, pc, fd, reboot_required, bound, kept, overlapped>>

\* bdfs-root dies whichever way the system is booted: the emergency shell.
EmergencyShell ==
    /\ ~up
    /\ \A rollback \in BOOLEAN : ~Good(BootImage(rollback))
    /\ UNCHANGED vars

Done ==
    /\ up /\ runs = MaxRuns /\ interrupts = MaxInterrupts
    /\ \A p \in Procs : pc[p] = "idle"
    /\ UNCHANGED vars

Step(p) ==
    \/ Fetched(p) \/ FetchOrChecksumFails(p) \/ ChecksumPasses(p)
    \/ Unchanged(p) \/ Changed(p)
    \/ DwarfsckFailsOrDryRun(p) \/ DwarfsckPasses(p)
    \/ RmPrev(p) \/ MvCurrent(p) \/ MvNew(p) \/ MvNewFails(p) \/ Flag(p)
    \/ Terminated(p)

Next ==
    \/ \E p \in Procs, v \in Versions : Fetch(p, v)
    \/ \E p \in Procs : Step(p)
    \/ Crash
    \/ \E rollback \in BOOLEAN : Boot(rollback)
    \/ EmergencyShell
    \/ Done

Spec == Init /\ [][Next]_vars

-----------------------------------------------------------------------------
(* Properties                                                              *)

Inodes == 0..Len(content)

\* Types: the names and downloads refer to files that were created.
TypeOK ==
    /\ content \in Seq([ver : Versions \cup {0}, checks : Outcomes])
    /\ current \in Inodes /\ prev \in Inodes /\ new \in Inodes
    /\ pc \in [Procs -> {"idle", "fetch", "verify", "compare", "dwarfsck", "rotate",
                         "mv_current", "mv_new", "flag"}]
    /\ fd \in [Procs -> Inodes]
    /\ up \in BOOLEAN /\ reboot_required \in BOOLEAN
    /\ runs \in 0..MaxRuns /\ interrupts \in 0..MaxInterrupts
    /\ kept \in Inodes
    /\ overlapped \in BOOLEAN

\* "Instant rollback": whenever the power fails, a boot with bdfs.rollback
\* finds a good image, if runs do not overlap and none was interrupted before.
RollbackBoots ==
    ~up /\ ~overlapped /\ interrupts = 1 => Good(BootImage(TRUE))

\* "The update itself is atomic": at the first power failure a normal boot
\* finds a good image, but between the two renames, when the old image is
\* .prev and the verified one .new.
BootableUnlessBetweenRenames ==
    ~up /\ ~overlapped /\ interrupts = 1 =>
        Good(current) \/ (current = 0 /\ Good(prev) /\ Good(new))

\* "New images are verified with dwarfsck before being rotated into place":
\* as long as runs do not overlap, the active and the previous image are good
\* ones, however often a run was interrupted.
OnlyVerifiedImages ==
    ~overlapped => \A i \in {current, prev} : i # 0 => Good(i)

NoRun == \A p \in Procs : pc[p] = "idle"

\* "The .prev image is retained until the next successful update rotation":
\* by every run that ends by itself, with whatever result.
PrevRetained ==
    NoRun /\ ~overlapped /\ interrupts = 0 /\ kept # 0 => prev = kept

\* Two overlapping runs that end by themselves may leave the system without a
\* current image, but never without any image.
SomeImageSurvives ==
    NoRun /\ runs <= 2 /\ interrupts = 0 => current # 0 \/ prev # 0
=============================================================================

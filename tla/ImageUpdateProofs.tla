------------------------- MODULE ImageUpdateProofs -------------------------
(***************************************************************************)
(* Proofs about ImageUpdate, for any number of processes, versions, runs   *)
(* and interruptions.                                                      *)
(*                                                                         *)
(* As long as runs do not overlap the one run that is under way is the     *)
(* only one to touch the three names, so where it stands says what they    *)
(* refer to.  That is the inductive invariant; each promise of the         *)
(* documentation is read off it at the moment of an interruption or at the *)
(* end of a run.                                                           *)
(***************************************************************************)
EXTENDS ImageUpdate, SequenceTheorems, TLAPS

Image == [ver : Versions \cup {0}, checks : Outcomes]

Verified == {"rotate", "mv_current", "mv_new"}
Between  == {"mv_current", "mv_new"}

\* No two runs are under way unless they overlapped.
OneRun ==
    ~overlapped => \A p, q \in Procs : pc[p] # "idle" /\ pc[q] # "idle" => p = q

\* A run that is alone downloads to .new, which is neither of the other two,
\* and has verified it before it starts to rotate; what was rotated is good.
FileInv ==
    ~overlapped =>
        /\ new # 0 => new # current /\ new # prev
        /\ \A p \in Procs : pc[p] = "fetch" => new # 0 /\ fd[p] = new
        /\ \A p \in Procs : pc[p] \in Verified => Good(new)
        /\ current # 0 => Good(current)
        /\ prev # 0 => Good(prev)

\* Without an interruption so far, the current image is missing only between
\* the two renames, and .prev is what the last rotation left except while a
\* rotation is under way.
RotateInv ==
    ~overlapped /\ interrupts = 0 =>
        /\ current # 0 \/ (prev # 0 /\ \E p \in Procs : pc[p] = "mv_new")
        /\ kept # 0 => prev = kept \/ \E p \in Procs : pc[p] \in Between

\* No run is under way while the system is down.
DownInv ==
    /\ ~up => NoRun
    /\ BootableUnlessBetweenRenames

IInv == TypeOK /\ OneRun /\ FileInv /\ RotateInv /\ DownInv

-----------------------------------------------------------------------------

\* The initial state: one good image.
LEMMA InitInv == Init => IInv
<1> SUFFICES ASSUME Init PROVE IInv
  BY Zenon
<1>1. content \in Seq(Image) /\ Len(content) = 1
  BY DEF Init, Outcomes, Image
<1>2. /\ current \in Inodes /\ prev \in Inodes /\ new \in Inodes /\ kept \in Inodes
      /\ fd \in [Procs -> Inodes] /\ runs \in 0..MaxRuns /\ interrupts \in 0..MaxInterrupts
  BY <1>1, UpdateAssumption DEF Init, Inodes
<1>4. TypeOK
  BY <1>1, <1>2, Zenon DEF Init, TypeOK, Image
<1>3. OneRun /\ FileInv /\ RotateInv /\ DownInv
  BY DEF Init, OneRun, FileInv, RotateInv, DownInv, NoRun, Good, Verified,
         BootableUnlessBetweenRenames
<1> QED
  BY <1>3, <1>4, Zenon DEF IInv

\* A run that exits removes .new.  That is harmless but in the middle of a
\* rotation, where only an interruption can make it exit.
LEMMA ExitKeeps ==
    ASSUME IInv, NEW p \in Procs, pc[p] # "idle", Exit(p), reboot_required' \in BOOLEAN,
           \/ interrupts' = interrupts + 1 /\ interrupts < MaxInterrupts
           \/ interrupts' = interrupts /\ (pc[p] \in Between => overlapped)
    PROVE  IInv'
<1> USE DEF Exit, IInv
<1>1. TypeOK'
  BY UpdateAssumption DEF TypeOK, Inodes
<1>2. up /\ up' /\ (interrupts' # 0 \/ interrupts' = interrupts)
  BY UpdateAssumption DEF TypeOK, DownInv, NoRun
<1>3. OneRun'
  BY Zenon DEF TypeOK, OneRun
<1>4. FileInv'
  BY Zenon DEF TypeOK, OneRun, FileInv, Good, Verified
<1>5. RotateInv'
  BY UpdateAssumption DEF TypeOK, OneRun, RotateInv, Between
<1>6. DownInv'
  BY Zenon DEF DownInv, TypeOK, NoRun, BootableUnlessBetweenRenames
<1> QED
  BY <1>1, <1>3, <1>4, <1>5, <1>6, Zenon

\* A run that goes on without touching a name, verified when it has to be.
LEMMA AdvanceKeeps ==
    ASSUME IInv, NEW p \in Procs, NEW from, NEW to, Goto(p, from, to),
           from \in {"verify", "compare", "dwarfsck"},
           to \in {"compare", "dwarfsck", "rotate"},
           to = "rotate" => Good(new),
           UNCHANGED <<names, content, fd, up, reboot_required, bound, kept, overlapped>>
    PROVE  IInv'
<1> USE DEF Goto, IInv, names, bound
<1>1. TypeOK'
  BY Zenon DEF TypeOK, Inodes
<1>3. OneRun'
  BY Zenon DEF TypeOK, OneRun
<1>4. FileInv'
  BY Zenon DEF TypeOK, FileInv, Good, Verified
<1>5. RotateInv'
  BY Zenon DEF TypeOK, RotateInv, Between
<1>6. DownInv'
  BY Zenon DEF DownInv, TypeOK, NoRun, BootableUnlessBetweenRenames, Good
<1> QED
  BY <1>1, <1>3, <1>4, <1>5, <1>6, Zenon

\* Every step keeps the invariant.
LEMMA StepInv == IInv /\ [Next]_vars => IInv'
<1> SUFFICES ASSUME IInv, [Next]_vars PROVE IInv'
  BY Zenon
<1> USE DEF IInv
<1>1. ASSUME NEW p \in Procs, NEW v \in Versions, Fetch(p, v)
      PROVE  IInv'
  <2> DEFINE i == IF new = 0 THEN Len(content) + 1 ELSE new
             file == [ver |-> v, checks |-> "fail"]
  <2> USE DEF Goto
  <2>1. /\ up /\ runs < MaxRuns /\ runs' = runs + 1 /\ pc[p] = "idle"
        /\ pc' = [pc EXCEPT ![p] = "fetch"] /\ new' = i /\ fd' = [fd EXCEPT ![p] = i]
        /\ content' = IF new = 0 THEN Append(content, file) ELSE [content EXCEPT ![i] = file]
        /\ UNCHANGED <<current, prev, up, reboot_required, interrupts, kept>>
    BY <1>1, Zenon DEF Fetch
  <2>2. overlapped' = (overlapped \/ \E q \in Procs : pc[q] # "idle")
    BY <1>1, Zenon DEF Fetch
  <2>3. /\ content' \in Seq(Image)
        /\ Len(content') \in Nat /\ Len(content) \in Nat
        /\ Len(content') >= Len(content) /\ i \in 1 .. Len(content')
        /\ \A k \in 1 .. Len(content) : k # i => content'[k] = content[k]
    <3>1. file \in Image /\ content \in Seq(Image) /\ Len(content) \in Nat /\ new \in 0 .. Len(content)
      BY DEF Image, Outcomes, TypeOK, Inodes
    <3> HIDE DEF file
    <3>2. CASE new = 0
      BY <2>1, <3>1, <3>2, AppendProperties, LenProperties
    <3>3. CASE new # 0
      BY <2>1, <3>1, <3>3, ExceptSeq, LenProperties
    <3> QED
      BY <3>2, <3>3, Zenon
  <2> HIDE DEF i, file
  <2>4. TypeOK'
    BY <2>1, <2>2, <2>3, UpdateAssumption DEF TypeOK, Inodes, Image
  <2>5. ~overlapped' => ~overlapped /\ \A q \in Procs : pc[q] = "idle"
    BY <2>2, Zenon
  <2>6. OneRun'
    BY <2>1, <2>5, Zenon DEF OneRun, TypeOK
  <2>7. FileInv'
    <3> SUFFICES ASSUME ~overlapped' PROVE FileInv'
      BY Zenon DEF FileInv
    <3>1. new # 0 => new # current /\ new # prev
      BY <2>5, Zenon DEF FileInv
    <3>2. i # 0 /\ i # current /\ i # prev
      BY <2>3, <3>1 DEF i, TypeOK, Inodes
    <3>3. /\ current # 0 => Good(current)'
          /\ prev # 0 => Good(prev)'
      BY <2>1, <2>3, <2>5, <3>2 DEF FileInv, Good, TypeOK, Inodes
    <3>4. \A q \in Procs : pc'[q] # "idle" => q = p /\ pc'[q] = "fetch"
      BY <2>1, <2>5, Zenon DEF TypeOK
    <3> QED
      BY <2>1, <3>2, <3>3, <3>4, Zenon DEF FileInv, Verified, TypeOK
  <2>8. RotateInv'
    BY <2>1, <2>5, Zenon DEF RotateInv, Between, TypeOK
  <2>9. DownInv'
    BY <2>1, Zenon DEF DownInv, BootableUnlessBetweenRenames
  <2> QED
    BY <2>4, <2>6, <2>7, <2>8, <2>9, Zenon
<1>2. ASSUME NEW p \in Procs, Fetched(p)
      PROVE  IInv'
  <2> USE <1>2 DEF Fetched, Goto, names, bound
  <2>1. PICK c \in Outcomes : content' = [content EXCEPT ![fd[p]].checks = c]
    BY Zenon
  <2>2. /\ content' \in Seq(Image)
        /\ Len(content') = Len(content)
        /\ \A k \in 1 .. Len(content) : k # fd[p] => content'[k] = content[k]
    <3>1. content \in Seq(Image) /\ Len(content) \in Nat /\ fd[p] \in 0 .. Len(content)
      BY DEF Image, TypeOK, Inodes
    <3>2. CASE fd[p] = 0
      <4>1. DOMAIN content = 1 .. Len(content)
        BY <3>1, LenProperties, Zenon
      <4>2. content' = content
        BY <2>1, <3>1, <3>2, <4>1
      <4> QED
        BY <3>1, <4>2, Zenon
    <3>3. CASE fd[p] # 0
      <4>1. content[fd[p]] \in Image
        BY <3>1, <3>3, ElementOfSeq
      <4> DEFINE e == [content[fd[p]] EXCEPT !.checks = c]
      <4>2. e \in Image
        BY <4>1, Zenon DEF Image
      <4>3. content' = [content EXCEPT ![fd[p]] = e]
        BY <2>1, Zenon
      <4> HIDE DEF e
      <4> QED
        BY <3>1, <3>3, <4>2, <4>3, ExceptSeq
    <3> QED
      BY <3>1, <3>2, <3>3, Zenon
  <2>3. TypeOK'
    BY <2>2, Zenon DEF TypeOK, Inodes, Image
  <2>4. OneRun'
    BY Zenon DEF TypeOK, OneRun
  <2>5. FileInv'
    <3> SUFFICES ASSUME ~overlapped PROVE FileInv'
      BY Zenon DEF FileInv
    <3>1. fd[p] = new /\ new # 0 /\ new # current /\ new # prev
      BY Zenon DEF FileInv
    <3>2. /\ current # 0 => Good(current)'
          /\ prev # 0 => Good(prev)'
      BY <2>2, <3>1 DEF FileInv, Good, TypeOK, Inodes
    <3>3. \A q \in Procs : pc'[q] # "idle" => pc'[q] = "verify"
      BY Zenon DEF TypeOK, OneRun
    <3> QED
      BY <3>1, <3>2, <3>3, Zenon DEF FileInv, Verified, TypeOK
  <2>6. RotateInv'
    BY Zenon DEF RotateInv, Between, TypeOK
  <2>7. DownInv'
    BY Zenon DEF DownInv, NoRun, TypeOK, BootableUnlessBetweenRenames
  <2> QED
    BY <2>3, <2>4, <2>5, <2>6, <2>7, Zenon
<1>3. ASSUME NEW p \in Procs,
             \/ FetchOrChecksumFails(p) \/ Unchanged(p) \/ DwarfsckFailsOrDryRun(p)
             \/ Flag(p) \/ Terminated(p)
      PROVE  IInv'
  <2>1. pc[p] # "idle" /\ Exit(p) /\ reboot_required' \in BOOLEAN
    BY <1>3, Zenon DEF FetchOrChecksumFails, Unchanged, DwarfsckFailsOrDryRun, Flag, Terminated, TypeOK
  <2>2. \/ interrupts' = interrupts + 1 /\ interrupts < MaxInterrupts
        \/ interrupts' = interrupts /\ pc[p] \notin Between
    BY <1>3, Zenon DEF FetchOrChecksumFails, Unchanged, DwarfsckFailsOrDryRun, Flag, Terminated, Between
  <2> QED
    BY <2>1, <2>2, ExitKeeps, Zenon
<1>4. ASSUME NEW p \in Procs, MvNewFails(p)
      PROVE  IInv'
  <2>1. pc[p] = "mv_new" /\ new = 0 /\ Exit(p) /\ UNCHANGED <<reboot_required, interrupts>>
    BY <1>4, Zenon DEF MvNewFails
  <2>2. overlapped
    BY <2>1, Zenon DEF FileInv, Verified, Good, TypeOK
  <2> QED
    BY <2>1, <2>2, ExitKeeps, Zenon DEF TypeOK
<1>5. ASSUME NEW p \in Procs, ChecksumPasses(p) \/ Changed(p) \/ DwarfsckPasses(p)
      PROVE  IInv'
  BY <1>5, AdvanceKeeps, Zenon DEF ChecksumPasses, Changed, DwarfsckPasses
<1>6. ASSUME NEW p \in Procs, RmPrev(p)
      PROVE  IInv'
  <2> USE <1>6 DEF RmPrev, Goto, bound
  <2>1. TypeOK'
    BY DEF TypeOK, Inodes
  <2>2. OneRun'
    BY Zenon DEF TypeOK, OneRun
  <2>3. FileInv'
    BY Zenon DEF TypeOK, FileInv, Good, Verified
  <2>4. RotateInv'
    BY Zenon DEF TypeOK, OneRun, RotateInv, Between
  <2>5. DownInv'
    BY Zenon DEF DownInv, TypeOK, NoRun, BootableUnlessBetweenRenames
  <2> QED
    BY <2>1, <2>2, <2>3, <2>4, <2>5, Zenon
<1>7. ASSUME NEW p \in Procs, MvCurrent(p)
      PROVE  IInv'
  <2> USE <1>7 DEF MvCurrent, Goto, bound
  <2>1. TypeOK'
    BY DEF TypeOK, Inodes
  <2>2. OneRun'
    BY Zenon DEF TypeOK, OneRun
  <2>3. FileInv'
    BY Zenon DEF TypeOK, FileInv, Good, Verified
  <2>4. RotateInv'
    BY Zenon DEF TypeOK, OneRun, RotateInv, Between
  <2>5. DownInv'
    BY Zenon DEF DownInv, TypeOK, NoRun, BootableUnlessBetweenRenames
  <2> QED
    BY <2>1, <2>2, <2>3, <2>4, <2>5, Zenon
<1>8. ASSUME NEW p \in Procs, MvNew(p)
      PROVE  IInv'
  <2> USE <1>8 DEF MvNew, Goto, bound
  <2>1. TypeOK'
    BY DEF TypeOK, Inodes
  <2>2. OneRun'
    BY Zenon DEF TypeOK, OneRun
  <2>3. FileInv'
    BY Zenon DEF TypeOK, OneRun, FileInv, Good, Verified
  <2>4. RotateInv'
    BY Zenon DEF TypeOK, OneRun, RotateInv, Between
  <2>5. DownInv'
    BY Zenon DEF DownInv, TypeOK, NoRun, BootableUnlessBetweenRenames
  <2> QED
    BY <2>1, <2>2, <2>3, <2>4, <2>5, Zenon
<1>9. ASSUME Crash
      PROVE  IInv'
  <2> USE <1>9 DEF Crash, names
  <2>0. interrupts' \in 0..MaxInterrupts
    BY UpdateAssumption DEF TypeOK
  <2>1. TypeOK'
    BY <2>0, Zenon DEF TypeOK, Inodes
  <2>2. OneRun'
    BY Zenon DEF TypeOK, OneRun
  <2>3. FileInv'
    BY Zenon DEF TypeOK, FileInv, Good, Verified
  <2>4. RotateInv'
    BY DEF TypeOK, RotateInv
  <2>5. DownInv'
    BY DEF DownInv, TypeOK, NoRun, FileInv, RotateInv, Verified, Good,
           BootableUnlessBetweenRenames
  <2> QED
    BY <2>1, <2>2, <2>3, <2>4, <2>5, Zenon
<1>10. ASSUME NEW rollback \in BOOLEAN, Boot(rollback)
       PROVE  IInv'
  <2> USE <1>10 DEF Boot, names, bound
  <2>1. TypeOK'
    BY Zenon DEF TypeOK, Inodes
  <2>2. OneRun' /\ FileInv' /\ RotateInv' /\ DownInv'
    BY Zenon DEF OneRun, FileInv, RotateInv, DownInv, Good, BootableUnlessBetweenRenames
  <2> QED
    BY <2>1, <2>2, Zenon
<1>11. CASE UNCHANGED vars
  <2> USE <1>11 DEF vars
  <2>1. TypeOK'
    BY Zenon DEF TypeOK, Inodes
  <2>2. OneRun' /\ FileInv' /\ RotateInv' /\ DownInv'
    BY Zenon DEF OneRun, FileInv, RotateInv, DownInv, Good, NoRun, BootableUnlessBetweenRenames
  <2> QED
    BY <2>1, <2>2, Zenon
<1> QED
  BY <1>1, <1>2, <1>3, <1>4, <1>5, <1>6, <1>7, <1>8, <1>9, <1>10, <1>11, Zenon
     DEF Next, Step, EmergencyShell, Done

\* Type correctness: the three names and the downloads of all runs refer to
\* files that exist, whatever overlaps and is interrupted.
THEOREM TypeCorrect == Spec => []TypeOK
<1>1. IInv => TypeOK
  BY Zenon DEF IInv
<1> QED
  BY <1>1, InitInv, StepInv, PTL DEF Spec

\* Only images that passed the checks are rotated in by runs that do not
\* overlap, however many runs and interruptions there are.
THEOREM VerifiedOnly == Spec => []OnlyVerifiedImages
<1>1. IInv => OnlyVerifiedImages
  BY Zenon DEF IInv, FileInv, OnlyVerifiedImages
<1> QED
  BY <1>1, InitInv, StepInv, PTL DEF Spec

\* The first power failure finds a good current image, or falls between the
\* two renames with both images at hand.
THEOREM AtomicButForRenames == Spec => []BootableUnlessBetweenRenames
<1>1. IInv => BootableUnlessBetweenRenames
  BY Zenon DEF IInv, DownInv
<1> QED
  BY <1>1, InitInv, StepInv, PTL DEF Spec

\* After it, a boot with bdfs.rollback finds a good image.
THEOREM InstantRollback == Spec => []RollbackBoots
<1>1. IInv => RollbackBoots
  BY Zenon DEF IInv, DownInv, FileInv, RollbackBoots, BootImage, Good, TypeOK,
         BootableUnlessBetweenRenames
<1> QED
  BY <1>1, InitInv, StepInv, PTL DEF Spec

\* The old image stays .prev until the next rotation.
THEOREM PrevStays == Spec => []PrevRetained
<1>1. IInv => PrevRetained
  BY Zenon DEF IInv, RotateInv, PrevRetained, NoRun, Between
<1> QED
  BY <1>1, InitInv, StepInv, PTL DEF Spec

-----------------------------------------------------------------------------
(* Two runs that overlap and end by themselves.                            *)

Turning == {"rotate", "mv_current"}
Running(p) == pc[p] # "idle"

\* At most as many runs are under way as were started, and a run that is the
\* only one so far has its .new until it has renamed it.
FewRuns ==
    /\ runs = 0 => NoRun /\ current # 0
    /\ runs <= 1 => /\ \A p, q \in Procs : Running(p) /\ Running(q) => p = q
                    /\ \A p \in Procs : Running(p) /\ pc[p] # "flag" => new # 0
    /\ \A p, q, r \in Procs : Running(p) /\ Running(q) /\ Running(r) => p = q \/ p = r \/ q = r

\* Without a current image: a run is about to rename .new to it, or .new was
\* lost, then .prev is there and no run is left that would remove it.  Both
\* are missing only while two runs are past their checks and .new is at hand.
ImageSomewhere ==
    /\ current = 0 /\ new # 0 => \E p \in Procs : pc[p] = "mv_new"
    /\ current = 0 /\ new = 0 => runs = 2 /\ prev # 0 /\ \A p \in Procs : pc[p] \notin Turning
    /\ current = 0 /\ prev = 0 => \A p \in Procs : Running(p) => pc[p] \in Between
    /\ runs <= 1 => current # 0 \/ prev # 0
    /\ \A p, q \in Procs : p # q /\ pc[p] \in Turning /\ pc[q] \in Turning => new # 0

SurvivalInv == runs <= 2 /\ interrupts = 0 => FewRuns /\ ImageSomewhere

\* A run that exits by itself has not begun to rotate, has finished, or has
\* lost its .new.
LEMMA ExitSurvives ==
    ASSUME TypeOK, FewRuns, ImageSomewhere, runs <= 2, NEW p \in Procs, Exit(p),
           Running(p), pc[p] \notin Turning, pc[p] = "mv_new" => new = 0
    PROVE  FewRuns' /\ ImageSomewhere'
<1>1. /\ new' = 0 /\ current' = current /\ prev' = prev /\ runs' = runs
      /\ \A q \in Procs : Running(q)' => q # p /\ Running(q) /\ pc'[q] = pc[q]
  BY Zenon DEF Exit, Running, TypeOK
<1>2. \A q, r \in Procs : Running(q)' /\ Running(r)' => q = r
  BY <1>1, Zenon DEF FewRuns
<1>3. FewRuns'
  <2>1. runs # 0
    BY Zenon DEF FewRuns, NoRun, Running
  <2>2. runs <= 1 => \A q \in Procs : ~Running(q)'
    BY <1>1, Zenon DEF FewRuns
  <2> QED
    BY <1>1, <1>2, <2>1, <2>2, Zenon DEF FewRuns
<1>4. ASSUME current = 0
      PROVE  runs = 2 /\ prev # 0 /\ \A q \in Procs : pc'[q] \notin Turning
  <2>1. CASE new = 0
    BY <1>1, <1>4, <2>1, Zenon DEF ImageSomewhere, Turning, Running
  <2>2. CASE new # 0
    <3>1. PICK q \in Procs : pc[q] = "mv_new"
      BY <1>4, <2>2, Zenon DEF ImageSomewhere
    <3>2. q # p /\ Running(q)
      BY <2>2, <3>1, Zenon DEF Running
    <3>3. ~(runs <= 1)
      BY <3>2, Zenon DEF FewRuns
    <3>4. runs = 2
      BY <3>3, UpdateAssumption DEF TypeOK
    <3>5. prev # 0
      BY <1>4, <2>2, Zenon DEF ImageSomewhere, Between, Turning
    <3>6. \A r \in Procs : Running(r)' => r = q
      BY <1>1, <3>2, Zenon DEF FewRuns
    <3>7. \A r \in Procs : pc'[r] \in Turning => Running(r)' /\ pc[r] # "mv_new"
      BY <1>1, Zenon DEF Turning, Running
    <3> QED
      BY <3>1, <3>4, <3>5, <3>6, <3>7, Zenon
  <2> QED
    BY <2>1, <2>2, Zenon
<1>5. \A q, r \in Procs : ~(q # r /\ pc'[q] \in Turning /\ pc'[r] \in Turning)
  BY <1>2, Zenon DEF Turning, Running
<1> QED
  BY <1>1, <1>3, <1>4, <1>5, Zenon DEF ImageSomewhere

\* A run that goes on and leaves the names alone has .new before it rotates.
LEMMA AdvanceSurvives ==
    ASSUME TypeOK, FewRuns, ImageSomewhere, NEW p \in Procs, NEW to,
           pc' = [pc EXCEPT ![p] = to], Running(p), pc[p] \notin Turning \cup {"mv_new", "flag"},
           to \in {"verify", "compare", "dwarfsck", "rotate"}, to = "rotate" => new # 0,
           UNCHANGED <<current, prev, new, runs>>
    PROVE  FewRuns' /\ ImageSomewhere'
<1>1. /\ pc'[p] = to /\ \A q \in Procs : q # p => pc'[q] = pc[q]
      /\ Running(p)' /\ \A q \in Procs : Running(q)' <=> Running(q)
  BY Zenon DEF Running, TypeOK
<1>2. FewRuns'
  <2>1. runs # 0
    BY Zenon DEF FewRuns, NoRun, Running
  <2>2. runs <= 1 => new # 0
    BY Zenon DEF FewRuns, Running
  <2> QED
    BY <1>1, <2>1, <2>2, Zenon DEF FewRuns
<1>3. ~(current = 0 /\ prev = 0)
  BY Zenon DEF ImageSomewhere, Between, Turning
<1>4. current = 0 /\ new # 0 => \E q \in Procs : pc'[q] = "mv_new"
  BY <1>1, Zenon DEF ImageSomewhere
<1>5. new = 0 => \A q \in Procs : pc'[q] \in Turning => q # p /\ pc[q] \in Turning
  BY <1>1, Zenon DEF Turning
<1> QED
  BY <1>2, <1>3, <1>4, <1>5, Zenon DEF ImageSomewhere

\* The first or the second run starts.
LEMMA FetchSurvives ==
    ASSUME TypeOK, FewRuns, ImageSomewhere, NEW p \in Procs, NEW v \in Versions, Fetch(p, v),
           runs' <= 2
    PROVE  FewRuns' /\ ImageSomewhere'
<1>1. /\ pc[p] = "idle" /\ pc' = [pc EXCEPT ![p] = "fetch"]
      /\ current' = current /\ prev' = prev /\ runs' = runs + 1
  BY Zenon DEF Fetch, Goto
<1>2. pc'[p] = "fetch" /\ \A q \in Procs : q # p => pc'[q] = pc[q]
  BY <1>1, Zenon DEF TypeOK
<1>3. new' # 0
  <2>1. new' = IF new = 0 THEN Len(content) + 1 ELSE new
    BY Zenon DEF Fetch
  <2>2. Len(content) \in Nat
    BY LenProperties DEF TypeOK
  <2> QED
    BY <2>1, <2>2
<1>4. runs <= 1 /\ runs' # 0 /\ (runs' <= 1 => runs = 0)
  BY <1>1, UpdateAssumption DEF TypeOK
<1>5. /\ \A q, r \in Procs : Running(q) /\ Running(r) => q = r
      /\ runs' <= 1 => \A q \in Procs : ~Running(q)
  BY <1>4, Zenon DEF FewRuns, NoRun, Running
<1>6. \A q \in Procs : Running(q)' => q = p \/ Running(q)
  BY <1>2, Zenon DEF Running
<1>7. FewRuns'
  BY <1>3, <1>4, <1>5, <1>6, Zenon DEF FewRuns
<1>8. current = 0 => new # 0
  <2>1. runs # 2
    BY <1>4, UpdateAssumption DEF TypeOK
  <2> QED
    BY <2>1, Zenon DEF ImageSomewhere
<1>9. current = 0 => \E q \in Procs : pc'[q] = "mv_new"
  BY <1>1, <1>2, <1>8, Zenon DEF ImageSomewhere
<1>10. current # 0 \/ prev # 0
  BY <1>4, Zenon DEF ImageSomewhere
<1>11. \A q, r \in Procs : ~(q # r /\ pc'[q] \in Turning /\ pc'[r] \in Turning)
  <2>1. \A q \in Procs : pc'[q] \in Turning => q # p /\ Running(q)
    BY <1>2, Zenon DEF Turning, Running
  <2> QED
    BY <1>5, <2>1, Zenon
<1> QED
  BY <1>1, <1>3, <1>7, <1>9, <1>10, <1>11, Zenon DEF ImageSomewhere

\* The rotation: a run that removes .prev while there is no current image
\* leaves .new to the run that is about to rename it.
LEMMA RotationSurvives ==
    ASSUME TypeOK, FewRuns, ImageSomewhere, runs <= 2, NEW p \in Procs,
           RmPrev(p) \/ MvCurrent(p) \/ MvNew(p)
    PROVE  FewRuns' /\ ImageSomewhere'
<1>1. runs' = runs
  BY Zenon DEF RmPrev, MvCurrent, MvNew, bound
<1>2. PICK to \in {"mv_current", "mv_new", "flag"} : pc' = [pc EXCEPT ![p] = to]
  BY Zenon DEF RmPrev, MvCurrent, MvNew, Goto
<1>3. pc'[p] = to /\ \A q \in Procs : q # p => pc'[q] = pc[q]
  BY <1>2, Zenon DEF TypeOK
<1>4. Running(p) /\ pc[p] # "flag"
  BY Zenon DEF RmPrev, MvCurrent, MvNew, Goto, Running
<1>5. \A q \in Procs : Running(q)' <=> Running(q)
  BY <1>2, <1>3, <1>4, Zenon DEF Running
<1>6. runs # 0
  BY <1>4, Zenon DEF FewRuns, NoRun, Running
<1>7. /\ runs <= 1 => \A q \in Procs : Running(q) => q = p
      /\ \A q, r \in Procs : Running(q) /\ Running(r) /\ q # p /\ r # p => q = r
  BY <1>4, Zenon DEF FewRuns
<1>8. runs <= 1 => new # 0
  BY <1>4, Zenon DEF FewRuns
<1>9. ASSUME pc'[p] # "flag" => new' = new
      PROVE  FewRuns'
  BY <1>1, <1>3, <1>5, <1>6, <1>7, <1>8, <1>9, Zenon DEF FewRuns
<1>10. CASE RmPrev(p)
  <2>1. /\ pc[p] = "rotate" /\ pc'[p] = "mv_current"
        /\ prev' = 0 /\ current' = current /\ new' = new
    BY <1>10, Zenon DEF RmPrev, Goto, TypeOK
  <2>2. FewRuns'
    BY <1>9, <2>1, Zenon
  <2>3. \A q \in Procs : pc'[q] \in Turning <=> pc[q] \in Turning
    BY <1>3, <2>1, Zenon DEF Turning
  <2>4. CASE current # 0
    BY <2>1, <2>2, <2>3, <2>4, Zenon DEF ImageSomewhere
  <2>5. CASE current = 0
    <3>1. new # 0
      BY <2>1, <2>5, Zenon DEF ImageSomewhere, Turning
    <3>2. PICK q \in Procs : pc[q] = "mv_new"
      BY <2>5, <3>1, Zenon DEF ImageSomewhere
    <3>3. q # p /\ Running(q) /\ pc'[q] = "mv_new"
      BY <1>3, <2>1, <3>2, Zenon DEF Running
    <3>4. ~(runs <= 1)
      BY <1>7, <3>3, Zenon
    <3>5. \A r \in Procs : Running(r)' => pc'[r] \in Between
      BY <1>5, <1>7, <2>1, <3>3, Zenon DEF Between
    <3> QED
      BY <1>1, <2>1, <2>2, <3>1, <3>3, <3>4, <3>5, Zenon DEF ImageSomewhere
  <2> QED
    BY <2>4, <2>5, Zenon
<1>11. CASE MvCurrent(p)
  <2>1. pc[p] = "mv_current" /\ pc'[p] = "mv_new" /\ new' = new
    BY <1>11, Zenon DEF MvCurrent, Goto, TypeOK
  <2>2. FewRuns'
    BY <1>9, <2>1, Zenon
  <2>3. \A q \in Procs : pc'[q] \in Turning => q # p /\ pc[q] \in Turning
    BY <1>3, <2>1, Zenon DEF Turning
  <2>4. CASE current # 0
    <3>1. current' = 0 /\ prev' # 0
      BY <1>11, <2>4, Zenon DEF MvCurrent
    <3>2. new = 0 => \A q \in Procs : pc'[q] \notin Turning
      BY <2>1, <2>3, Zenon DEF ImageSomewhere, Turning
    <3>3. new = 0 => runs = 2
      <4>1. new = 0 => ~(runs <= 1)
        BY <1>8, Zenon
      <4> QED
        BY <4>1, UpdateAssumption DEF TypeOK
    <3> QED
      BY <2>1, <2>2, <2>3, <3>1, <3>2, <3>3, <1>1, Zenon DEF ImageSomewhere
  <2>5. CASE current = 0
    <3>1. current' = 0 /\ prev' = prev
      BY <1>11, <2>5, Zenon DEF MvCurrent
    <3>2. new # 0
      BY <2>1, <2>5, Zenon DEF ImageSomewhere, Turning
    <3>3. prev = 0 => \A q \in Procs : Running(q)' => pc'[q] \in Between
      BY <1>3, <1>5, <2>1, <2>5, Zenon DEF ImageSomewhere, Between
    <3> QED
      BY <1>1, <2>1, <2>2, <2>5, <3>1, <3>2, <3>3, Zenon DEF ImageSomewhere
  <2> QED
    BY <2>4, <2>5, Zenon
<1>12. CASE MvNew(p)
  <2>1. pc'[p] = "flag" /\ current' # 0 /\ prev' = prev /\ new' = 0
    BY <1>12, Zenon DEF MvNew, Goto, TypeOK
  <2>2. FewRuns'
    BY <1>9, <2>1, Zenon
  <2>3. \A q, r \in Procs : ~(q # r /\ pc'[q] \in Turning /\ pc'[r] \in Turning)
    <3>1. \A q \in Procs : pc'[q] \in Turning => q # p /\ Running(q)
      BY <1>3, <2>1, Zenon DEF Turning, Running
    <3> QED
      BY <1>7, <3>1, Zenon
  <2> QED
    BY <2>1, <2>2, <2>3, Zenon DEF ImageSomewhere
<1> QED
  BY <1>10, <1>11, <1>12, Zenon

LEMMA SurvivalStep == IInv /\ SurvivalInv /\ [Next]_vars => SurvivalInv'
<1> SUFFICES ASSUME IInv, SurvivalInv, [Next]_vars, runs' <= 2, interrupts' = 0
             PROVE  FewRuns' /\ ImageSomewhere'
  BY Zenon DEF SurvivalInv
<1>1. TypeOK
  BY Zenon DEF IInv
<1>2. runs \in Nat /\ interrupts \in Nat
  BY <1>1, UpdateAssumption DEF TypeOK
<1>3. /\ runs' = runs \/ runs' = runs + 1
      /\ interrupts' = interrupts \/ interrupts' = interrupts + 1
  BY Zenon DEF Next, Step, Fetch, Fetched, FetchOrChecksumFails, ChecksumPasses, Unchanged,
         Changed, DwarfsckFailsOrDryRun, DwarfsckPasses, RmPrev, MvCurrent, MvNew, MvNewFails,
         Flag, Terminated, Crash, Boot, EmergencyShell, Done, Exit, bound, vars
<1>4. runs <= 2 /\ interrupts = 0 /\ interrupts' # interrupts + 1
  BY <1>2, <1>3
<1>5. FewRuns /\ ImageSomewhere
  BY <1>4, Zenon DEF SurvivalInv
<1>6. ASSUME NEW p \in Procs, NEW v \in Versions, Fetch(p, v)
      PROVE  FewRuns' /\ ImageSomewhere'
  BY <1>1, <1>5, <1>6, FetchSurvives, Zenon
<1>7. ASSUME NEW p \in Procs, Step(p)
      PROVE  FewRuns' /\ ImageSomewhere'
  <2>1. CASE Fetched(p) \/ ChecksumPasses(p) \/ Changed(p) \/ DwarfsckPasses(p)
    <3>1. PICK to \in {"verify", "compare", "dwarfsck", "rotate"} :
              /\ pc' = [pc EXCEPT ![p] = to] /\ (to = "rotate" => new # 0)
      BY <2>1, Zenon DEF Fetched, ChecksumPasses, Changed, DwarfsckPasses, Goto, Good
    <3>2. Running(p) /\ pc[p] \notin Turning \cup {"mv_new", "flag"}
      BY <2>1, Zenon DEF Fetched, ChecksumPasses, Changed, DwarfsckPasses, Goto, Running, Turning
    <3>3. UNCHANGED <<current, prev, new, runs>>
      BY <2>1, Zenon DEF Fetched, ChecksumPasses, Changed, DwarfsckPasses, names, bound
    <3> QED
      BY <1>1, <1>5, <3>1, <3>2, <3>3, AdvanceSurvives, Zenon
  <2>2. CASE \/ FetchOrChecksumFails(p) \/ Unchanged(p) \/ DwarfsckFailsOrDryRun(p)
             \/ MvNewFails(p) \/ Flag(p)
    <3>1. Exit(p) /\ Running(p) /\ pc[p] \notin Turning /\ (pc[p] = "mv_new" => new = 0)
      BY <2>2, Zenon DEF FetchOrChecksumFails, Unchanged, DwarfsckFailsOrDryRun, MvNewFails,
             Flag, Running, Turning
    <3> QED
      BY <1>1, <1>4, <1>5, <3>1, ExitSurvives, Zenon
  <2>3. CASE RmPrev(p) \/ MvCurrent(p) \/ MvNew(p)
    BY <1>1, <1>4, <1>5, <2>3, RotationSurvives, Zenon
  <2>4. ~Terminated(p)
    BY <1>4, Zenon DEF Terminated
  <2> QED
    BY <1>7, <2>1, <2>2, <2>3, <2>4, Zenon DEF Step
<1>8. ~Crash
  BY <1>4, Zenon DEF Crash
<1>9. ASSUME UNCHANGED <<current, prev, new, pc, runs>>
      PROVE  FewRuns' /\ ImageSomewhere'
  BY <1>5, <1>9, Zenon DEF FewRuns, ImageSomewhere, Running, NoRun
<1>10. ASSUME NEW rollback \in BOOLEAN, Boot(rollback)
       PROVE  FewRuns' /\ ImageSomewhere'
  BY <1>9, <1>10, Zenon DEF Boot, names, bound
<1>11. CASE UNCHANGED vars
  BY <1>9, <1>11, Zenon DEF vars
<1> QED
  BY <1>6, <1>7, <1>8, <1>10, <1>11, Zenon DEF Next, EmergencyShell, Done

\* Two runs that end by themselves never leave the system without any image,
\* however their steps interleave: the EXIT trap of one may remove the .new of
\* the other, and each may remove the .prev the other has just made.
THEOREM ImageSurvives == Spec => []SomeImageSurvives
<1>1. Init => SurvivalInv
  <2> SUFFICES ASSUME Init PROVE SurvivalInv
    BY Zenon
  <2>1. current # 0 /\ \A p \in Procs : pc[p] = "idle"
    BY DEF Init
  <2> QED
    BY <2>1, Zenon DEF SurvivalInv, FewRuns, ImageSomewhere, NoRun, Running, Turning
<1>2. SurvivalInv => SomeImageSurvives
  BY Zenon DEF SurvivalInv, ImageSomewhere, SomeImageSurvives, NoRun
<1> QED
  BY <1>1, <1>2, InitInv, StepInv, SurvivalStep, PTL DEF Spec
=============================================================================

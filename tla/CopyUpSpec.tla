----------------------------- MODULE CopyUpSpec -----------------------------
(***************************************************************************)
(* What copy-up promises to whoever opens a blend file for writing: the    *)
(* open is granted only on the file's own copy in the BTRFS upper layer,   *)
(* a file is promoted only on demand and never demoted, and an open that   *)
(* is refused leaves no trace but a possible later promotion.              *)
(***************************************************************************)
CONSTANTS Openers, Files, Lower

VARIABLES backing,  \* the file's backing: Lower, or the upper copy of a file
          asked,    \* files some opener wanted to write
          pending,  \* the file an opener waits for, Lower when it does not
          granted   \* the backing the opener's last open was given

vars == <<backing, asked, pending, granted>>

Init ==
    /\ backing = [f \in Files |-> Lower]
    /\ asked = {}
    /\ pending = [o \in Openers |-> Lower]
    /\ granted = [o \in Openers |-> Lower]

Ask(o, f) ==
    /\ pending[o] = Lower
    /\ pending' = [pending EXCEPT ![o] = f]
    /\ asked' = asked \cup {f}
    /\ UNCHANGED <<backing, granted>>

Promote(f) ==
    /\ f \in asked
    /\ backing' = [backing EXCEPT ![f] = f]
    /\ UNCHANGED <<asked, pending, granted>>

Grant(o) ==
    /\ pending[o] # Lower
    /\ backing[pending[o]] = pending[o]
    /\ granted' = [granted EXCEPT ![o] = pending[o]]
    /\ pending' = [pending EXCEPT ![o] = Lower]
    /\ UNCHANGED <<backing, asked>>

Refuse(o) ==
    /\ pending[o] # Lower
    /\ pending' = [pending EXCEPT ![o] = Lower]
    /\ granted' = [granted EXCEPT ![o] = Lower]
    /\ UNCHANGED <<backing, asked>>

Next ==
    \/ \E o \in Openers : \E f \in Files : Ask(o, f)
    \/ \E f \in Files : Promote(f)
    \/ \E o \in Openers : Grant(o) \/ Refuse(o)

Spec == Init /\ [][Next]_vars
=============================================================================

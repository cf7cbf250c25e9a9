--------------------------- MODULE AcquireService ---------------------------
(***************************************************************************)
(* What the Acquire parameter promises to its clients, without the lock,   *)
(* the event and the threads that implement it: an acquisition begins only *)
(* if Acquire is set or a start is pending, every start that is accepted   *)
(* is followed by the beginning of an acquisition, and an acquisition ends *)
(* by itself.  A stop takes back the flag, never a pending start.          *)
(***************************************************************************)
EXTENDS Naturals

VARIABLES
    flag,       \* the Acquire parameter
    pending,    \* a start that no acquisition has taken up
    phase       \* "rest" or "acquiring"

vars == <<flag, pending, phase>>

Init ==
    /\ flag = 0
    /\ pending = FALSE
    /\ phase = "rest"

Start ==
    /\ flag' = 1
    /\ pending' = TRUE
    /\ UNCHANGED phase

Stop ==
    /\ flag' = 0
    /\ UNCHANGED <<pending, phase>>

\* Beginning for the sake of the flag leaves a pending start pending.
Begin ==
    /\ phase = "rest"
    /\ flag = 1 \/ pending
    /\ phase' = "acquiring"
    /\ pending' \in {pending, FALSE}
    /\ UNCHANGED flag

\* The flag stays set where acquisitions are to follow one another.
End ==
    /\ phase = "acquiring"
    /\ phase' = "rest"
    /\ flag' \in {flag, 0}
    /\ UNCHANGED pending

Next == Start \/ Stop \/ Begin \/ End

Spec == Init /\ [][Next]_vars /\ WF_vars(Begin) /\ WF_vars(End)
=============================================================================

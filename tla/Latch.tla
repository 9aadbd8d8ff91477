------------------------------- MODULE Latch -------------------------------
(***************************************************************************)
(* What Barrier (power/barrier.h) promises: wait() returns only in a       *)
(* moment at which the barrier is open.                                    *)
(***************************************************************************)
CONSTANTS Waiters

VARIABLES
    opened,     \* whether the barrier is open
    through     \* the threads whose wait() has returned

vars == <<opened, through>>

Init == opened = FALSE /\ through = {}

Open == opened' = TRUE /\ UNCHANGED through

Close == opened' = FALSE /\ UNCHANGED through

Pass(t) ==
    /\ opened
    /\ t \notin through
    /\ through' = through \cup {t}
    /\ UNCHANGED opened

Next == Open \/ Close \/ \E t \in Waiters : Pass(t)

Spec == Init /\ [][Next]_vars
=============================================================================

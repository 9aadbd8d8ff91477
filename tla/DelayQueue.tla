----------------------------- MODULE DelayQueue -----------------------------
(***************************************************************************)
(* What PokeHandler's event queue promises to its callers: an event that   *)
(* was sent is run once, not before its delay has passed, and events due   *)
(* at the same time are run in the order in which they were sent.          *)
(***************************************************************************)
EXTENDS Integers, SequencesExt

CONSTANTS
    Events,     \* the events there are, each sent at most once
    Delay       \* the delay each of them is sent with

VARIABLES
    waiting,    \* the events sent but not run, in the order they are due
    ran         \* the events run

vars == <<waiting, ran>>

Init == waiting = << >> /\ ran = {}

Unsent(e) ==
    /\ e \notin ran
    /\ \A i \in 1 .. Len(waiting) : waiting[i].ev # e

Send(e) ==
    /\ Unsent(e)
    /\ \E i \in 1 .. Len(waiting) + 1 :
          /\ \A j \in 1 .. Len(waiting) :
                waiting[j].due <= Delay[e] <=> j < i
          /\ waiting' = InsertAt(waiting, i, [ev |-> e, due |-> Delay[e]])
    /\ UNCHANGED ran

Run ==
    /\ waiting # << >>
    /\ Head(waiting).due = 0
    /\ ran' = ran \cup {Head(waiting).ev}
    /\ waiting' = Tail(waiting)

Tick ==
    /\ waiting' =
         [i \in 1 .. Len(waiting) |->
             [waiting[i] EXCEPT !.due = IF @ = 0 THEN 0 ELSE @ - 1]]
    /\ UNCHANGED ran

Next == Run \/ Tick \/ \E e \in Events : Send(e)

Spec == Init /\ [][Next]_vars
=============================================================================

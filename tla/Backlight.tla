----------------------------- MODULE Backlight -----------------------------
(***************************************************************************)
(* What the lights HAL promises about the backlight: a call of set_light   *)
(* sets the level to its brightness at one moment between the call and its *)
(* return, and then returns 0, or leaves the level alone and returns an    *)
(* error.                                                                  *)
(***************************************************************************)
EXTENDS Integers

CONSTANTS Setters, Brightnesses

VARIABLES
    level,    \* the brightness of the backlight
    call      \* what is known of each caller's call

Idle == [at |-> "idle"]
Called(b) == [at |-> "called", to |-> b]
Answered(err) == [at |-> "answered", err |-> err]

Init == level \in Brightnesses /\ call = [t \in Setters |-> Idle]

Call(t) ==
    /\ call[t] = Idle
    /\ \E b \in Brightnesses : call' = [call EXCEPT ![t] = Called(b)]
    /\ UNCHANGED level

Apply(t) ==
    /\ call[t].at = "called"
    /\ level' = call[t].to
    /\ call' = [call EXCEPT ![t] = Answered(FALSE)]

Fail(t) ==
    /\ call[t].at = "called"
    /\ call' = [call EXCEPT ![t] = Answered(TRUE)]
    /\ UNCHANGED level

Return(t) ==
    /\ call[t].at = "answered"
    /\ call' = [call EXCEPT ![t] = Idle]
    /\ UNCHANGED level

Next == \E t \in Setters : Call(t) \/ Apply(t) \/ Fail(t) \/ Return(t)

Spec == Init /\ [][Next]_<<level, call>>
=============================================================================

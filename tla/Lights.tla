------------------------------- MODULE Lights -------------------------------
(***************************************************************************)
(* liblights/lights.c.  The framework opens a light by its name and calls  *)
(* set_light from any of its threads.  set_light_backlight writes sysfs    *)
(* under g_lock, one system call at a time; open_lights initialises g_lock *)
(* again whenever the backlight is opened, and refuses every other name    *)
(* before it gets there.                                                   *)
(*                                                                         *)
(* The framework opens the backlight only while no set_light runs, and     *)
(* closes it likewise; it may try the other names at any time.             *)
(***************************************************************************)
EXTENDS Integers

CONSTANTS
    Setters,    \* threads that call set_light
    Colors,     \* the colours asked for
    NoThread    \* nobody holds g_lock

ASSUME ColorsAssumption == Colors \subseteq Nat
ASSUME ThreadsAssumption == NoThread \notin Setters

VARIABLES
    g_lock,             \* who holds the mutex
    device,             \* the backlight device
    refused,            \* open_lights has last returned -EINVAL
    set,                \* where each setter is, with its locals
    level,              \* what the brightness file says
    already_warned,     \* the static variable of write_int
    warnings            \* how often it has logged, up to 2

vars == <<g_lock, device, refused, set, level, already_warned, warnings>>

(* rgb_to_brightness. *)
rgb_to_brightness(color) ==
    LET c == color % 16777216
    IN  (77 * (c \div 65536) + 150 * ((c \div 256) % 256) + 29 * (c % 256))
            \div 256

Idle == [at |-> "idle", to |-> 0, err |-> FALSE]

Init ==
    /\ g_lock = NoThread
    /\ device = "closed"
    /\ refused = FALSE
    /\ set = [t \in Setters |-> Idle]
    /\ level = 0
    /\ already_warned = FALSE
    /\ warnings = 0

Moves(t, from, to) ==
    set[t].at = from /\ set' = [set EXCEPT ![t].at = to]

-----------------------------------------------------------------------------
(* open_lights and close_lights. *)

Quiet == \A t \in Setters : set[t] = Idle

(* The name is the backlight's: pthread_mutex_init ... *)
OpenBacklight ==
    /\ device = "closed"
    /\ g_lock' = NoThread
    /\ device' = "opening"
    /\ UNCHANGED <<refused, set, level, already_warned, warnings>>

(* ... and the device the framework gets. *)
ReturnDevice ==
    /\ device = "opening"
    /\ device' = "open"
    /\ refused' = FALSE
    /\ UNCHANGED <<g_lock, set, level, already_warned, warnings>>

OpenOtherAnyway ==              \* mutant of OpenOther: strcmp comes later
    /\ device # "opening"
    /\ g_lock' = NoThread
    /\ refused' = TRUE
    /\ UNCHANGED <<device, set, level, already_warned, warnings>>

(* Any other name: -EINVAL. *)
OpenOther ==
    /\ device # "opening"
    /\ refused' = TRUE
    /\ UNCHANGED <<g_lock, device, set, level, already_warned, warnings>>

CloseBacklight ==
    /\ device = "open" /\ Quiet
    /\ device' = "closed"
    /\ UNCHANGED <<g_lock, refused, set, level, already_warned, warnings>>

-----------------------------------------------------------------------------
(* set_light_backlight, with write_int. *)

CallSet(t) ==
    /\ device = "open"
    /\ set[t] = Idle
    /\ \E c \in Colors :
          set' = [set EXCEPT ![t] = [at |-> "lock", to |-> rgb_to_brightness(c),
                                     err |-> FALSE]]
    /\ UNCHANGED <<g_lock, device, refused, level, already_warned, warnings>>

Lock(t) ==
    /\ g_lock = NoThread
    /\ g_lock' = t
    /\ Moves(t, "lock", "open")
    /\ UNCHANGED <<device, refused, level, already_warned, warnings>>

OpenFile(t) ==
    /\ Moves(t, "open", "write")
    /\ UNCHANGED <<g_lock, device, refused, level, already_warned, warnings>>

OpenFails(t) ==
    /\ set[t].at = "open"
    /\ set' = [set EXCEPT ![t].at = IF already_warned THEN "unlock" ELSE "warn",
                          ![t].err = TRUE]
    /\ UNCHANGED <<g_lock, device, refused, level, already_warned, warnings>>

(* `ALOGE(...); already_warned = 1'. *)
Warn(t) ==
    /\ Moves(t, "warn", "unlock")
    /\ already_warned' = TRUE
    /\ warnings' = IF warnings < 2 THEN warnings + 1 ELSE 2
    /\ UNCHANGED <<g_lock, device, refused, level>>

WriteFile(t) ==
    /\ Moves(t, "write", "close")
    /\ level' = set[t].to
    /\ UNCHANGED <<g_lock, device, refused, already_warned, warnings>>

WriteFailsUnseen(t) ==          \* mutant of WriteFails: returns 0
    /\ Moves(t, "write", "close")
    /\ UNCHANGED <<g_lock, device, refused, level, already_warned, warnings>>

WriteFails(t) ==
    /\ set[t].at = "write"
    /\ set' = [set EXCEPT ![t].at = "close", ![t].err = TRUE]
    /\ UNCHANGED <<g_lock, device, refused, level, already_warned, warnings>>

CloseFile(t) ==
    /\ Moves(t, "close", "unlock")
    /\ UNCHANGED <<g_lock, device, refused, level, already_warned, warnings>>

ReturnErrorLocked(t) ==         \* mutant of Unlock: an early return
    /\ Moves(t, "unlock", "return")
    /\ g_lock' = IF set[t].err THEN g_lock ELSE NoThread
    /\ UNCHANGED <<device, refused, level, already_warned, warnings>>

(* A normal mutex does not ask who unlocks it. *)
Unlock(t) ==
    /\ Moves(t, "unlock", "return")
    /\ g_lock' = NoThread
    /\ UNCHANGED <<device, refused, level, already_warned, warnings>>

Return(t) ==
    /\ set[t].at = "return"
    /\ set' = [set EXCEPT ![t] = Idle]
    /\ UNCHANGED <<g_lock, device, refused, level, already_warned, warnings>>

-----------------------------------------------------------------------------
Proceed(t) ==
    \/ Lock(t) \/ OpenFile(t) \/ OpenFails(t) \/ Warn(t)
    \/ WriteFile(t) \/ WriteFails(t) \/ CloseFile(t)
    \/ Unlock(t) \/ Return(t)

OpenAndClose == OpenBacklight \/ ReturnDevice \/ OpenOther \/ CloseBacklight

Next == OpenAndClose \/ \E t \in Setters : CallSet(t) \/ Proceed(t)

(* A thread goes on with its call; a thread that waits for the mutex gets  *)
(* it if it is free again and again.                                       *)
Fairness == \A t \in Setters : SF_vars(Lock(t)) /\ WF_vars(Proceed(t))

Spec == Init /\ [][Next]_vars /\ Fairness

-----------------------------------------------------------------------------
(* Properties. *)

Inside == {"open", "warn", "write", "close", "unlock"}
Places == {"idle", "lock", "return"} \cup Inside

(* Every variable has its type, and a level is a byte.  Whoever holds the  *)
(* mutex is between its lock and its unlock.                               *)
TypeOK ==
    /\ g_lock \in Setters \cup {NoThread}
    /\ device \in {"closed", "opening", "open"}
    /\ refused \in BOOLEAN
    /\ set \in [Setters -> [at : Places, to : 0 .. 255, err : BOOLEAN]]
    /\ level \in 0 .. 255
    /\ already_warned \in BOOLEAN
    /\ warnings \in 0 .. 2
    /\ g_lock # NoThread => set[g_lock].at \in Inside

(* Only one thread at a time is in write_int, although the mutex is        *)
(* initialised again by every open of the backlight (lights.c:164).        *)
OneWriter ==
    \A t \in Setters : set[t].at \in Inside => g_lock = t

(* The failure to open the file is logged once only: already_warned is     *)
(* tested and set under the mutex (lights.c:55-57).                        *)
WarnedOnce == warnings <= 1

callBar ==
    [t \in Setters |->
        CASE set[t].at = "idle" -> [at |-> "idle"]
          [] set[t].at \in {"lock", "open", "write"} /\ ~set[t].err ->
                [at |-> "called", to |-> set[t].to]
          [] OTHER -> [at |-> "answered", err |-> set[t].err]]

Abstract == INSTANCE Backlight
    WITH call <- callBar, Brightnesses <- 0 .. 255

(* A call of set_light takes effect at one moment, or fails and says so:   *)
(* two calls at once leave the level at the brightness of one of them.     *)
BacklightSpec == Abstract!Spec

(* A call of set_light returns. *)
SetReturns == \A t \in Setters : set[t].at # "idle" ~> set[t].at = "idle"
=============================================================================

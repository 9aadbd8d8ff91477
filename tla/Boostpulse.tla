----------------------------- MODULE Boostpulse -----------------------------
(***************************************************************************)
(* power/power.c, the power HAL that writes to the boostpulse node of the  *)
(* cpufreq governor.  The descriptor of the node is kept between hints and *)
(* opened and closed under a lock, but read and written to outside it.     *)
(* Meanwhile the governor may be switched, which removes the node, and     *)
(* other threads of the process open and close files of their own.         *)
(*                                                                         *)
(* One thread for each caller of cm_power_hint, one action for each step   *)
(* that another thread can tell apart.  boostpulse_warned only keeps a     *)
(* line out of the log and is left out, like the duration that is written  *)
(* and the descriptors that sysfs_read and sysfs_write close before they   *)
(* return.  The kernel's governor and other threads' files are external.   *)
(***************************************************************************)
EXTENDS Integers, FiniteSets

CONSTANTS
    Callers,        \* threads that send hints
    PulseGovernors, \* governors with a boostpulse node ("ondemand", ...)
    OtherGovernors, \* governors without
    Tunables,       \* the number of tunables written for each governor
    MaxFd,          \* the largest descriptor number
    NoFile,         \* what a free number refers to
    NoThread,       \* holder of a free mutex
    MaxSwitches     \* bound on how often the governor is switched

Governors == PulseGovernors \cup OtherGovernors
Fd == 1 .. MaxFd    \* 0 to 2 stay open in a daemon; these follow

(* A file: the boostpulse node of a governor, which is another one after   *)
(* each switch, or a file of somebody else.                                *)
Pulse(n) == [kind |-> "boostpulse", number |-> n]
Foreign == [kind |-> "foreign"]

ASSUME GovernorsAssumption == PulseGovernors \cap OtherGovernors = {}
ASSUME TunablesAssumption ==
    /\ Tunables \in [Governors -> Nat]
    /\ \A g \in PulseGovernors : Tunables[g] > 0
ASSUME ThreadAssumption == NoThread \notin Callers
ASSUME FileAssumption ==
    NoFile # Foreign /\ \A n \in 0 .. MaxSwitches : NoFile # Pulse(n)
ASSUME BoundsAssumption == MaxFd \in Nat \ {0} /\ MaxSwitches \in Nat

VARIABLES
    scaling,        \* the kernel's governor, and the number of switches
    tunable,        \* its tunables; history: which could not be written
    migrate,        \* /dev/cpuctl/cpu.notify_on_migrate
    file,           \* what each descriptor number refers to
    governor,       \* static char governor[]
    boostpulse_fd,
    lock,           \* the holder of cm->lock
    caller          \* where each caller is, with its locals

vars ==
    <<scaling, tunable, migrate, file, governor, boostpulse_fd, lock, caller>>

Idle == [at |-> "idle"]
At(label) == [at |-> label]
AtTunable(n) == [at |-> "tune", next |-> n]
Goto(c, from, to) ==
    /\ caller[c].at = from
    /\ caller' = [caller EXCEPT ![c] = At(to)]

LowestUnused(f) == file[f] = NoFile /\ \A g \in Fd : g < f => file[g] # NoFile

(* sysfs_write of a tunable.  Its open or its write may fail, which is     *)
(* only logged; a tunable that still has its default is then "failed".     *)
AfterFailure(value) == IF value = "default" THEN "failed" ELSE value
SysfsWrite(n) ==
    \E value \in {"set", AfterFailure(tunable[n])} :
        tunable' = [tunable EXCEPT ![n] = value]

Defaults(g) == [n \in 1 .. Tunables[g] |-> "default"]

(* cm_power_init, before any hint: any of its writes may have failed. *)
Init ==
    /\ \E g \in Governors :
          /\ scaling = [governor |-> g, number |-> 0]
          /\ \/ /\ governor = g
                /\ tunable \in [1 .. Tunables[g] -> {"set", "failed"}]
             \/ governor = "" /\ tunable = Defaults(g)
    /\ migrate \in BOOLEAN
    /\ file = [f \in Fd |-> NoFile]
    /\ boostpulse_fd = -1
    /\ lock = NoThread
    /\ caller = [c \in Callers |-> Idle]

-----------------------------------------------------------------------------
(* cm_power_hint for an interaction or a CPU boost, and boostpulse_open.   *)

Hint(c) ==
    /\ lock = NoThread
    /\ lock' = c
    /\ Goto(c, "idle", IF boostpulse_fd < 0 THEN "read" ELSE "unlock")
    /\ UNCHANGED <<scaling, tunable, migrate, file, governor, boostpulse_fd>>

(* get_scaling_governor, which leaves the name alone if it fails. *)
GetScalingGovernor(c) ==
    /\ \/ governor' = scaling.governor /\ Goto(c, "read", "open")
       \/ UNCHANGED governor /\ Goto(c, "read", "unlock")
    /\ UNCHANGED <<scaling, tunable, migrate, file, boostpulse_fd, lock>>

OpenOnly(c) ==                  \* mutant of OpenPulse: the tunables are left
    /\ governor \in PulseGovernors
    /\ governor = scaling.governor
    /\ \E f \in Fd :
          /\ LowestUnused(f)
          /\ file' = [file EXCEPT ![f] = Pulse(scaling.number)]
          /\ boostpulse_fd' = f
    /\ Goto(c, "open", "unlock")
    /\ UNCHANGED <<scaling, tunable, migrate, governor, lock>>

OpenPulse(c) ==
    /\ \/ /\ governor \in PulseGovernors
          /\ governor = scaling.governor
          /\ \E f \in Fd :
                /\ LowestUnused(f)
                /\ file' = [file EXCEPT ![f] = Pulse(scaling.number)]
                /\ boostpulse_fd' = f
          /\ Goto(c, "open", "configure")
       \/ Goto(c, "open", "unlock") /\ UNCHANGED <<file, boostpulse_fd>>
    /\ UNCHANGED <<scaling, tunable, migrate, governor, lock>>

(* configure_governor begins with cm_power_set_interactive(NULL, 1). *)
Configure(c) ==
    /\ caller[c].at = "configure"
    /\ migrate' \in {migrate, TRUE}
    /\ caller' = [caller EXCEPT ![c] = AtTunable(1)]
    /\ UNCHANGED <<scaling, tunable, file, governor, boostpulse_fd, lock>>

(* It goes on with the tunables of the governor whose name was read last,  *)
(* which are gone if the kernel has replaced the governor since.           *)
Tune(c) ==
    /\ caller[c].at = "tune"
    /\ LET n == caller[c].next
       IN  /\ IF governor = scaling.governor
                 THEN SysfsWrite(n) ELSE UNCHANGED tunable
           /\ caller' = [caller EXCEPT ![c] =
                 IF n < Tunables[governor] THEN AtTunable(n + 1)
                                           ELSE At("unlock")]
    /\ UNCHANGED <<scaling, migrate, file, governor, boostpulse_fd, lock>>

KeepLock(c) ==                  \* mutant of Unlock: the lock is kept
    /\ Goto(c, "unlock", "return")
    /\ UNCHANGED <<scaling, tunable, migrate, file, governor, boostpulse_fd,
                   lock>>

Unlock(c) ==
    /\ lock' = NoThread
    /\ Goto(c, "unlock", "return")
    /\ UNCHANGED <<scaling, tunable, migrate, file, governor, boostpulse_fd>>

(* `return cm->boostpulse_fd', after the unlock. *)
Return(c) ==
    /\ Goto(c, "return", IF boostpulse_fd < 0 THEN "idle" ELSE "load")
    /\ UNCHANGED <<scaling, tunable, migrate, file, governor, boostpulse_fd,
                   lock>>

(* The argument of write(), read once more. *)
LoadFd(c) ==
    /\ caller[c].at = "load"
    /\ caller' = [caller EXCEPT ![c] = [at |-> "write", fd |-> boostpulse_fd]]
    /\ UNCHANGED <<scaling, tunable, migrate, file, governor, boostpulse_fd,
                   lock>>

(* A write to a node that is gone, or to no file, fails; any may. *)
IsLive(n) == n = Foreign \/ n = Pulse(scaling.number)
CanWrite(f) == f # -1 /\ IsLive(file[f])

WritePulse(c) ==
    /\ \/ Goto(c, "write", "idle") /\ CanWrite(caller[c].fd)
       \/ Goto(c, "write", "fail")
    /\ UNCHANGED <<scaling, tunable, migrate, file, governor, boostpulse_fd,
                   lock>>

GiveUp(c) ==                    \* mutant of LockToClose: the error is logged
    /\ Goto(c, "fail", "idle")
    /\ UNCHANGED <<scaling, tunable, migrate, file, governor, boostpulse_fd,
                   lock>>

LockToClose(c) ==
    /\ lock = NoThread
    /\ lock' = c
    /\ Goto(c, "fail", "close")
    /\ UNCHANGED <<scaling, tunable, migrate, file, governor, boostpulse_fd>>

ResetAndClose(c) ==             \* mutant of ClosePulse: reset first
    /\ boostpulse_fd' = -1
    /\ Goto(c, "close", "reset")
    /\ UNCHANGED <<scaling, tunable, migrate, file, governor, lock>>

(* close() of what the field holds now, -1 included. *)
ClosePulse(c) ==
    /\ file' = [f \in Fd |-> IF f = boostpulse_fd THEN NoFile ELSE file[f]]
    /\ Goto(c, "close", "reset")
    /\ UNCHANGED <<scaling, tunable, migrate, governor, boostpulse_fd, lock>>

KeepFd(c) ==                    \* mutant of ResetFd: the number is kept
    /\ lock' = NoThread
    /\ Goto(c, "reset", "idle")
    /\ UNCHANGED <<scaling, tunable, migrate, file, governor, boostpulse_fd>>

ResetFd(c) ==
    /\ boostpulse_fd' = -1
    /\ lock' = NoThread
    /\ Goto(c, "reset", "idle")
    /\ UNCHANGED <<scaling, tunable, migrate, file, governor>>

(* cm_power_set_interactive *)
SetInteractive ==
    /\ migrate' \in BOOLEAN     \* the write may fail
    /\ UNCHANGED <<scaling, tunable, file, governor, boostpulse_fd, lock,
                   caller>>
-----------------------------------------------------------------------------
(* The kernel and the rest of the process. *)

(* The tunables of a governor that is switched on have their defaults. *)
SwitchGovernor ==
    /\ scaling.number < MaxSwitches
    /\ \E g \in Governors \ {scaling.governor} :
          /\ scaling' = [governor |-> g, number |-> scaling.number + 1]
          /\ tunable' = Defaults(g)
    /\ UNCHANGED <<migrate, file, governor, boostpulse_fd, lock, caller>>

ForeignOpen ==
    /\ \A f \in Fd : file[f] # Foreign      \* one foreign file at a time
    /\ \E f \in Fd : LowestUnused(f) /\ file' = [file EXCEPT ![f] = Foreign]
    /\ UNCHANGED <<scaling, tunable, migrate, governor, boostpulse_fd, lock,
                   caller>>

ForeignClose ==
    /\ \E f \in Fd : file[f] = Foreign /\ file' = [file EXCEPT ![f] = NoFile]
    /\ UNCHANGED <<scaling, tunable, migrate, governor, boostpulse_fd, lock,
                   caller>>

-----------------------------------------------------------------------------
Opening(c) ==
    \/ GetScalingGovernor(c) \/ OpenPulse(c)
    \/ Configure(c) \/ Tune(c) \/ Unlock(c)
Writing(c) == Return(c) \/ LoadFd(c) \/ WritePulse(c)
Closing(c) == LockToClose(c) \/ ClosePulse(c) \/ ResetFd(c)
Continue(c) == Opening(c) \/ Writing(c) \/ Closing(c)

Next ==
    \/ \E c \in Callers : Hint(c) \/ Continue(c)
    \/ SetInteractive
    \/ SwitchGovernor \/ ForeignOpen \/ ForeignClose

(* A thread goes on with a hint it has begun; nobody has to send one. *)
Spec == Init /\ [][Next]_vars /\ \A c \in Callers : WF_vars(Continue(c))

-----------------------------------------------------------------------------
(* Properties. *)

UnderLock == {"read", "open", "configure", "tune", "unlock", "close", "reset"}
Places == (UnderLock \ {"tune"}) \cup {"idle", "return", "load", "fail"}
CallerStates ==
    [at : Places] \cup [at : {"tune"}, next : Nat \ {0}]
                  \cup [at : {"write"}, fd : Fd \cup {-1}]
Pulses == {Pulse(n) : n \in 0 .. MaxSwitches}
Files == {NoFile, Foreign} \cup Pulses

(* Every variable has its type, and the lock is with the one thread that   *)
(* is between locking and unlocking it.                                    *)
TypeOK ==
    /\ scaling \in [governor : Governors, number : 0 .. MaxSwitches]
    /\ tunable \in
          [1 .. Tunables[scaling.governor] -> {"default", "set", "failed"}]
    /\ migrate \in BOOLEAN
    /\ file \in [Fd -> Files]
    /\ governor \in Governors \cup {""}
    /\ boostpulse_fd \in Fd \cup {-1}
    /\ lock \in Callers \cup {NoThread}
    /\ caller \in [Callers -> CallerStates]
    /\ \A c \in Callers : caller[c].at \in UnderLock <=> lock = c

IsPulse(f) == file[f] \in Pulses

(* However hints overlap with each other, with switches of the governor    *)
(* and with failed writes, the HAL has one descriptor of a boostpulse node *)
(* at most, and boostpulse_fd is its number: none leaks, and the number is *)
(* nobody else's.                                                          *)
FieldIsDescriptor ==
    /\ \A f \in Fd : IsPulse(f) => boostpulse_fd = f
    /\ boostpulse_fd # -1 =>
          IsPulse(boostpulse_fd) \/ \E c \in Callers : caller[c].at = "reset"

(* No hint closes the file of another thread of the process, although it   *)
(* closes a number that was written to without the lock.                   *)
ForeignStaysOpen ==
    [][\A f \in Fd : file[f] = Foreign /\ file'[f] # Foreign =>
          UNCHANGED caller]_vars

(* While the descriptor works, configure_governor has been through all the *)
(* tunables of its governor since that was switched on: one that has its   *)
(* default could not be written.                                           *)
PulseIsConfigured ==
    lock = NoThread /\ boostpulse_fd # -1 /\ IsLive(file[boostpulse_fd])
        => \A n \in DOMAIN tunable : tunable[n] # "default"

(* A write that failed is the last on the descriptor of a governor that is *)
(* gone: the next hint opens the node of the new one.                      *)
IsStale == boostpulse_fd # -1 /\ ~IsLive(file[boostpulse_fd])
StalePulseIsClosed ==
    \A c \in Callers : caller[c].at = "fail" ~> ~IsStale
=============================================================================

---------------------------- MODULE SataStandby ----------------------------
(***************************************************************************)
(* power/tegra_sata_hal.cpp: hdd_set_standby_timer lets the disk suspend   *)
(* itself and hdd_disable_standby_timer keeps it awake.  Either goes       *)
(* through a list of nodes and opens, writes and closes one at a time;     *)
(* anything may fail.  Other threads of the process open and close files   *)
(* meanwhile, so that a number is given out again as soon as it is free.   *)
(* hdd_get_temperature has no caller and is left out.                      *)
(***************************************************************************)
EXTENDS Integers, Sequences

CONSTANT MaxFd      \* descriptor numbers that this process may use

ASSUME FdAssumption == MaxFd \in Nat

Fd == 0 .. MaxFd - 1
NoFd == -1

VARIABLES
    hdd,        \* where a call is, with its locals
    nodes,      \* what the power nodes of the disk say
    files       \* what each descriptor refers to: "node", "foreign", "none"

sataVars == <<hdd, nodes, files>>

Step(n, v) == [node |-> n, val |-> v]

StandbyHostFirst ==             \* mutant of Standby: steps 2 and 3 swapped
    << Step("control", "auto"), Step("host_control", "auto"),
       Step("autosuspend_delay_ms", "60000") >>

(* The three steps of hdd_set_standby_timer, and the two of                *)
(* hdd_disable_standby_timer.                                              *)
Standby ==
    << Step("control", "auto"), Step("autosuspend_delay_ms", "60000"),
       Step("host_control", "auto") >>
Disable == << Step("control", "on"), Step("host_control", "on") >>

StepsOf(op) == IF op = "standby" THEN Standby ELSE Disable

HddIdle == [at |-> "idle", op |-> "none", i |-> 0, fd |-> NoFd]

SataInit ==
    /\ hdd = HddIdle
    /\ nodes = [control |-> "on", autosuspend_delay_ms |-> "-1",
                host_control |-> "on"]
    /\ files = [f \in Fd |-> "none"]

LowestUnused(f) ==
    /\ files[f] = "none"
    /\ \A g \in Fd : g < f => files[g] # "none"

-----------------------------------------------------------------------------
(* The call begins. *)
StartHdd(op) ==
    /\ hdd = HddIdle
    /\ hdd' = [at |-> "open", op |-> op, i |-> 1, fd |-> NoFd]

(* open(), which in hdd_set_standby_timer goes to `done' when it fails and *)
(* in hdd_disable_standby_timer returns.                                   *)
OpenNode ==
    /\ hdd.at = "open"
    /\ \/ \E f \in Fd :
            /\ LowestUnused(f)
            /\ files' = [files EXCEPT ![f] = "node"]
            /\ hdd' = [hdd EXCEPT !.at = "write", !.fd = f]
       \/ /\ hdd' = IF hdd.op = "standby" THEN [hdd EXCEPT !.at = "done"]
                    ELSE HddIdle
          /\ UNCHANGED files
    /\ UNCHANGED nodes

WriteNode ==
    /\ hdd.at = "write"
    /\ \/ /\ nodes' = [nodes EXCEPT ![StepsOf(hdd.op)[hdd.i].node] =
                          StepsOf(hdd.op)[hdd.i].val]
          /\ hdd' = [hdd EXCEPT !.at = "close"]
       \/ /\ hdd' = [hdd EXCEPT !.at = "done"]
          /\ UNCHANGED nodes
    /\ UNCHANGED files

FdKept == hdd.fd                \* mutant of FdAfterClose: no `fd = -1'

(* hdd_set_standby_timer sets fd to -1 after each close but the last; the  *)
(* other call overwrites it before it looks at it again.                   *)
FdAfterClose == IF hdd.op = "standby" THEN NoFd ELSE hdd.fd

CloseNode ==
    /\ hdd.at = "close"
    /\ files' = [files EXCEPT ![hdd.fd] = "none"]
    /\ hdd' = IF hdd.i = Len(StepsOf(hdd.op)) THEN HddIdle
              ELSE [hdd EXCEPT !.at = "open", !.i = @ + 1, !.fd = FdAfterClose]
    /\ UNCHANGED nodes

DoneOpen ==                     \* mutant of Done: a bare `return error'
    /\ hdd.at = "done"
    /\ hdd' = HddIdle
    /\ UNCHANGED <<nodes, files>>

(* The label `done'. *)
Done ==
    /\ hdd.at = "done"
    /\ files' = IF hdd.fd >= 0 THEN [files EXCEPT ![hdd.fd] = "none"]
                ELSE files
    /\ hdd' = HddIdle
    /\ UNCHANGED nodes

HddStep == OpenNode \/ WriteNode \/ CloseNode \/ Done

-----------------------------------------------------------------------------
(* Other threads. *)
ForeignOpen ==
    /\ \E f \in Fd :
          LowestUnused(f) /\ files' = [files EXCEPT ![f] = "foreign"]
    /\ UNCHANGED <<hdd, nodes>>

ForeignClose ==
    /\ \E f \in Fd :
          files[f] = "foreign" /\ files' = [files EXCEPT ![f] = "none"]
    /\ UNCHANGED <<hdd, nodes>>

-----------------------------------------------------------------------------
(* Properties. *)

(* A call leaves no descriptor open, on whatever path it returns.          *)
NothingLeftOpen == hdd = HddIdle => \A f \in Fd : files[f] # "node"

(* No call closes a file of another thread: `done' looks at fd, which      *)
(* still held the number of the node before if it were not set to -1 there *)
(* (tegra_sata_hal.cpp:136, 144, 157).                                     *)
ForeignStaysOpen ==
    [][\A f \in Fd :
          files[f] = "foreign" /\ files'[f] # "foreign" => hdd' = hdd]_sataVars

(* The disk's host suspends itself only with the delay that was asked for, *)
(* although any of the three steps may fail (tegra_sata_hal.cpp:129-151).  *)
HostWaitsForDelay ==
    nodes.host_control = "auto" => nodes.autosuspend_delay_ms = "60000"
=============================================================================

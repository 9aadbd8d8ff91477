-------------------------- MODULE InteractiveMode --------------------------
(***************************************************************************)
(* power/power.cpp: shield_power_set_interactive, with                     *)
(* common_power_set_interactive of power/nvpowerhal.cpp in the branch for  *)
(* Tegra K1.  The framework calls it, one call at a time, when the screen  *)
(* goes on or off.  A call writes a list of sysfs nodes one after the      *)
(* other and ignores what fails, and then sees to the disk.                *)
(*                                                                         *)
(* The kernel is external.  While autosmp is enabled it may put any        *)
(* secondary core online or offline at any time; the LP cluster has no     *)
(* secondary cores: it cannot be made active while one is online, and is   *)
(* left when one comes online.  A write of no characters does nothing.     *)
(***************************************************************************)
EXTENDS SataStandby

CONSTANTS
    InputDevs,      \* dev_id of each entry of input_devs; empty if null
    InputCnt,       \* input_cnt
    MaxFaults       \* writes of one call that may fail

ASSUME InputsAssumption ==
    /\ InputDevs \in Seq(Nat \cup {-1}) /\ InputCnt \in Nat
    /\ InputDevs # << >> => InputCnt = Len(InputDevs)
ASSUME FaultsAssumption == MaxFaults \in Nat

VARIABLES
    screen,     \* where the call of set_interactive is, or what it was
    knob,       \* the settings: for the screen "on", "off", or as at "boot"
    online,     \* the secondary cores that are online
    cluster     \* the active cluster

Cores == 1 .. 3     \* the secondary cores

interactiveVars == <<screen, knob, online, cluster>>
vars == <<interactiveVars, sataVars>>

Input(d) == <<"input", d>>
Governor == << <<"scaling_min_freq">>, <<"above_hispeed_delay">>,
    <<"go_hispeed_load">>, <<"hispeed_freq">>, <<"io_is_busy">>,
    <<"min_sample_time">>, <<"target_loads">>, <<"timer_rate">>,
    <<"timer_slack">>, <<"c2bus">> >>
AutoSmp == <<"autosmp">>
Online(k) == <<"online", k>>
Cluster == <<"cluster">>

(* The dev_id of each pass of the loop over input_cnt; -1 is skipped.      *)
DevIds ==
    [i \in 1 .. InputCnt |-> IF InputDevs = << >> THEN i - 1 ELSE InputDevs[i]]

CoresThenAutoSmp ==             \* mutant of CpuWrites: autosmp goes last
    << Online(1), Online(2), Online(3), AutoSmp, Cluster >>

CpuWrites == << AutoSmp, Online(1), Online(2), Online(3), Cluster >>

(* The nodes in the order in which they are written. *)
Writes ==
    << <<"boost_sclk">> >>
        \o [i \in 1 .. InputCnt |-> Input(DevIds[i])]
        \o Governor \o CpuWrites

(* The nodes that hold a setting: all but the cores and the cluster.       *)
Knobs ==
    {<<"boost_sclk">>, AutoSmp}
        \cup {Governor[i] : i \in DOMAIN Governor}
        \cup {Input(DevIds[i]) : i \in {j \in 1 .. InputCnt : DevIds[j] # -1}}

Init ==
    /\ SataInit
    /\ screen = [at |-> "idle", on |-> TRUE, i |-> 0, faults |-> MaxFaults + 1]
    /\ knob = [n \in Knobs |-> "boot"]
    /\ online = {}
    /\ cluster = "G"

-----------------------------------------------------------------------------
SetInteractive ==
    /\ screen.at = "idle"
    /\ \E on \in BOOLEAN :
          screen' = [at |-> "write", on |-> on, i |-> 1, faults |-> 0]
    /\ UNCHANGED <<knob, online, cluster, sataVars>>

ToNext(faults) ==
    screen' = [screen EXCEPT
                  !.i = @ + 1, !.faults = faults,
                  !.at = IF screen.i = Len(Writes) THEN "disk" ELSE "write"]

Value == IF screen.on THEN "on" ELSE "off"

(* What a write that does not fail does. *)
Effect(n) ==
    \/ /\ n \in Knobs
       /\ knob' = [knob EXCEPT ![n] = Value]
       /\ UNCHANGED <<online, cluster>>
    \/ \E k \in Cores :
          /\ n = Online(k)
          /\ online' = IF screen.on THEN online \cup {k} ELSE online \ {k}
          /\ cluster' = IF screen.on THEN "G" ELSE cluster
          /\ UNCHANGED knob
    \/ /\ n = Cluster
       /\ cluster' = IF screen.on \/ online # {} THEN cluster ELSE "LP"
       /\ UNCHANGED <<knob, online>>

(* One sysfs_write ... *)
SysfsWrite ==
    /\ screen.at = "write"
    /\ Effect(Writes[screen.i])
    /\ ToNext(screen.faults)
    /\ UNCHANGED sataVars

(* ... and one that fails, or (for an input device) finds nothing to write. *)
WriteFails ==
    /\ screen.at = "write"
    /\ Writes[screen.i] # Input(-1)
    /\ screen.faults < MaxFaults
    /\ ToNext(screen.faults + 1)
    /\ UNCHANGED <<knob, online, cluster, sataVars>>

BreakOff ==                     \* mutant of SkipDevice: break for continue
    /\ screen.at = "write"
    /\ Writes[screen.i] = Input(-1)
    /\ screen' = [screen EXCEPT !.i = InputCnt + 2]
    /\ UNCHANGED <<knob, online, cluster, sataVars>>

(* An entry of input_devs that has found no device: `continue'. *)
SkipDevice ==
    /\ screen.at = "write"
    /\ Writes[screen.i] = Input(-1)
    /\ ToNext(screen.faults)
    /\ UNCHANGED <<knob, online, cluster, sataVars>>

(* access(FOSTER_E_HDD) says whether there is a disk. *)
SetDisk ==
    /\ screen.at = "disk"
    /\ \/ /\ StartHdd(IF screen.on THEN "disable" ELSE "standby")
          /\ screen' = [screen EXCEPT !.at = "hdd"]
       \/ screen' = [screen EXCEPT !.at = "idle"] /\ UNCHANGED hdd
    /\ UNCHANGED <<knob, online, cluster, nodes, files>>

ProceedHdd == HddStep /\ UNCHANGED interactiveVars

ReturnFromHdd ==
    /\ screen.at = "hdd" /\ hdd = HddIdle
    /\ screen' = [screen EXCEPT !.at = "idle"]
    /\ UNCHANGED <<knob, online, cluster, sataVars>>

(* autosmp, while it is enabled: at boot it is. *)
Hotplug ==
    /\ knob[AutoSmp] # "off"
    /\ \E k \in Cores :
          \/ online' = online \ {k} /\ UNCHANGED cluster
          \/ online' = online \cup {k} /\ cluster' = "G"
    /\ UNCHANGED <<screen, knob, sataVars>>

Foreign == (ForeignOpen \/ ForeignClose) /\ UNCHANGED interactiveVars

Next ==
    \/ SetInteractive \/ SysfsWrite \/ WriteFails \/ SkipDevice
    \/ SetDisk \/ ProceedHdd \/ ReturnFromHdd \/ Hotplug \/ Foreign

Spec == Init /\ [][Next]_vars

-----------------------------------------------------------------------------
(* Properties. *)

Complete == screen.at = "idle" /\ screen.faults = 0

(* A call none of whose writes failed leaves every setting, and every      *)
(* input device that has one, as its argument says, whatever calls before  *)
(* it have left undone (nvpowerhal.cpp:260-306).                           *)
LastCallDecides == Complete => \A n \in Knobs : knob[n] = Value

(* After a call for screen off the secondary cores are offline, and stay   *)
(* so, and the LP cluster is active: the order in which autosmp, the cores *)
(* and the cluster are written keeps autosmp from waking a core that has   *)
(* been put offline (nvpowerhal.cpp:306-310).                              *)
DarkIsQuiet ==
    Complete /\ ~screen.on => online = {} /\ cluster = "LP"
=============================================================================

----------------------- MODULE InteractiveModeProofs -----------------------
(***************************************************************************)
(* What set_interactive leaves behind, for any input devices and any       *)
(* number of failed writes, and the safety of the disk's standby calls     *)
(* that it makes, for any number of descriptors.                           *)
(***************************************************************************)
EXTENDS InteractiveMode, SequenceTheorems, TLAPS

-----------------------------------------------------------------------------
(* SataStandby: the inductive invariant. *)

HddTypeOK ==
    /\ hdd \in [at : {"idle", "open", "write", "close", "done"},
                op : {"none", "standby", "disable"},
                i : 0 .. 3, fd : Fd \cup {NoFd}]
    /\ nodes \in [control : {"on", "auto"},
                  autosuspend_delay_ms : {"-1", "60000"},
                  host_control : {"on", "auto"}]
    /\ files \in [Fd -> {"node", "foreign", "none"}]

(* Where a call is says which locals are live and how many steps are left. *)
Places ==
    /\ hdd.at = "idle" => hdd = HddIdle
    /\ hdd.at # "idle" =>
          hdd.op \in {"standby", "disable"} /\ hdd.i \in 1 .. Len(StepsOf(hdd.op))
    /\ hdd.at \in {"write", "close"} => hdd.fd \in Fd
    /\ hdd.at = "open" /\ hdd.op = "standby" => hdd.fd = NoFd
    /\ hdd.at = "done" => hdd.op = "standby" \/ hdd.fd \in Fd

(* Exactly the descriptor that the call is working on refers to a node;    *)
(* in particular `done' finds either that one or none in fd.               *)
OneNode ==
    \A f \in Fd :
        files[f] = "node" <=> hdd.at \in {"write", "close", "done"} /\ hdd.fd = f

(* The delay is written before the host's control, and never taken back.   *)
DelayFirst ==
    /\ hdd.op = "standby" /\ hdd.i = 2 /\ hdd.at = "close" =>
          nodes.autosuspend_delay_ms = "60000"
    /\ hdd.op = "standby" /\ hdd.i = 3 =>
          nodes.autosuspend_delay_ms = "60000"

HddInv == HddTypeOK /\ Places /\ OneNode /\ DelayFirst /\ HostWaitsForDelay

LEMMA StepsLength ==
  /\ Len(Standby) = 3 /\ Len(Disable) = 2
  /\ Standby[1] = Step("control", "auto")
  /\ Standby[2] = Step("autosuspend_delay_ms", "60000")
  /\ Standby[3] = Step("host_control", "auto")
  /\ Disable[1] = Step("control", "on")
  /\ Disable[2] = Step("host_control", "on")
BY DEF Standby, Disable

(* The node that a call at its write is about to write, and the value.     *)
LEMMA StepWritten ==
  ASSUME HddTypeOK, Places, hdd.at = "write"
  PROVE  \/ /\ hdd.op = "standby" /\ hdd.i = 1
            /\ StepsOf(hdd.op)[hdd.i] = Step("control", "auto")
         \/ /\ hdd.op = "standby" /\ hdd.i = 2
            /\ StepsOf(hdd.op)[hdd.i] = Step("autosuspend_delay_ms", "60000")
         \/ /\ hdd.op = "standby" /\ hdd.i = 3
            /\ StepsOf(hdd.op)[hdd.i] = Step("host_control", "auto")
         \/ /\ hdd.op = "disable" /\ hdd.i = 1
            /\ StepsOf(hdd.op)[hdd.i] = Step("control", "on")
         \/ /\ hdd.op = "disable" /\ hdd.i = 2
            /\ StepsOf(hdd.op)[hdd.i] = Step("host_control", "on")
<1>1. hdd.op \in {"standby", "disable"} /\ hdd.i \in 1 .. Len(StepsOf(hdd.op))
  BY DEF Places
<1>2. CASE hdd.op = "standby"
  <2>1. StepsOf(hdd.op) = Standby
    BY <1>2 DEF StepsOf
  <2>2. hdd.i = 1 \/ hdd.i = 2 \/ hdd.i = 3
    BY <1>1, <2>1, StepsLength
  <2>3. QED
    BY <1>2, <2>1, <2>2, StepsLength
<1>3. CASE hdd.op = "disable"
  <2>1. StepsOf(hdd.op) = Disable
    BY <1>3 DEF StepsOf
  <2>2. hdd.i = 1 \/ hdd.i = 2
    BY <1>1, <2>1, StepsLength
  <2>3. QED
    BY <1>3, <2>1, <2>2, StepsLength
<1>4. QED
  BY <1>1, <1>2, <1>3

LEMMA SataInitInv == SataInit => HddInv
<1> SUFFICES ASSUME SataInit PROVE HddInv
  OBVIOUS
<1>1. HddTypeOK
  BY FdAssumption DEF SataInit, HddTypeOK, HddIdle, NoFd, Fd
<1>2. Places
  BY DEF SataInit, Places, HddIdle
<1>3. OneNode /\ DelayFirst /\ HostWaitsForDelay
  BY DEF SataInit, OneNode, DelayFirst, HostWaitsForDelay, HddIdle
<1>4. QED
  BY <1>1, <1>2, <1>3 DEF HddInv

LEMMA StartHddInv ==
  ASSUME HddInv, NEW op \in {"standby", "disable"}, StartHdd(op),
         UNCHANGED <<nodes, files>>
  PROVE  HddInv'
<1> USE DEF HddInv, StartHdd
<1>1. HddTypeOK'
  BY DEF HddTypeOK, NoFd
<1>2. Places'
  BY StepsLength DEF Places, StepsOf
<1>3. OneNode'
  BY DEF OneNode, HddIdle
<1>4. DelayFirst' /\ HostWaitsForDelay'
  BY DEF DelayFirst, HostWaitsForDelay
<1>5. QED
  BY <1>1, <1>2, <1>3, <1>4

LEMMA OpenNodeInv == ASSUME HddInv, OpenNode PROVE HddInv'
<1> USE DEF HddInv
<1>1. hdd.op \in {"standby", "disable"} /\ hdd.i \in 1 .. Len(StepsOf(hdd.op))
  BY DEF Places, OpenNode
<1>2. \A f \in Fd : files[f] # "node"
  BY DEF OneNode, OpenNode
<1>3. CASE \E f \in Fd :
              /\ LowestUnused(f)
              /\ files' = [files EXCEPT ![f] = "node"]
              /\ hdd' = [hdd EXCEPT !.at = "write", !.fd = f]
  <2> PICK f \in Fd : /\ files' = [files EXCEPT ![f] = "node"]
                      /\ hdd' = [hdd EXCEPT !.at = "write", !.fd = f]
    BY <1>3
  <2>1. hdd'.at = "write" /\ hdd'.fd = f /\ hdd'.op = hdd.op /\ hdd'.i = hdd.i
    BY DEF HddTypeOK
  <2>2. HddTypeOK'
    BY DEF HddTypeOK, OpenNode
  <2>3. Places'
    BY <1>1, <2>1 DEF Places, StepsOf
  <2>4. OneNode'
    BY <1>2, <2>1 DEF OneNode, HddTypeOK
  <2>5. DelayFirst' /\ HostWaitsForDelay'
    BY <2>1 DEF DelayFirst, HostWaitsForDelay, OpenNode
  <2>6. QED
    BY <2>2, <2>3, <2>4, <2>5
<1>4. CASE /\ hdd' = IF hdd.op = "standby" THEN [hdd EXCEPT !.at = "done"]
                     ELSE HddIdle
           /\ UNCHANGED files
  <2>1. CASE hdd.op = "standby"
    <3>1. hdd' = [hdd EXCEPT !.at = "done"] /\ hdd.fd = NoFd
      BY <1>4, <2>1 DEF Places, OpenNode
    <3>2. /\ hdd'.at = "done" /\ hdd'.fd = NoFd
          /\ hdd'.op = "standby" /\ hdd'.i = hdd.i
      BY <2>1, <3>1 DEF HddTypeOK
    <3>3. HddTypeOK'
      BY <1>4, <3>1 DEF HddTypeOK, OpenNode
    <3>4. Places'
      BY <1>1, <2>1, <3>2 DEF Places, StepsOf
    <3>5. OneNode'
      BY <1>2, <1>4, <3>2 DEF OneNode, NoFd, Fd
    <3>6. DelayFirst' /\ HostWaitsForDelay'
      BY <2>1, <3>2 DEF DelayFirst, HostWaitsForDelay, OpenNode
    <3>7. QED
      BY <3>3, <3>4, <3>5, <3>6
  <2>2. CASE hdd.op # "standby"
    <3>1. hdd' = HddIdle
      BY <1>4, <2>2
    <3>2. HddTypeOK'
      BY <1>4, <3>1 DEF HddTypeOK, HddIdle, OpenNode
    <3>3. Places' /\ DelayFirst' /\ HostWaitsForDelay'
      BY <3>1 DEF Places, DelayFirst, HostWaitsForDelay, HddIdle, OpenNode
    <3>4. OneNode'
      BY <1>2, <1>4, <3>1 DEF OneNode, HddIdle
    <3>5. QED
      BY <3>2, <3>3, <3>4
  <2>3. QED
    BY <2>1, <2>2
<1>5. QED
  BY <1>3, <1>4 DEF OpenNode

LEMMA WriteNodeInv == ASSUME HddInv, WriteNode PROVE HddInv'
<1> USE DEF HddInv
<1>0. hdd.at = "write" /\ hdd.fd \in Fd /\ UNCHANGED files
  BY DEF WriteNode, Places
<1>1. CASE /\ nodes' = [nodes EXCEPT ![StepsOf(hdd.op)[hdd.i].node] =
                            StepsOf(hdd.op)[hdd.i].val]
           /\ hdd' = [hdd EXCEPT !.at = "close"]
  <2>1. /\ hdd'.at = "close" /\ hdd'.fd = hdd.fd
        /\ hdd'.op = hdd.op /\ hdd'.i = hdd.i
    BY <1>1 DEF HddTypeOK
  <2>2. HddTypeOK' /\ DelayFirst' /\ HostWaitsForDelay'
    <3>1. hdd' \in [at : {"idle", "open", "write", "close", "done"},
                    op : {"none", "standby", "disable"},
                    i : 0 .. 3, fd : Fd \cup {NoFd}]
      BY <1>1 DEF HddTypeOK
    <3>2. CASE /\ hdd.op = "standby" /\ hdd.i = 1
               /\ StepsOf(hdd.op)[hdd.i] = Step("control", "auto")
      <4>1. /\ StepsOf(hdd.op)[hdd.i].node = "control"
            /\ StepsOf(hdd.op)[hdd.i].val = "auto"
        BY <3>2 DEF Step
      <4>2. nodes' = [nodes EXCEPT !["control"] = "auto"]
        BY <1>1, <4>1
      <4>3. QED
        BY <1>0, <2>1, <3>1, <3>2, <4>2
           DEF HddTypeOK, DelayFirst, HostWaitsForDelay
    <3>3. CASE /\ hdd.op = "standby" /\ hdd.i = 2
               /\ StepsOf(hdd.op)[hdd.i] =
                     Step("autosuspend_delay_ms", "60000")
      <4>1. /\ StepsOf(hdd.op)[hdd.i].node = "autosuspend_delay_ms"
            /\ StepsOf(hdd.op)[hdd.i].val = "60000"
        BY <3>3 DEF Step
      <4>2. nodes' = [nodes EXCEPT !["autosuspend_delay_ms"] = "60000"]
        BY <1>1, <4>1
      <4>3. QED
        BY <1>0, <2>1, <3>1, <3>3, <4>2
           DEF HddTypeOK, DelayFirst, HostWaitsForDelay
    <3>4. CASE /\ hdd.op = "standby" /\ hdd.i = 3
               /\ StepsOf(hdd.op)[hdd.i] = Step("host_control", "auto")
      <4>1. /\ StepsOf(hdd.op)[hdd.i].node = "host_control"
            /\ StepsOf(hdd.op)[hdd.i].val = "auto"
        BY <3>4 DEF Step
      <4>2. nodes' = [nodes EXCEPT !["host_control"] = "auto"]
        BY <1>1, <4>1
      <4>3. QED
        BY <1>0, <2>1, <3>1, <3>4, <4>2
           DEF HddTypeOK, DelayFirst, HostWaitsForDelay
    <3>5. CASE /\ hdd.op = "disable" /\ hdd.i = 1
               /\ StepsOf(hdd.op)[hdd.i] = Step("control", "on")
      <4>1. /\ StepsOf(hdd.op)[hdd.i].node = "control"
            /\ StepsOf(hdd.op)[hdd.i].val = "on"
        BY <3>5 DEF Step
      <4>2. nodes' = [nodes EXCEPT !["control"] = "on"]
        BY <1>1, <4>1
      <4>3. QED
        BY <1>0, <2>1, <3>1, <3>5, <4>2
           DEF HddTypeOK, DelayFirst, HostWaitsForDelay
    <3>6. CASE /\ hdd.op = "disable" /\ hdd.i = 2
               /\ StepsOf(hdd.op)[hdd.i] = Step("host_control", "on")
      <4>1. /\ StepsOf(hdd.op)[hdd.i].node = "host_control"
            /\ StepsOf(hdd.op)[hdd.i].val = "on"
        BY <3>6 DEF Step
      <4>2. nodes' = [nodes EXCEPT !["host_control"] = "on"]
        BY <1>1, <4>1
      <4>3. QED
        BY <1>0, <2>1, <3>1, <3>6, <4>2
           DEF HddTypeOK, DelayFirst, HostWaitsForDelay
    <3>7. QED
      BY <1>0, <3>2, <3>3, <3>4, <3>5, <3>6, StepWritten
  <2>3. Places'
    BY <1>0, <2>1 DEF Places, StepsOf
  <2>4. OneNode'
    BY <1>0, <2>1 DEF OneNode
  <2>5. QED
    BY <2>2, <2>3, <2>4
<1>2. CASE hdd' = [hdd EXCEPT !.at = "done"] /\ UNCHANGED nodes
  <2>1. /\ hdd'.at = "done" /\ hdd'.fd = hdd.fd
        /\ hdd'.op = hdd.op /\ hdd'.i = hdd.i
    BY <1>2 DEF HddTypeOK
  <2>2. HddTypeOK'
    BY <1>0, <1>2 DEF HddTypeOK
  <2>3. Places' /\ OneNode'
    BY <1>0, <2>1 DEF Places, OneNode, StepsOf
  <2>4. DelayFirst' /\ HostWaitsForDelay'
    BY <1>2, <2>1 DEF DelayFirst, HostWaitsForDelay
  <2>5. QED
    BY <2>2, <2>3, <2>4
<1>3. QED
  BY <1>1, <1>2 DEF WriteNode

(* After a close no descriptor refers to a node.                           *)
LEMMA NodeClosed ==
  ASSUME HddInv, hdd.at \in {"close", "done"}, hdd.fd \in Fd,
         files' = [files EXCEPT ![hdd.fd] = "none"]
  PROVE  /\ files' \in [Fd -> {"node", "foreign", "none"}]
         /\ \A f \in Fd : files'[f] # "node"
         /\ \A f \in Fd : files[f] = "foreign" => files'[f] = "foreign"
BY DEF HddInv, HddTypeOK, OneNode

LEMMA CloseNodeInv == ASSUME HddInv, CloseNode PROVE HddInv'
<1>0. hdd.at = "close" /\ hdd.fd \in Fd /\ UNCHANGED nodes
  BY DEF HddInv, CloseNode, Places
<1>1. /\ files' \in [Fd -> {"node", "foreign", "none"}]
      /\ \A f \in Fd : files'[f] # "node"
  BY <1>0, NodeClosed DEF CloseNode
<1> USE DEF HddInv
<1>2. hdd.op \in {"standby", "disable"} /\ hdd.i \in 1 .. Len(StepsOf(hdd.op))
  BY <1>0 DEF Places
<1>3. CASE hdd.i = Len(StepsOf(hdd.op))
  <2>1. hdd' = HddIdle
    BY <1>3 DEF CloseNode
  <2>2. HddTypeOK'
    BY <1>0, <1>1, <2>1 DEF HddTypeOK, HddIdle
  <2>3. Places' /\ DelayFirst' /\ HostWaitsForDelay'
    BY <1>0, <2>1 DEF Places, DelayFirst, HostWaitsForDelay, HddIdle
  <2>4. OneNode'
    BY <1>1, <2>1 DEF OneNode, HddIdle
  <2>5. QED
    BY <2>2, <2>3, <2>4
<1>4. CASE hdd.i # Len(StepsOf(hdd.op))
  <2>1. hdd' = [hdd EXCEPT !.at = "open", !.i = @ + 1, !.fd = FdAfterClose]
    BY <1>4 DEF CloseNode
  <2>2. /\ hdd'.at = "open" /\ hdd'.i = hdd.i + 1 /\ hdd'.op = hdd.op
        /\ hdd'.fd = FdAfterClose /\ FdAfterClose \in Fd \cup {NoFd}
    BY <1>0, <2>1 DEF HddTypeOK, FdAfterClose
  <2>3. /\ Len(StepsOf(hdd.op)) \in 2 .. 3
        /\ hdd.op = "disable" => Len(StepsOf(hdd.op)) = 2
    BY <1>2, StepsLength DEF StepsOf
  <2>4. hdd.i \in 1 .. 2 /\ hdd.i + 1 \in 1 .. Len(StepsOf(hdd.op))
    <3>1. PICK n : n = Len(StepsOf(hdd.op))
      OBVIOUS
    <3>2. hdd.i \in 1 .. n /\ n \in 2 .. 3 /\ hdd.i # n
      BY <1>2, <1>4, <2>3, <3>1
    <3>3. hdd.i \in 1 .. 2 /\ hdd.i + 1 \in 1 .. n
      BY <3>2
    <3>4. QED
      BY <3>1, <3>3
  <2>5. HddTypeOK'
    <3>1. hdd' = [at |-> "open", op |-> hdd.op, i |-> hdd.i + 1,
                  fd |-> FdAfterClose]
      BY <2>1 DEF HddTypeOK
    <3>2. QED
      BY <1>0, <1>1, <1>2, <2>2, <2>4, <3>1 DEF HddTypeOK
  <2>6. Places'
    BY <1>2, <2>2, <2>4 DEF Places, FdAfterClose, StepsOf
  <2>7. OneNode'
    BY <1>1, <2>2 DEF OneNode
  <2>8. DelayFirst'
    BY <1>0, <2>2, <2>4 DEF DelayFirst
  <2>9. HostWaitsForDelay'
    BY <1>0 DEF HostWaitsForDelay
  <2>10. QED
    BY <2>5, <2>6, <2>7, <2>8, <2>9
<1>5. QED
  BY <1>3, <1>4

LEMMA DoneInv == ASSUME HddInv, Done PROVE HddInv'
<1>0. hdd.at = "done" /\ UNCHANGED nodes /\ hdd' = HddIdle
  BY DEF Done
<1>1. /\ files' \in [Fd -> {"node", "foreign", "none"}]
      /\ \A f \in Fd : files'[f] # "node"
  <2>1. CASE hdd.fd >= 0
    <3>1. hdd.fd \in Fd /\ files' = [files EXCEPT ![hdd.fd] = "none"]
      BY <2>1 DEF Done, HddInv, HddTypeOK, NoFd
    <3>2. QED
      BY <1>0, <3>1, NodeClosed
  <2>2. CASE ~(hdd.fd >= 0)
    <3>1. hdd.fd \notin Fd /\ files' = files
      BY <2>2, FdAssumption DEF Done, Fd
    <3>2. QED
      BY <3>1 DEF HddInv, HddTypeOK, OneNode
  <2>3. QED
    BY <2>1, <2>2
<1> USE DEF HddInv
<1>2. HddTypeOK'
  BY <1>0, <1>1 DEF HddTypeOK, HddIdle
<1>3. Places' /\ DelayFirst' /\ HostWaitsForDelay'
  BY <1>0 DEF Places, DelayFirst, HostWaitsForDelay, HddIdle
<1>4. OneNode'
  BY <1>0, <1>1 DEF OneNode, HddIdle
<1>5. QED
  BY <1>2, <1>3, <1>4

LEMMA ForeignInv == ASSUME HddInv, ForeignOpen \/ ForeignClose PROVE HddInv'
<1>1. UNCHANGED <<hdd, nodes>>
  BY DEF ForeignOpen, ForeignClose
<1>2. PICK f \in Fd, x \in {"foreign", "none"} :
         files' = [files EXCEPT ![f] = x] /\ files[f] # "node"
  BY DEF ForeignOpen, ForeignClose, LowestUnused
<1>3. HddTypeOK' /\ OneNode'
  BY <1>1, <1>2 DEF HddInv, HddTypeOK, OneNode
<1>4. Places' /\ DelayFirst' /\ HostWaitsForDelay'
  BY <1>1 DEF HddInv, Places, StepsOf, DelayFirst, HostWaitsForDelay
<1>5. QED
  BY <1>3, <1>4 DEF HddInv

(* Every step of InteractiveMode keeps the invariant of the disk.          *)
LEMMA HddInvNext == ASSUME HddInv, [Next]_vars PROVE HddInv'
<1>1. CASE SetDisk
  <2>1. CASE /\ StartHdd(IF screen.on THEN "disable" ELSE "standby")
    BY <1>1, <2>1, StartHddInv DEF SetDisk
  <2>2. CASE UNCHANGED sataVars
    BY <2>2 DEF sataVars, HddInv, HddTypeOK, Places, StepsOf, OneNode,
                DelayFirst, HostWaitsForDelay
  <2>3. QED
    BY <1>1, <2>1, <2>2 DEF SetDisk, sataVars
<1>2. CASE ProceedHdd
  BY <1>2, OpenNodeInv, WriteNodeInv, CloseNodeInv, DoneInv
     DEF ProceedHdd, HddStep
<1>3. CASE Foreign
  BY <1>3, ForeignInv DEF Foreign
<1>4. CASE UNCHANGED sataVars
  BY <1>4 DEF sataVars, HddInv, HddTypeOK, Places, StepsOf, OneNode,
              DelayFirst, HostWaitsForDelay
<1>5. QED
  BY <1>1, <1>2, <1>3, <1>4
     DEF Next, SetInteractive, SysfsWrite, WriteFails, SkipDevice,
         ReturnFromHdd, Hotplug, vars

(* A step that ends another thread's file is that thread's own.            *)
LEMMA ForeignStep ==
  ASSUME HddInv, [Next]_vars, NEW f \in Fd,
         files[f] = "foreign", files'[f] # "foreign"
  PROVE  hdd' = hdd
<1>1. CASE SetDisk
  BY <1>1 DEF SetDisk
<1>2. CASE OpenNode
  BY <1>2 DEF OpenNode, LowestUnused, HddInv, HddTypeOK
<1>3. CASE WriteNode
  BY <1>3 DEF WriteNode
<1>4. CASE CloseNode
  BY <1>4, NodeClosed DEF CloseNode, HddInv, Places
<1>5. CASE Done
  <2>1. CASE hdd.fd >= 0
    BY <1>5, <2>1, NodeClosed DEF Done, HddInv, HddTypeOK, NoFd
  <2>2. CASE ~(hdd.fd >= 0)
    BY <1>5, <2>2 DEF Done
  <2>3. QED
    BY <2>1, <2>2
<1>6. CASE Foreign
  BY <1>6 DEF Foreign, ForeignOpen, ForeignClose
<1>7. CASE UNCHANGED files
  BY <1>7
<1>8. QED
  BY <1>1, <1>2, <1>3, <1>4, <1>5, <1>6, <1>7
     DEF Next, SetInteractive, SysfsWrite, WriteFails, SkipDevice, ProceedHdd,
         HddStep, ReturnFromHdd, Hotplug, sataVars, vars

LEMMA HddInvariant == Spec => []HddInv
<1>1. Init => HddInv
  BY SataInitInv DEF Init
<1>2. HddInv /\ [Next]_vars => HddInv'
  BY HddInvNext
<1>3. QED
  BY <1>1, <1>2, PTL DEF Spec

(* On whatever path hdd_set_standby_timer or hdd_disable_standby_timer     *)
(* returns, it has closed what it opened (tegra_sata_hal.cpp:111-203).     *)
THEOREM DiskCallsLeaveNothingOpen == Spec => []NothingLeftOpen
<1>1. HddInv => NothingLeftOpen
  BY DEF HddInv, NothingLeftOpen, OneNode, HddIdle
<1>2. QED
  BY <1>1, HddInvariant, PTL

(* The disk's host suspends itself only with the delay asked for, whichever*)
(* of the writes failed (tegra_sata_hal.cpp:129-151).                      *)
THEOREM HostHasDelay == Spec => []HostWaitsForDelay
<1>1. HddInv => HostWaitsForDelay
  BY DEF HddInv
<1>2. QED
  BY <1>1, HddInvariant, PTL

(* No call closes a descriptor of another thread, although numbers are     *)
(* given out again at once (tegra_sata_hal.cpp:136, 144, 157).             *)
THEOREM ForeignFilesStay == Spec => ForeignStaysOpen
<1>1. HddInv /\ [Next]_vars =>
        [\A f \in Fd :
            files[f] = "foreign" /\ files'[f] # "foreign" => hdd' = hdd]_sataVars
  BY ForeignStep
<1>2. QED
  BY <1>1, HddInvariant, PTL DEF Spec, ForeignStaysOpen

-----------------------------------------------------------------------------
(* InteractiveMode: the inductive invariant. *)

TypeOK ==
    /\ screen \in [at : {"idle", "write", "disk", "hdd"}, on : BOOLEAN,
                   i : Nat, faults : Nat]
    /\ knob \in [Knobs -> {"boot", "on", "off"}]
    /\ online \subseteq Cores
    /\ cluster \in {"G", "LP"}

Faultless == screen.faults = 0

(* A call that writes is at one of its writes; otherwise it is past them,  *)
(* unless there has been none.                                             *)
Progress ==
    /\ screen.at = "write" => screen.i \in 1 .. Len(Writes)
    /\ screen.at # "write" /\ Faultless => screen.i = Len(Writes) + 1

(* What a call without a fault has written is as its argument says.        *)
Written ==
    Faultless =>
        \A j \in 1 .. Len(Writes) :
            j < screen.i /\ Writes[j] \in Knobs => knob[Writes[j]] = Value

(* In such a call for screen off, a core that was put offline stays there. *)
Dark ==
    Faultless /\ ~screen.on =>
        /\ \A k \in Cores : Len(Writes) - 4 + k < screen.i => k \notin online
        /\ Len(Writes) < screen.i => cluster = "LP"

IInv == TypeOK /\ Progress /\ Written /\ Dark

(* Names of nodes: a setting is none of the cores, the cluster or the      *)
(* entry that is skipped.                                                  *)
LEMMA NodeNames ==
  /\ Cluster \notin Knobs /\ Input(-1) \notin Knobs /\ AutoSmp \in Knobs
  /\ \A k \in Cores : Online(k) \notin Knobs /\ Online(k) # Cluster
  /\ \A j, k \in Cores : Online(j) = Online(k) => j = k
  /\ \A d \in Int : Input(d) # Cluster
  /\ \A d \in Int, k \in Cores : Input(d) # Online(k)
<1>1. DOMAIN Governor = 1 .. 10
  BY DEF Governor
<1>2. \A g \in 1 .. 10 :
         /\ Governor[g] # Cluster
         /\ \A d \in Int : Governor[g] # Input(d)
         /\ \A k \in Cores : Governor[g] # Online(k)
  BY DEF Governor, Cluster, Input, Online
<1>3. /\ \A d \in Int : Input(d) # Cluster
      /\ \A d \in Int, k \in Cores : Input(d) # Online(k)
      /\ \A d \in Int : Input(d) = Input(-1) => d = -1
  BY DEF Input, Cluster, Online
<1>4. /\ \A d \in Int :
            Input(d) # <<"boost_sclk">> /\ Input(d) # AutoSmp
      /\ \A k \in Cores :
            Online(k) # <<"boost_sclk">> /\ Online(k) # AutoSmp
      /\ Cluster # <<"boost_sclk">> /\ Cluster # AutoSmp
  BY DEF Input, AutoSmp, Online, Cluster
<1>5. /\ \A k \in Cores : Online(k) # Cluster
      /\ \A j, k \in Cores : Online(j) = Online(k) => j = k
  BY DEF Online, Cluster
<1>6. \A i \in 1 .. InputCnt : DevIds[i] \in Int
  BY InputsAssumption DEF DevIds
<1>7. Cluster \notin Knobs
  BY <1>1, <1>2, <1>3, <1>4, <1>6 DEF Knobs
<1>8. Input(-1) \notin Knobs
  BY <1>1, <1>2, <1>3, <1>4, <1>6 DEF Knobs
<1>9. \A k \in Cores : Online(k) \notin Knobs
  BY <1>1, <1>2, <1>3, <1>4, <1>6 DEF Knobs
<1>10. AutoSmp \in Knobs
  BY DEF Knobs
<1>11. QED
  BY <1>3, <1>5, <1>7, <1>8, <1>9, <1>10

(* The list of nodes, part by part.                                        *)
LEMMA WritesLayout ==
  /\ Len(Writes) = InputCnt + 16
  /\ Writes[1] = <<"boost_sclk">>
  /\ \A i \in 1 .. InputCnt : Writes[i + 1] = Input(DevIds[i])
  /\ \A g \in 1 .. 10 : Writes[InputCnt + 1 + g] = Governor[g]
  /\ \A c \in 1 .. 5 : Writes[InputCnt + 11 + c] = CpuWrites[c]
<1> DEFINE a == << <<"boost_sclk">> >>
           b == [i \in 1 .. InputCnt |-> Input(DevIds[i])]
           S == {a[1]} \cup {b[i] : i \in 1 .. InputCnt}
                  \cup {Governor[g] : g \in 1 .. 10}
                  \cup {CpuWrites[c] : c \in 1 .. 5}
<1>0. InputCnt \in Nat
  BY InputsAssumption
<1>1. a \in Seq(S) /\ Len(a) = 1 /\ a[1] = <<"boost_sclk">>
  OBVIOUS
<1>2. b \in Seq(S) /\ Len(b) = InputCnt
  BY <1>0, IsASeq, LenProperties
<1>3. Governor \in Seq(S) /\ Len(Governor) = 10
  <2>1. DOMAIN Governor = 1 .. 10 /\ Len(Governor) = 10
    BY DEF Governor
  <2>2. Governor = [g \in 1 .. 10 |-> Governor[g]]
    BY <2>1 DEF Governor
  <2>3. QED
    BY <2>1, <2>2, IsASeq
<1>4. CpuWrites \in Seq(S) /\ Len(CpuWrites) = 5
  <2>1. DOMAIN CpuWrites = 1 .. 5 /\ Len(CpuWrites) = 5
    BY DEF CpuWrites
  <2>2. CpuWrites = [c \in 1 .. 5 |-> CpuWrites[c]]
    BY <2>1 DEF CpuWrites
  <2>3. QED
    BY <2>1, <2>2, IsASeq
<1>5. \A i \in 1 .. InputCnt : b[i] = Input(DevIds[i])
  OBVIOUS
<1>6. Writes = ((a \o b) \o Governor) \o CpuWrites
  BY DEF Writes
<1> HIDE DEF a, b, S
<1>7. /\ a \o b \in Seq(S) /\ Len(a \o b) = InputCnt + 1
      /\ \A j \in 1 .. InputCnt + 1 :
            (a \o b)[j] = IF j <= 1 THEN a[j] ELSE b[j - 1]
  <2>1. /\ a \o b \in Seq(S) /\ Len(a \o b) = Len(a) + Len(b)
        /\ \A j \in 1 .. Len(a) + Len(b) :
              (a \o b)[j] = IF j <= Len(a) THEN a[j] ELSE b[j - Len(a)]
    BY <1>1, <1>2, ConcatProperties
  <2>2. Len(a) + Len(b) = InputCnt + 1 /\ Len(a) = 1
    BY <1>0, <1>1, <1>2
  <2>3. QED
    BY <2>1, <2>2
<1> DEFINE ab == a \o b
<1>8. /\ ab \o Governor \in Seq(S) /\ Len(ab \o Governor) = InputCnt + 11
      /\ \A j \in 1 .. InputCnt + 11 :
            (ab \o Governor)[j] = IF j <= InputCnt + 1 THEN ab[j]
                                  ELSE Governor[j - (InputCnt + 1)]
  <2> HIDE DEF ab
  <2>1. ab \in Seq(S) /\ Len(ab) = InputCnt + 1
    BY <1>7 DEF ab
  <2>2. /\ ab \o Governor \in Seq(S)
        /\ Len(ab \o Governor) = Len(ab) + Len(Governor)
        /\ \A j \in 1 .. Len(ab) + Len(Governor) :
              (ab \o Governor)[j] = IF j <= Len(ab) THEN ab[j]
                                    ELSE Governor[j - Len(ab)]
    BY <1>3, <2>1, ConcatProperties
  <2>3. Len(ab) + Len(Governor) = InputCnt + 11
    BY <1>0, <1>3, <2>1
  <2>4. QED
    BY <2>1, <2>2, <2>3
<1> DEFINE abg == ab \o Governor
<1>9. /\ Len(abg \o CpuWrites) = InputCnt + 16
      /\ \A j \in 1 .. InputCnt + 16 :
            (abg \o CpuWrites)[j] = IF j <= InputCnt + 11 THEN abg[j]
                                    ELSE CpuWrites[j - (InputCnt + 11)]
  <2> HIDE DEF abg
  <2>1. abg \in Seq(S) /\ Len(abg) = InputCnt + 11
    BY <1>8 DEF abg
  <2>2. /\ Len(abg \o CpuWrites) = Len(abg) + Len(CpuWrites)
        /\ \A j \in 1 .. Len(abg) + Len(CpuWrites) :
              (abg \o CpuWrites)[j] = IF j <= Len(abg) THEN abg[j]
                                      ELSE CpuWrites[j - Len(abg)]
    BY <1>4, <2>1, ConcatProperties
  <2>3. Len(abg) + Len(CpuWrites) = InputCnt + 16
    BY <1>0, <1>4, <2>1
  <2>4. QED
    BY <2>1, <2>2, <2>3
<1> HIDE DEF ab, abg
<1>10. Writes = abg \o CpuWrites
  BY <1>6 DEF ab, abg
<1>11. /\ \A j \in 1 .. InputCnt + 1 :
            ab[j] = IF j <= 1 THEN a[j] ELSE b[j - 1]
       /\ \A j \in 1 .. InputCnt + 11 :
            abg[j] = IF j <= InputCnt + 1 THEN ab[j]
                     ELSE Governor[j - (InputCnt + 1)]
  BY <1>7, <1>8 DEF ab, abg
<1>12. Writes[1] = <<"boost_sclk">>
  BY <1>0, <1>1, <1>9, <1>10, <1>11
<1>13. \A i \in 1 .. InputCnt : Writes[i + 1] = Input(DevIds[i])
  BY <1>0, <1>5, <1>9, <1>10, <1>11
<1>14. ASSUME NEW g \in 1 .. 10
       PROVE  Writes[InputCnt + 1 + g] = Governor[g]
  <2>1. PICK j : j = InputCnt + 1 + g
    OBVIOUS
  <2>2. /\ j \in 1 .. InputCnt + 11 /\ j \in 1 .. InputCnt + 16
        /\ ~(j <= InputCnt + 1) /\ j - (InputCnt + 1) = g
    BY <1>0, <2>1
  <2>3. abg[j] = Governor[g]
    BY <1>11, <2>2
  <2>4. (abg \o CpuWrites)[j] = abg[j]
    BY <1>9, <2>2
  <2>5. QED
    BY <1>10, <2>1, <2>3, <2>4
<1>15. \A c \in 1 .. 5 : Writes[InputCnt + 11 + c] = CpuWrites[c]
  BY <1>0, <1>9, <1>10
<1>16. QED
  BY <1>9, <1>10, <1>12, <1>13, <1>14, <1>15

(* The end of the list is autosmp, the three cores and the cluster, which  *)
(* occur nowhere else; everything before is a setting or skipped.          *)
LEMMA WritesEnd ==
  /\ Len(Writes) \in Nat /\ Len(Writes) >= 16
  /\ Writes[Len(Writes) - 4] = AutoSmp
  /\ \A k \in Cores, j \in 1 .. Len(Writes) :
        Writes[j] = Online(k) <=> j = Len(Writes) - 4 + k
  /\ \A j \in 1 .. Len(Writes) : Writes[j] = Cluster <=> j = Len(Writes)
<1> DEFINE n == InputCnt
<1>0. n \in Nat /\ Len(Writes) = n + 16
  BY InputsAssumption, WritesLayout
<1>1. /\ Writes[n + 12] = AutoSmp /\ Writes[n + 16] = Cluster
      /\ Writes[n + 13] = Online(1) /\ Writes[n + 14] = Online(2)
      /\ Writes[n + 15] = Online(3)
  <2>1. \A c \in 1 .. 5 : Writes[n + 11 + c] = CpuWrites[c]
    BY WritesLayout
  <2>2. /\ Writes[n + 11 + 1] = AutoSmp /\ Writes[n + 11 + 5] = Cluster
        /\ Writes[n + 11 + 2] = Online(1) /\ Writes[n + 11 + 3] = Online(2)
        /\ Writes[n + 11 + 4] = Online(3)
    BY <2>1 DEF CpuWrites
  <2>3. /\ n + 11 + 1 = n + 12 /\ n + 11 + 2 = n + 13 /\ n + 11 + 3 = n + 14
        /\ n + 11 + 4 = n + 15 /\ n + 11 + 5 = n + 16
    BY <1>0
  <2>4. QED
    BY <2>2, <2>3
<1>2. ASSUME NEW j \in 1 .. n + 12
      PROVE  Writes[j] # Cluster /\ \A k \in Cores : Writes[j] # Online(k)
  <2>1. CASE j = 1 \/ j = n + 12
    <3>1. Writes[j] \in Knobs
      BY <2>1, <1>1, WritesLayout DEF Knobs
    <3>2. QED
      BY <3>1, NodeNames
  <2>2. CASE j \in 2 .. n + 1
    <3>1. j - 1 \in 1 .. n /\ (j - 1) + 1 = j
      BY <1>0, <2>2
    <3>2. Writes[j] = Input(DevIds[j - 1])
      BY <3>1, WritesLayout
    <3>3. DevIds[j - 1] \in Int
      BY <3>1, InputsAssumption DEF DevIds
    <3>4. QED
      BY <3>2, <3>3, NodeNames
  <2>3. CASE j \in n + 2 .. n + 11
    <3>1. j - (n + 1) \in 1 .. 10 /\ n + 1 + (j - (n + 1)) = j
      BY <1>0, <2>3
    <3>2. Writes[j] = Governor[j - (n + 1)]
      BY <3>1, WritesLayout
    <3>3. Writes[j] \in Knobs
      BY <3>1, <3>2 DEF Knobs, Governor
    <3>4. QED
      BY <3>3, NodeNames
  <2>4. QED
    BY <1>0, <2>1, <2>2, <2>3
<1>3. ASSUME NEW k \in Cores, NEW j \in 1 .. n + 16
      PROVE  Writes[j] = Online(k) <=> j = n + 12 + k
  <2>1. CASE j \in 1 .. n + 12
    BY <1>0, <1>2, <2>1 DEF Cores
  <2>2. CASE j \in n + 13 .. n + 16
    <3>1. j = n + 13 \/ j = n + 14 \/ j = n + 15 \/ j = n + 16
      BY <1>0, <2>2
    <3>2. k = 1 \/ k = 2 \/ k = 3
      BY DEF Cores
    <3>3. \/ Writes[j] = Online(1) /\ j = n + 13
          \/ Writes[j] = Online(2) /\ j = n + 14
          \/ Writes[j] = Online(3) /\ j = n + 15
          \/ Writes[j] = Cluster /\ j = n + 16
      BY <1>1, <3>1
    <3>4. 1 \in Cores /\ 2 \in Cores /\ 3 \in Cores
      BY DEF Cores
    <3>5. QED
      BY <1>0, <3>2, <3>3, <3>4, NodeNames
  <2>3. QED
    BY <1>0, <2>1, <2>2
<1>4. ASSUME NEW j \in 1 .. n + 16
      PROVE  Writes[j] = Cluster <=> j = n + 16
  <2>1. CASE j \in 1 .. n + 12
    BY <1>0, <1>2, <2>1
  <2>2. CASE j \in n + 13 .. n + 16
    <3>1. j = n + 13 \/ j = n + 14 \/ j = n + 15 \/ j = n + 16
      BY <1>0, <2>2
    <3>2. 1 \in Cores /\ 2 \in Cores /\ 3 \in Cores
      BY DEF Cores
    <3>3. QED
      BY <1>0, <1>1, <3>1, <3>2, NodeNames
  <2>3. QED
    BY <1>0, <2>1, <2>2
<1>5. Len(Writes) - 4 = n + 12
  BY <1>0
<1>6. QED
  BY <1>0, <1>1, <1>3, <1>4, <1>5

(* No setting is left out.                                                 *)
LEMMA EveryKnobIsWritten ==
  ASSUME NEW x \in Knobs
  PROVE  \E j \in 1 .. Len(Writes) : Writes[j] = x
<1> DEFINE n == InputCnt
<1>0. n \in Nat /\ Len(Writes) = n + 16
  BY InputsAssumption, WritesLayout
<1>1. CASE x = <<"boost_sclk">>
  BY <1>0, <1>1, WritesLayout
<1>2. CASE x = AutoSmp
  BY <1>0, <1>2, WritesEnd
<1>3. CASE x \in {Governor[g] : g \in DOMAIN Governor}
  <2>1. PICK g \in 1 .. 10 : x = Governor[g]
    BY <1>3 DEF Governor
  <2>2. n + 1 + g \in 1 .. n + 16
    BY <1>0
  <2>3. QED
    BY <1>0, <2>1, <2>2, WritesLayout
<1>4. CASE x \in {Input(DevIds[i]) : i \in {j \in 1 .. n : DevIds[j] # -1}}
  <2>1. PICK i \in 1 .. n : x = Input(DevIds[i])
    BY <1>4
  <2>2. i + 1 \in 1 .. n + 16
    BY <1>0
  <2>3. QED
    BY <1>0, <2>1, <2>2, WritesLayout
<1>5. QED
  BY <1>1, <1>2, <1>3, <1>4 DEF Knobs

-----------------------------------------------------------------------------
LEMMA InitInv == Init => IInv
<1> SUFFICES ASSUME Init PROVE IInv
  OBVIOUS
<1>1. TypeOK
  BY FaultsAssumption DEF Init, TypeOK
<1>2. ~Faultless
  BY FaultsAssumption DEF Init, Faultless
<1>3. Progress /\ Written /\ Dark
  BY <1>2 DEF Init, Progress, Written, Dark
<1>4. QED
  BY <1>1, <1>3 DEF IInv

LEMMA SetInteractiveInv == ASSUME IInv, SetInteractive PROVE IInv'
<1>1. PICK on \in BOOLEAN :
         screen' = [at |-> "write", on |-> on, i |-> 1, faults |-> 0]
  BY DEF SetInteractive
<1>2. UNCHANGED <<knob, online, cluster>>
  BY DEF SetInteractive
<1>3. TypeOK'
  BY <1>1, <1>2 DEF IInv, TypeOK
<1>4. Progress'
  BY <1>1, WritesEnd DEF Progress
<1>5. Written'
  BY <1>1 DEF Written
<1>6. Dark'
  BY <1>1, WritesEnd DEF Dark, Cores
<1>7. QED
  BY <1>3, <1>4, <1>5, <1>6 DEF IInv

(* What ToNext does to the place of the call.                              *)
LEMMA ToNextPlace ==
  ASSUME TypeOK, Progress, screen.at = "write", NEW f \in Nat, ToNext(f)
  PROVE  /\ screen' \in [at : {"idle", "write", "disk", "hdd"}, on : BOOLEAN,
                         i : Nat, faults : Nat]
         /\ screen'.on = screen.on /\ screen'.faults = f
         /\ screen'.i = screen.i + 1
         /\ screen.i \in 1 .. Len(Writes)
         /\ Progress'
<1>1. screen' = [at |-> IF screen.i = Len(Writes) THEN "disk" ELSE "write",
                 on |-> screen.on, i |-> screen.i + 1, faults |-> f]
  BY DEF ToNext, TypeOK
<1>2. screen.i \in 1 .. Len(Writes)
  BY DEF Progress
<1>3. Progress'
  BY <1>1, <1>2, WritesEnd DEF Progress
<1>4. QED
  BY <1>1, <1>2, <1>3 DEF TypeOK

(* A write, or a skipped device, between the cores leaves them dark.       *)
LEMMA DarkKept ==
  ASSUME TypeOK, Dark, UNCHANGED <<online, cluster>>,
         screen'.on = screen.on, screen'.i = screen.i + 1,
         Faultless' = Faultless,
         screen.i # Len(Writes),
         \A k \in Cores : screen.i # Len(Writes) - 4 + k
  PROVE  Dark'
<1> SUFFICES ASSUME Faultless, ~screen.on
             PROVE  /\ \A k \in Cores : Len(Writes) - 4 + k < screen.i + 1
                                           => k \notin online
                    /\ Len(Writes) < screen.i + 1 => cluster = "LP"
  BY DEF Dark
<1>1. screen.i \in Nat /\ Len(Writes) \in Nat
  BY WritesEnd DEF TypeOK
<1>2. ASSUME NEW k \in Cores, Len(Writes) - 4 + k < screen.i + 1
      PROVE  k \notin online
  <2>1. Len(Writes) - 4 + k < screen.i
    BY <1>1, <1>2 DEF Cores
  <2>2. QED
    BY <2>1 DEF Dark
<1>3. Len(Writes) < screen.i + 1 => cluster = "LP"
  BY <1>1 DEF Dark
<1>4. QED
  BY <1>2, <1>3

LEMMA SysfsWriteInv == ASSUME IInv, SysfsWrite PROVE IInv'
<1> USE DEF IInv
<1>1. /\ screen' \in [at : {"idle", "write", "disk", "hdd"}, on : BOOLEAN,
                      i : Nat, faults : Nat]
      /\ screen'.on = screen.on /\ screen'.faults = screen.faults
      /\ screen'.i = screen.i + 1
      /\ screen.i \in 1 .. Len(Writes)
      /\ Progress'
  BY ToNextPlace DEF SysfsWrite, TypeOK
<1>2. Value' = Value /\ Value \in {"on", "off"} /\ Faultless' = Faultless
  BY <1>1 DEF Value, Faultless
<1> DEFINE n == Writes[screen.i]
<1>3. Effect(n)
  BY DEF SysfsWrite
<1>4. CASE /\ n \in Knobs
           /\ knob' = [knob EXCEPT ![n] = Value]
           /\ UNCHANGED <<online, cluster>>
  <2>1. TypeOK'
    BY <1>1, <1>2, <1>4 DEF TypeOK
  <2>2. Written'
    BY <1>1, <1>2, <1>4, WritesEnd DEF Written, TypeOK
  <2>3. \A k \in Cores : n # Online(k) /\ n # Cluster
    BY <1>4, NodeNames
  <2>4. \A k \in Cores : screen.i # Len(Writes) - 4 + k
    BY <1>1, <2>3, WritesEnd
  <2>5. screen.i # Len(Writes)
    BY <1>1, <2>3, WritesEnd DEF Cores
  <2>6. Dark'
    BY <1>1, <1>2, <1>4, <2>4, <2>5, DarkKept
  <2>7. QED
    BY <1>1, <2>1, <2>2, <2>6
<1>5. ASSUME NEW k \in Cores, n = Online(k),
             online' = IF screen.on THEN online \cup {k} ELSE online \ {k},
             cluster' = IF screen.on THEN "G" ELSE cluster,
             UNCHANGED knob
      PROVE  IInv'
  <2>1. TypeOK'
    BY <1>1, <1>5 DEF TypeOK
  <2>2. n \notin Knobs
    BY <1>5, NodeNames
  <2>3. Written'
    BY <1>1, <1>2, <1>5, <2>2, WritesEnd DEF Written, TypeOK
  <2>4. screen.i = Len(Writes) - 4 + k
    BY <1>1, <1>5, WritesEnd
  <2>5. Dark'
    <3> SUFFICES ASSUME Faultless, ~screen.on
                 PROVE  /\ \A j \in Cores :
                              Len(Writes) - 4 + j < screen.i + 1
                                => j \notin online'
                        /\ ~(Len(Writes) < screen.i + 1)
      BY <1>1, <1>2 DEF Dark
    <3>1. online' = online \ {k}
      BY <1>5
    <3>2. ASSUME NEW j \in Cores, Len(Writes) - 4 + j < screen.i + 1, j # k
          PROVE  j \notin online
      <4>1. Len(Writes) - 4 + j < screen.i
        BY <2>4, <3>2, WritesEnd DEF Cores
      <4>2. QED
        BY <4>1 DEF Dark
    <3>3. ~(Len(Writes) < screen.i + 1)
      BY <2>4, WritesEnd DEF Cores
    <3>4. QED
      BY <3>1, <3>2, <3>3
  <2>6. QED
    BY <1>1, <2>1, <2>3, <2>5
<1>6. CASE /\ n = Cluster
           /\ cluster' = IF screen.on \/ online # {} THEN cluster ELSE "LP"
           /\ UNCHANGED <<knob, online>>
  <2>1. TypeOK'
    BY <1>1, <1>6 DEF TypeOK
  <2>2. n \notin Knobs
    BY <1>6, NodeNames
  <2>3. Written'
    BY <1>1, <1>2, <1>6, <2>2, WritesEnd DEF Written, TypeOK
  <2>4. screen.i = Len(Writes)
    BY <1>1, <1>6, WritesEnd
  <2>5. Dark'
    <3> SUFFICES ASSUME Faultless, ~screen.on
                 PROVE  online = {} /\ cluster' = "LP"
      BY <1>1, <1>2, <1>6, <2>4, WritesEnd DEF Dark, Cores
    <3>1. \A k \in Cores : k \notin online
      BY <2>4, WritesEnd DEF Dark, Cores
    <3>2. online = {}
      BY <3>1 DEF TypeOK
    <3>3. QED
      BY <1>6, <3>2
  <2>6. QED
    BY <1>1, <2>1, <2>3, <2>5
<1>7. QED
  BY <1>3, <1>4, <1>5, <1>6 DEF Effect

LEMMA WriteFailsInv == ASSUME IInv, WriteFails PROVE IInv'
<1>1. screen.faults + 1 \in Nat /\ screen.faults + 1 # 0
  BY DEF IInv, TypeOK
<1>2. /\ screen' \in [at : {"idle", "write", "disk", "hdd"}, on : BOOLEAN,
                      i : Nat, faults : Nat]
      /\ screen'.faults = screen.faults + 1
      /\ Progress'
  BY <1>1, ToNextPlace DEF WriteFails, IInv
<1>3. TypeOK'
  BY <1>2 DEF IInv, TypeOK, WriteFails
<1>4. Written' /\ Dark'
  BY <1>1, <1>2 DEF Written, Dark, Faultless
<1>5. QED
  BY <1>2, <1>3, <1>4 DEF IInv

LEMMA SkipDeviceInv == ASSUME IInv, SkipDevice PROVE IInv'
<1> USE DEF IInv
<1>1. /\ screen' \in [at : {"idle", "write", "disk", "hdd"}, on : BOOLEAN,
                      i : Nat, faults : Nat]
      /\ screen'.on = screen.on /\ screen'.faults = screen.faults
      /\ screen'.i = screen.i + 1
      /\ screen.i \in 1 .. Len(Writes)
      /\ Progress'
  BY ToNextPlace DEF SkipDevice, TypeOK
<1>2. Value' = Value /\ Faultless' = Faultless
  BY <1>1 DEF Value, Faultless
<1>3. Writes[screen.i] = Input(-1) /\ UNCHANGED <<knob, online, cluster>>
  BY DEF SkipDevice
<1>4. TypeOK'
  BY <1>1, <1>3 DEF TypeOK
<1>5. Written'
  BY <1>1, <1>2, <1>3, WritesEnd, NodeNames DEF Written, TypeOK
<1>6. /\ screen.i # Len(Writes)
      /\ \A k \in Cores : screen.i # Len(Writes) - 4 + k
  BY <1>1, <1>3, WritesEnd, NodeNames
<1>7. Dark'
  BY <1>1, <1>2, <1>3, <1>6, DarkKept
<1>8. QED
  BY <1>1, <1>4, <1>5, <1>7

(* Steps that take the call from its last write to its return.             *)
LEMMA PastWritesInv ==
  ASSUME IInv, screen.at # "write",
         NEW a \in {"idle", "disk", "hdd"}, screen' = [screen EXCEPT !.at = a],
         UNCHANGED <<knob, online, cluster>>
  PROVE  IInv'
<1> USE DEF IInv
<1>1. /\ screen' \in [at : {"idle", "write", "disk", "hdd"}, on : BOOLEAN,
                      i : Nat, faults : Nat]
      /\ screen'.at # "write" /\ screen'.on = screen.on
      /\ screen'.i = screen.i /\ screen'.faults = screen.faults
  BY DEF TypeOK
<1>2. TypeOK'
  BY <1>1 DEF TypeOK
<1>3. Progress'
  BY <1>1 DEF Progress, Faultless
<1>4. Written' /\ Dark'
  BY <1>1 DEF Written, Dark, Faultless, Value
<1>5. QED
  BY <1>2, <1>3, <1>4

(* Once it matters which cores are offline, autosmp is off.                *)
LEMMA HotplugInv == ASSUME IInv, Hotplug PROVE IInv'
<1> USE DEF IInv
<1>1. TypeOK' /\ Progress' /\ Written'
  BY DEF Hotplug, TypeOK, Progress, Written, Value, Faultless
<1>2. Dark'
  <2> SUFFICES ASSUME Faultless, ~screen.on
               PROVE  ~(Len(Writes) - 3 < screen.i)
    BY WritesEnd DEF Hotplug, Dark, Faultless, TypeOK, Cores
  <2> SUFFICES ASSUME Len(Writes) - 3 < screen.i PROVE FALSE
    OBVIOUS
  <2>1. Len(Writes) - 4 \in 1 .. Len(Writes) /\ Len(Writes) - 4 < screen.i
    BY WritesEnd DEF TypeOK
  <2>2. knob[AutoSmp] = "off"
    BY <2>1, WritesEnd, NodeNames DEF Written, Value
  <2>3. QED
    BY <2>2 DEF Hotplug
<1>3. QED
  BY <1>1, <1>2

LEMMA IInvNext == ASSUME IInv, [Next]_vars PROVE IInv'
<1>1. CASE SetDisk
  BY <1>1, PastWritesInv DEF SetDisk
<1>2. CASE ReturnFromHdd
  BY <1>2, PastWritesInv DEF ReturnFromHdd
<1>3. CASE UNCHANGED interactiveVars
  BY <1>3 DEF interactiveVars, IInv, TypeOK, Progress, Written, Dark,
              Faultless, Value
<1>4. QED
  BY <1>1, <1>2, <1>3, SetInteractiveInv, SysfsWriteInv, WriteFailsInv,
     SkipDeviceInv, HotplugInv
     DEF Next, ProceedHdd, Foreign, vars

LEMMA InteractiveInvariant == Spec => []IInv
<1>1. Init => IInv
  BY InitInv
<1>2. IInv /\ [Next]_vars => IInv'
  BY IInvNext
<1>3. QED
  BY <1>1, <1>2, PTL DEF Spec

(* A call none of whose writes failed leaves every setting as its argument *)
(* says, whatever earlier calls have left undone, and skips an entry of    *)
(* input_devs without a device, not those after it (nvpowerhal.cpp:260-306)*)
THEOREM LastCallWins == Spec => []LastCallDecides
<1>1. ASSUME IInv PROVE LastCallDecides
  <2> SUFFICES ASSUME Complete, NEW x \in Knobs PROVE knob[x] = Value
    BY DEF LastCallDecides
  <2>1. Faultless /\ screen.i = Len(Writes) + 1
    BY <1>1 DEF Complete, Faultless, IInv, Progress
  <2>2. PICK j \in 1 .. Len(Writes) : Writes[j] = x
    BY EveryKnobIsWritten
  <2>3. QED
    BY <1>1, <2>1, <2>2, WritesEnd DEF IInv, Written
<1>2. QED
  BY <1>1, InteractiveInvariant, PTL

(* After such a call for screen off the secondary cores are offline, and   *)
(* stay so, and the LP cluster is active (nvpowerhal.cpp:306-310).         *)
THEOREM DarkStaysQuiet == Spec => []DarkIsQuiet
<1>1. ASSUME IInv PROVE DarkIsQuiet
  <2> SUFFICES ASSUME Complete, ~screen.on
               PROVE  online = {} /\ cluster = "LP"
    BY DEF DarkIsQuiet
  <2>1. Faultless /\ screen.i = Len(Writes) + 1
    BY <1>1 DEF Complete, Faultless, IInv, Progress
  <2>2. cluster = "LP" /\ \A k \in Cores : k \notin online
    BY <1>1, <2>1, WritesEnd DEF IInv, Dark, Cores
  <2>3. QED
    BY <1>1, <2>2 DEF IInv, TypeOK
<1>2. QED
  BY <1>1, InteractiveInvariant, PTL
=============================================================================

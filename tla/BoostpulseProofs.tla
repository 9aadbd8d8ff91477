-------------------------- MODULE BoostpulseProofs --------------------------
(***************************************************************************)
(* Proofs about Boostpulse for any number of threads, governors,           *)
(* descriptors and switches.                                               *)
(***************************************************************************)
EXTENDS Boostpulse, TLAPS

(* boostpulse_fd is -1 while its holder is about to open the node, and its *)
(* number is closed when it is about to be reset.                          *)
Phases ==
    \A c \in Callers :
        /\ caller[c].at \in {"read", "open"} => boostpulse_fd = -1
        /\ caller[c].at = "reset" /\ boostpulse_fd # -1 => ~IsPulse(boostpulse_fd)

IInv == TypeOK /\ FieldIsDescriptor /\ Phases

(* The states of callers, and the files, that the steps use.               *)
LEMMA States ==
  /\ \A to \in Places : At(to) \in CallerStates /\ At(to).at = to
  /\ \A s \in CallerStates : s.at \in Places \cup {"tune", "write"}
  /\ \A n \in Nat \ {0} : /\ AtTunable(n) \in CallerStates
                         /\ AtTunable(n).at = "tune" /\ AtTunable(n).next = n
  /\ Foreign \notin Pulses /\ NoFile \notin Pulses
<1>1. \A n : Pulse(n) # Foreign
  <2> SUFFICES ASSUME NEW n PROVE Pulse(n) # Foreign
    OBVIOUS
  <2>1. Pulse(n).kind = "boostpulse" /\ Foreign.kind = "foreign"
    BY DEF Pulse, Foreign
  <2>2. QED
    BY <2>1
<1>2. Foreign \notin Pulses /\ NoFile \notin Pulses
  BY <1>1, FileAssumption DEF Pulses
<1>3. \A s \in CallerStates : s.at \in Places \cup {"tune", "write"}
  BY DEF CallerStates
<1>4. \A n \in Nat \ {0} : /\ AtTunable(n) \in CallerStates
                          /\ AtTunable(n).at = "tune" /\ AtTunable(n).next = n
  BY DEF AtTunable, CallerStates
<1>5. \A to \in Places : At(to) \in CallerStates /\ At(to).at = to
  BY DEF At, CallerStates
<1>6. QED
  BY <1>2, <1>3, <1>4, <1>5

Values == {"default", "set", "failed"}

(* Arithmetic of descriptor and switch numbers.                            *)
LEMMA Numbers ==
  /\ 0 \in 0 .. MaxSwitches
  /\ \A f \in Fd \cup {-1} : f < 0 <=> f = -1
  /\ -1 \notin Fd
<1>1. MaxSwitches \in Nat /\ MaxFd \in Nat
  BY BoundsAssumption
<1>2. QED
  BY <1>1 DEF Fd

LEMMA InitInv == Init => IInv
<1> SUFFICES ASSUME Init PROVE IInv
  OBVIOUS
<1> PICK g \in Governors :
      /\ scaling = [governor |-> g, number |-> 0]
      /\ \/ /\ governor = g
            /\ tunable \in [1 .. Tunables[g] -> {"set", "failed"}]
         \/ governor = "" /\ tunable = Defaults(g)
  BY DEF Init
<1>1. scaling \in [governor : Governors, number : 0 .. MaxSwitches]
  <2>1. 0 \in 0 .. MaxSwitches
    BY Numbers
  <2>2. QED
    BY <2>1
<1>2. /\ tunable \in [1 .. Tunables[scaling.governor] -> Values]
      /\ governor \in Governors \cup {""}
  BY DEF Defaults, Values
<1>3. file \in [Fd -> Files] /\ caller \in [Callers -> CallerStates]
  BY DEF Init, Files, Idle, CallerStates, Places
<1>4. \A c \in Callers : caller[c].at \in UnderLock <=> lock = c
  BY ThreadAssumption DEF Init, Idle, UnderLock
<1>5. TypeOK
  BY <1>1, <1>2, <1>3, <1>4 DEF Init, TypeOK, Values
<1>6. \A f \in Fd : ~IsPulse(f)
  BY States DEF Init, IsPulse
<1>7. QED
  BY <1>5, <1>6 DEF Init, IInv, FieldIsDescriptor, Phases, Idle

(* What a Goto does, when it moves from one place to another.              *)
LEMMA GotoMoves ==
  ASSUME TypeOK, NEW c \in Callers, NEW from, NEW to \in Places,
         Goto(c, from, to)
  PROVE  /\ caller[c].at = from
         /\ caller' \in [Callers -> CallerStates]
         /\ caller'[c].at = to
         /\ \A d \in Callers : d # c => caller'[d] = caller[d]
<1>1. caller' = [caller EXCEPT ![c] = At(to)] /\ caller[c].at = from
  BY DEF Goto
<1>2. caller \in [Callers -> CallerStates]
  BY DEF TypeOK
<1>3. QED
  BY <1>1, <1>2, States

(* The steps that leave descriptors alone.                                 *)
LEMMA FilesKept ==
  ASSUME IInv, TypeOK', UNCHANGED <<file, boostpulse_fd>>,
         \A c \in Callers :
            /\ caller'[c].at \in {"read", "open"} =>
                  caller[c].at \in {"read", "open"} \/ boostpulse_fd = -1
            /\ caller'[c].at = "reset" <=> caller[c].at = "reset"
  PROVE  IInv'
<1>1. \A f : IsPulse(f)' <=> IsPulse(f)
  BY DEF IsPulse
<1>2. FieldIsDescriptor'
  BY <1>1 DEF IInv, FieldIsDescriptor
<1>3. Phases'
  BY <1>1 DEF IInv, Phases
<1>4. QED
  BY <1>2, <1>3 DEF IInv

(* The lock excludes everybody else from the places under it.              *)
LEMMA OneHolder ==
  ASSUME TypeOK, NEW c \in Callers, caller[c].at \in UnderLock,
         NEW d \in Callers, d # c
  PROVE  caller[d].at \notin UnderLock
BY DEF TypeOK

LEMMA LockSteps ==
  ASSUME IInv, NEW c \in Callers,
         Hint(c) \/ LockToClose(c) \/ Unlock(c)
  PROVE  IInv'
<1> USE DEF IInv
<1>1. CASE Hint(c)
  <2> DEFINE to == IF boostpulse_fd < 0 THEN "read" ELSE "unlock"
  <2>1. to \in Places /\ Goto(c, "idle", to)
    BY <1>1 DEF Hint, Places, UnderLock
  <2>2. to \in UnderLock /\ (to = "read" => boostpulse_fd = -1)
    BY Numbers DEF UnderLock, TypeOK
  <2>3. to # "open" /\ to # "reset"
    OBVIOUS
  <2> HIDE DEF to
  <2>4. /\ caller' \in [Callers -> CallerStates]
        /\ caller'[c].at = to /\ caller[c].at = "idle"
        /\ \A d \in Callers : d # c => caller'[d] = caller[d]
    BY <2>1, GotoMoves
  <2>5. \A d \in Callers : caller'[d].at \in UnderLock <=> lock' = d
    BY <1>1, <2>2, <2>4, ThreadAssumption DEF Hint, TypeOK
  <2>6. TypeOK'
    BY <1>1, <2>4, <2>5 DEF Hint, TypeOK
  <2>7. QED
    BY <1>1, <2>2, <2>3, <2>4, <2>6, FilesKept DEF Hint
<1>2. CASE LockToClose(c)
  <2>1. /\ caller' \in [Callers -> CallerStates]
        /\ caller'[c].at = "close" /\ caller[c].at = "fail"
        /\ \A d \in Callers : d # c => caller'[d] = caller[d]
    BY <1>2, GotoMoves DEF LockToClose, Places, UnderLock
  <2>2. \A d \in Callers : caller'[d].at \in UnderLock <=> lock' = d
    BY <1>2, <2>1, ThreadAssumption DEF LockToClose, TypeOK, UnderLock
  <2>3. TypeOK'
    BY <1>2, <2>1, <2>2 DEF LockToClose, TypeOK
  <2>4. QED
    BY <1>2, <2>1, <2>3, FilesKept DEF LockToClose
<1>3. CASE Unlock(c)
  <2>1. /\ caller' \in [Callers -> CallerStates]
        /\ caller'[c].at = "return" /\ caller[c].at = "unlock"
        /\ \A d \in Callers : d # c => caller'[d] = caller[d]
    BY <1>3, GotoMoves DEF Unlock, Places
  <2>2. \A d \in Callers : caller'[d].at \in UnderLock <=> lock' = d
    BY <1>3, <2>1, OneHolder, ThreadAssumption DEF Unlock, UnderLock
  <2>3. TypeOK'
    BY <1>3, <2>1, <2>2 DEF Unlock, TypeOK
  <2>4. QED
    BY <1>3, <2>1, <2>3, FilesKept DEF Unlock
<1>4. QED
  BY <1>1, <1>2, <1>3

(* Steps that neither lock nor touch a descriptor.                         *)
LEMMA PlainSteps ==
  ASSUME IInv, NEW c \in Callers,
         GetScalingGovernor(c) \/ Return(c) \/ WritePulse(c)
  PROVE  IInv'
<1> USE DEF IInv
<1>1. PICK from \in Places \cup {"write"}, to \in Places :
        /\ Goto(c, from, to)
        /\ from \in UnderLock <=> to \in UnderLock
        /\ to # "reset" /\ from # "reset"
        /\ to \in {"read", "open"} => from \in {"read", "open"}
  <2>1. CASE GetScalingGovernor(c)
    <3>1. Goto(c, "read", "open") \/ Goto(c, "read", "unlock")
      BY <2>1 DEF GetScalingGovernor
    <3>2. QED
      BY <3>1 DEF Places, UnderLock
  <2>2. CASE Return(c)
    <3>1. Goto(c, "return", "idle") \/ Goto(c, "return", "load")
      BY <2>2 DEF Return
    <3>2. QED
      BY <3>1 DEF Places, UnderLock
  <2>3. CASE WritePulse(c)
    <3>1. Goto(c, "write", "fail") \/ Goto(c, "write", "idle")
      BY <2>3 DEF WritePulse
    <3>2. QED
      BY <3>1 DEF Places, UnderLock
  <2>4. QED
    BY <2>1, <2>2, <2>3
<1>2. /\ caller' \in [Callers -> CallerStates]
      /\ caller'[c].at = to /\ caller[c].at = from
      /\ \A d \in Callers : d # c => caller'[d] = caller[d]
  BY <1>1, GotoMoves
<1>3. UNCHANGED <<file, boostpulse_fd, lock, scaling, tunable, migrate>>
  BY DEF GetScalingGovernor, Return, WritePulse
<1>4. \A d \in Callers : caller'[d].at \in UnderLock <=> lock' = d
  BY <1>1, <1>2, <1>3 DEF TypeOK
<1>5. governor' \in Governors \cup {""}
  <2>1. scaling.governor \in Governors
    BY DEF TypeOK
  <2>2. QED
    BY <2>1 DEF GetScalingGovernor, Return, WritePulse, TypeOK
<1>6. TypeOK'
  BY <1>2, <1>3, <1>4, <1>5 DEF TypeOK
<1>7. QED
  BY <1>1, <1>2, <1>3, <1>6, FilesKept

(* What configure_governor does to the thread that calls it, and that the  *)
(* values of the tunables stay values.                                     *)
LEMMA ConfigureMoves ==
  ASSUME TypeOK, NEW c \in Callers, Configure(c) \/ Tune(c)
  PROVE  /\ caller[c].at \in {"configure", "tune"}
         /\ caller' \in [Callers -> CallerStates]
         /\ caller'[c].at \in {"tune", "unlock"}
         /\ \A d \in Callers : d # c => caller'[d] = caller[d]
<1>0. caller \in [Callers -> CallerStates]
  BY DEF TypeOK
<1>1. CASE Configure(c)
  <2>1. AtTunable(1) \in CallerStates /\ AtTunable(1).at = "tune"
    BY States
  <2>2. QED
    BY <1>0, <1>1, <2>1 DEF Configure
<1>2. CASE Tune(c)
  <2>1. PICK s \in CallerStates : /\ s.at \in {"tune", "unlock"}
                                 /\ caller' = [caller EXCEPT ![c] = s]
    <3> DEFINE n == caller[c].next
    <3>1. n \in Nat \ {0}
      BY <1>0, <1>2 DEF Tune, CallerStates, Places, UnderLock
    <3>2. n + 1 \in Nat \ {0}
      BY <3>1
    <3>3. AtTunable(n + 1) \in CallerStates /\ AtTunable(n + 1).at = "tune"
      BY <3>2, States
    <3>4. At("unlock") \in CallerStates /\ At("unlock").at = "unlock"
      BY States DEF Places, UnderLock
    <3>5. \/ caller' = [caller EXCEPT ![c] = AtTunable(n + 1)]
          \/ caller' = [caller EXCEPT ![c] = At("unlock")]
      BY <1>2 DEF Tune
    <3>6. QED
      BY <3>3, <3>4, <3>5
  <2>2. QED
    BY <1>0, <1>2, <2>1 DEF Tune
<1>3. QED
  BY <1>1, <1>2

LEMMA WriteKeepsValues ==
  ASSUME TypeOK, NEW n, SysfsWrite(n)
  PROVE  tunable' \in [1 .. Tunables[scaling.governor] -> Values]
<1>1. tunable \in [1 .. Tunables[scaling.governor] -> Values]
  BY DEF TypeOK, Values
<1>2. CASE n \in 1 .. Tunables[scaling.governor]
  <2>1. tunable[n] \in Values
    BY <1>1, <1>2
  <2>2. AfterFailure(tunable[n]) \in Values
    BY <2>1 DEF AfterFailure, Values
  <2>3. QED
    BY <1>1, <2>2 DEF SysfsWrite, Values
<1>3. CASE n \notin 1 .. Tunables[scaling.governor]
  BY <1>1, <1>3 DEF SysfsWrite
<1>4. QED
  BY <1>2, <1>3

LEMMA ConfigureSteps ==
  ASSUME IInv, NEW c \in Callers, Configure(c) \/ Tune(c)
  PROVE  IInv'
<1> USE DEF IInv
<1>1. /\ caller[c].at \in {"configure", "tune"}
      /\ caller' \in [Callers -> CallerStates]
      /\ caller'[c].at \in {"tune", "unlock"}
      /\ \A d \in Callers : d # c => caller'[d] = caller[d]
  BY ConfigureMoves
<1>2. UNCHANGED <<scaling, file, governor, boostpulse_fd, lock>>
  BY DEF Configure, Tune
<1>3. \A d \in Callers : caller'[d].at \in UnderLock <=> lock' = d
  BY <1>1, <1>2 DEF TypeOK, UnderLock
<1>4. tunable' \in [1 .. Tunables[scaling'.governor] -> Values]
  <2>1. UNCHANGED tunable \/ \E n : SysfsWrite(n)
    BY DEF Configure, Tune
  <2>2. QED
    BY <1>2, <2>1, WriteKeepsValues DEF TypeOK, Values
<1>5. migrate' \in BOOLEAN
  BY DEF Configure, Tune, TypeOK
<1>6. TypeOK'
  BY <1>1, <1>2, <1>3, <1>4, <1>5 DEF TypeOK, Values
<1>7. QED
  BY <1>1, <1>2, <1>6, FilesKept

LEMMA LoadStep == ASSUME IInv, NEW c \in Callers, LoadFd(c) PROVE IInv'
<1> USE DEF IInv
<1> DEFINE s == [at |-> "write", fd |-> boostpulse_fd]
<1>1. s \in CallerStates /\ s.at = "write"
  BY DEF CallerStates, TypeOK
<1>2. caller[c].at = "load" /\ caller' = [caller EXCEPT ![c] = s]
  BY DEF LoadFd
<1> HIDE DEF s
<1>3. /\ caller' \in [Callers -> CallerStates]
      /\ caller'[c].at = "write"
      /\ \A d \in Callers : d # c => caller'[d] = caller[d]
  BY <1>1, <1>2 DEF TypeOK
<1>4. \A d \in Callers : caller'[d].at \in UnderLock <=> lock' = d
  BY <1>2, <1>3 DEF LoadFd, TypeOK, UnderLock
<1>5. TypeOK'
  BY <1>3, <1>4 DEF LoadFd, TypeOK
<1>6. QED
  BY <1>2, <1>3, <1>5, FilesKept DEF LoadFd

(* A node is opened only while boostpulse_fd is -1, when no other is open. *)
LEMMA OpenStep == ASSUME IInv, NEW c \in Callers, OpenPulse(c) PROVE IInv'
<1> USE DEF IInv
<1>1. CASE Goto(c, "open", "unlock") /\ UNCHANGED <<file, boostpulse_fd>>
  <2>1. /\ caller' \in [Callers -> CallerStates]
        /\ caller'[c].at = "unlock" /\ caller[c].at = "open"
        /\ \A d \in Callers : d # c => caller'[d] = caller[d]
    BY <1>1, GotoMoves DEF Places, UnderLock
  <2>2. \A d \in Callers : caller'[d].at \in UnderLock <=> lock' = d
    BY <2>1 DEF OpenPulse, TypeOK, UnderLock
  <2>3. TypeOK'
    BY <1>1, <2>1, <2>2 DEF OpenPulse, TypeOK
  <2>4. QED
    BY <1>1, <2>1, <2>3, FilesKept
<1>2. CASE ~(Goto(c, "open", "unlock") /\ UNCHANGED <<file, boostpulse_fd>>)
  <2>1. PICK f \in Fd :
          /\ LowestUnused(f)
          /\ file' = [file EXCEPT ![f] = Pulse(scaling.number)]
          /\ boostpulse_fd' = f
    BY <1>2 DEF OpenPulse
  <2>2. Goto(c, "open", "configure")
    BY <1>2 DEF OpenPulse
  <2>3. /\ caller' \in [Callers -> CallerStates]
        /\ caller'[c].at = "configure" /\ caller[c].at = "open"
        /\ \A d \in Callers : d # c => caller'[d] = caller[d]
    BY <2>2, GotoMoves DEF Places, UnderLock
  <2>4. \A d \in Callers : caller'[d].at \in UnderLock <=> lock' = d
    BY <2>3 DEF OpenPulse, TypeOK, UnderLock
  <2>5. Pulse(scaling.number) \in Pulses
    BY DEF TypeOK, Pulses
  <2>6. file' \in [Fd -> Files]
    BY <2>1, <2>5 DEF TypeOK, Files
  <2>7. TypeOK'
    BY <2>1, <2>3, <2>4, <2>6 DEF OpenPulse, TypeOK
  <2>8. boostpulse_fd = -1
    BY <2>3 DEF Phases
  <2>9. \A g \in Fd : ~IsPulse(g)
    BY <2>8, Numbers DEF FieldIsDescriptor
  <2>10. \A g \in Fd : IsPulse(g)' <=> g = f
    BY <2>1, <2>5, <2>9 DEF IsPulse, TypeOK
  <2>11. FieldIsDescriptor'
    BY <2>1, <2>10 DEF FieldIsDescriptor
  <2>12. \A d \in Callers : caller'[d].at \notin {"read", "open", "reset"}
    BY <2>3, OneHolder DEF UnderLock
  <2>13. QED
    BY <2>7, <2>11, <2>12 DEF Phases
<1>3. QED
  BY <1>1, <1>2

(* The holder of the lock closes its own node, or nothing.                 *)
LEMMA CloseStep == ASSUME IInv, NEW c \in Callers, ClosePulse(c) PROVE IInv'
<1> USE DEF IInv
<1>1. /\ caller' \in [Callers -> CallerStates]
      /\ caller'[c].at = "reset" /\ caller[c].at = "close"
      /\ \A d \in Callers : d # c => caller'[d] = caller[d]
  BY GotoMoves DEF ClosePulse, Places, UnderLock
<1>2. \A d \in Callers : caller'[d].at \in UnderLock <=> lock' = d
  BY <1>1 DEF ClosePulse, TypeOK, UnderLock
<1>3. file' \in [Fd -> Files]
  BY DEF ClosePulse, TypeOK, Files
<1>4. TypeOK'
  BY <1>1, <1>2, <1>3 DEF ClosePulse, TypeOK
<1>5. \A g \in Fd : ~IsPulse(g)'
  BY States DEF ClosePulse, FieldIsDescriptor, IsPulse
<1>6. FieldIsDescriptor'
  BY <1>1, <1>5 DEF FieldIsDescriptor
<1>7. \A d \in Callers : caller'[d].at \notin {"read", "open"}
  BY <1>1, OneHolder DEF UnderLock
<1>8. boostpulse_fd' \in Fd \cup {-1}
  BY <1>4 DEF TypeOK
<1>9. Phases'
  BY <1>5, <1>7, <1>8 DEF Phases
<1>10. QED
  BY <1>4, <1>6, <1>9

LEMMA ResetStep == ASSUME IInv, NEW c \in Callers, ResetFd(c) PROVE IInv'
<1> USE DEF IInv
<1>1. /\ caller' \in [Callers -> CallerStates]
      /\ caller'[c].at = "idle" /\ caller[c].at = "reset"
      /\ \A d \in Callers : d # c => caller'[d] = caller[d]
  BY GotoMoves DEF ResetFd, Places
<1>2. \A d \in Callers : d # c => caller[d].at \notin UnderLock
  BY <1>1, OneHolder DEF UnderLock
<1>3. \A d \in Callers : caller'[d].at \in UnderLock <=> lock' = d
  BY <1>1, <1>2, ThreadAssumption DEF ResetFd, UnderLock
<1>4. TypeOK'
  BY <1>1, <1>3 DEF ResetFd, TypeOK
<1>5. \A g : IsPulse(g)' <=> IsPulse(g)
  BY DEF ResetFd, IsPulse
<1>6. \A g \in Fd : ~IsPulse(g)
  BY <1>1, Numbers DEF FieldIsDescriptor, Phases
<1>7. FieldIsDescriptor'
  BY <1>5, <1>6 DEF ResetFd, FieldIsDescriptor
<1>8. Phases'
  BY <1>1, <1>2 DEF ResetFd, Phases, UnderLock
<1>9. QED
  BY <1>4, <1>7, <1>8

(* A switch of the governor changes no descriptor, and other threads open  *)
(* numbers that are unused and close files of their own.                   *)
LEMMA EnvironmentSteps ==
  ASSUME IInv, SetInteractive \/ SwitchGovernor \/ ForeignOpen \/ ForeignClose
  PROVE  IInv'
<1> USE DEF IInv
<1>1. UNCHANGED <<governor, boostpulse_fd, lock, caller>>
  BY DEF SetInteractive, SwitchGovernor, ForeignOpen, ForeignClose
<1>2. /\ scaling' \in [governor : Governors, number : 0 .. MaxSwitches]
      /\ tunable' \in [1 .. Tunables[scaling'.governor] -> Values]
  <2>1. CASE SwitchGovernor
    <3>1. PICK g \in Governors :
            /\ scaling' = [governor |-> g, number |-> scaling.number + 1]
            /\ tunable' = Defaults(g)
      BY <2>1 DEF SwitchGovernor
    <3>2. scaling.number \in 0 .. MaxSwitches /\ scaling.number < MaxSwitches
      BY <2>1 DEF SwitchGovernor, TypeOK
    <3>3. scaling.number + 1 \in 0 .. MaxSwitches
      BY <3>2, BoundsAssumption
    <3>4. QED
      BY <3>1, <3>3 DEF Defaults, Values
  <2>2. CASE SetInteractive \/ ForeignOpen \/ ForeignClose
    BY <2>2 DEF SetInteractive, ForeignOpen, ForeignClose, TypeOK, Values
  <2>3. QED
    BY <2>1, <2>2
<1>3. migrate' \in BOOLEAN
  BY DEF SetInteractive, SwitchGovernor, ForeignOpen, ForeignClose, TypeOK
<1>4. file' \in [Fd -> Files] /\ \A f \in Fd : IsPulse(f)' <=> IsPulse(f)
  <2>1. CASE ForeignOpen
    <3>1. PICK f \in Fd : file[f] = NoFile /\ file' = [file EXCEPT ![f] = Foreign]
      BY <2>1 DEF ForeignOpen, LowestUnused
    <3>2. QED
      BY <3>1, States DEF TypeOK, IsPulse, Files
  <2>2. CASE ForeignClose
    <3>1. PICK f \in Fd : file[f] = Foreign /\ file' = [file EXCEPT ![f] = NoFile]
      BY <2>2 DEF ForeignClose
    <3>2. QED
      BY <3>1, States DEF TypeOK, IsPulse, Files
  <2>3. CASE SetInteractive \/ SwitchGovernor
    BY <2>3 DEF SetInteractive, SwitchGovernor, TypeOK, IsPulse
  <2>4. QED
    BY <2>1, <2>2, <2>3
<1>5. TypeOK'
  BY <1>1, <1>2, <1>3, <1>4 DEF TypeOK, Values
<1>6. boostpulse_fd \in Fd \/ boostpulse_fd = -1
  BY DEF TypeOK
<1>7. boostpulse_fd' # -1 => (IsPulse(boostpulse_fd)' <=> IsPulse(boostpulse_fd))
  BY <1>1, <1>4, <1>6 DEF IsPulse
<1>8. FieldIsDescriptor'
  BY <1>1, <1>4, <1>7 DEF FieldIsDescriptor
<1>9. Phases'
  BY <1>1, <1>7 DEF Phases
<1>10. QED
  BY <1>5, <1>8, <1>9

LEMMA NextInv == IInv /\ [Next]_vars => IInv'
<1> SUFFICES ASSUME IInv, [Next]_vars PROVE IInv'
  OBVIOUS
<1>1. ASSUME NEW c \in Callers, Hint(c) \/ Continue(c) PROVE IInv'
  BY <1>1, LockSteps, PlainSteps, ConfigureSteps, LoadStep, OpenStep,
     CloseStep, ResetStep
     DEF Continue, Opening, Writing, Closing
<1>2. CASE UNCHANGED vars
  BY <1>2 DEF vars, IInv, TypeOK, FieldIsDescriptor, Phases, IsPulse
<1>3. QED
  BY <1>1, <1>2, EnvironmentSteps DEF Next

LEMMA Invariant == Spec => []IInv
BY InitInv, NextInv, PTL DEF Spec

(* Every variable keeps its type and the lock is with the one thread that  *)
(* is between pthread_mutex_lock and pthread_mutex_unlock.                 *)
THEOREM TypeCorrect == Spec => []TypeOK
<1>1. IInv => TypeOK
  BY DEF IInv
<1>2. QED
  BY <1>1, Invariant, PTL

(* boostpulse_fd holds the one descriptor of a boostpulse node there is,   *)
(* although it is read and written to outside the lock.                    *)
THEOREM OneDescriptor == Spec => []FieldIsDescriptor
<1>1. IInv => FieldIsDescriptor
  BY DEF IInv
<1>2. QED
  BY <1>1, Invariant, PTL

(* A step that closes a foreign file is not one of this HAL: close() is    *)
(* called with the lock, by a thread that finds its own node or -1 in      *)
(* boostpulse_fd.                                                          *)
THEOREM ForeignFilesStay == Spec => ForeignStaysOpen
<1> DEFINE Step == \A f \in Fd : file[f] = Foreign /\ file'[f] # Foreign =>
                      UNCHANGED caller
<1>1. ASSUME IInv, NEW c \in Callers, Hint(c) \/ Continue(c) PROVE Step
  <2>1. CASE ClosePulse(c)
    <3>1. caller[c].at = "close" /\ \A d \in Callers : caller[d].at # "reset"
      BY <1>1, <2>1, OneHolder DEF ClosePulse, Goto, UnderLock, IInv
    <3>2. \A f \in Fd : f = boostpulse_fd => file[f] # Foreign
      BY <1>1, <3>1, States, Numbers DEF IInv, FieldIsDescriptor, IsPulse
    <3>3. \A f \in Fd : f # boostpulse_fd => file'[f] = file[f]
      BY <2>1 DEF ClosePulse
    <3>4. QED
      BY <3>2, <3>3
  <2>2. CASE OpenPulse(c)
    <3>1. \/ UNCHANGED file
          \/ \E g \in Fd : file[g] = NoFile
                           /\ file' = [file EXCEPT ![g] = Pulse(scaling.number)]
      BY <2>2 DEF OpenPulse, LowestUnused
    <3>2. QED
      BY <1>1, <3>1, FileAssumption DEF IInv, TypeOK
  <2>3. CASE ~ClosePulse(c) /\ ~OpenPulse(c)
    <3>1. UNCHANGED file
      BY <1>1, <2>3 DEF Continue, Opening, Writing, Closing, Hint,
           GetScalingGovernor, Configure, Tune, Unlock, Return, LoadFd, WritePulse,
           LockToClose, ResetFd
    <3>2. QED
      BY <3>1
  <2>4. QED
    BY <2>1, <2>2, <2>3
<1>2. ASSUME SetInteractive \/ SwitchGovernor \/ ForeignOpen \/ ForeignClose
      PROVE  Step
  BY <1>2 DEF SetInteractive, SwitchGovernor, ForeignOpen, ForeignClose
<1>3. IInv /\ [Next]_vars => [Step]_vars
  BY <1>1, <1>2 DEF Next
<1>4. QED
  BY <1>3, Invariant, PTL DEF Spec, ForeignStaysOpen

-----------------------------------------------------------------------------
(* The tunables of the governor whose node is open. *)

IsCurrent ==
    boostpulse_fd # -1 /\ file[boostpulse_fd] = Pulse(scaling.number)

(* No node is newer than the governor; while configure_governor runs the   *)
(* name that was read last is the governor's, as long as the node is       *)
(* current, and the tunables it has been through are done; afterwards all  *)
(* of them are.                                                            *)
IsDone(n) == tunable[n] # "default"
Indices == 1 .. Tunables[scaling.governor]
Configuring(c) == caller[c].at \in {"configure", "tune"}

Tuning ==
    /\ \A f \in Fd, n \in 0 .. MaxSwitches :
          file[f] = Pulse(n) => n <= scaling.number
    /\ \A c \in Callers :
          /\ IsCurrent /\ Configuring(c) => governor = scaling.governor
          /\ IsCurrent /\ caller[c].at = "tune" =>
                \A n \in Indices : n < caller[c].next => IsDone(n)
    /\ IsCurrent /\ (\A c \in Callers : ~Configuring(c)) =>
          \A n \in Indices : IsDone(n)

LEMMA PulseNumbers ==
  /\ \A m, n : Pulse(m) = Pulse(n) => m = n
  /\ \A n \in 0 .. MaxSwitches : Pulse(n) # NoFile /\ Pulse(n) # Foreign
<1>1. ASSUME NEW m, NEW n, Pulse(m) = Pulse(n) PROVE m = n
  <2>1. Pulse(m).number = m /\ Pulse(n).number = n
    BY DEF Pulse
  <2>2. QED
    BY <1>1, <2>1
<1>2. ASSUME NEW n \in 0 .. MaxSwitches
      PROVE  Pulse(n) # NoFile /\ Pulse(n) # Foreign
  BY States DEF Pulses
<1>3. QED
  BY <1>1, <1>2

LEMMA InitTuning == Init => Tuning
BY PulseNumbers DEF Init, Tuning, IsCurrent

(* Steps that touch neither the node, nor its governor and tunables, nor   *)
(* the places of threads in configure_governor.                            *)
LEMMA TuningKept ==
  ASSUME Tuning, UNCHANGED <<scaling, tunable, file, governor, boostpulse_fd>>,
         \A c \in Callers : \/ ~Configuring(c) /\ ~Configuring(c)'
                           \/ caller'[c] = caller[c]
  PROVE  Tuning'
<1>1. \A n : IsDone(n)' <=> IsDone(n)
  BY DEF IsDone
<1>2. IsCurrent' <=> IsCurrent
  BY DEF IsCurrent
<1>3. \A c \in Callers :
         /\ Configuring(c)' <=> Configuring(c)
         /\ caller'[c].at = "tune" => caller'[c] = caller[c]
  BY DEF Configuring
<1>4. QED
  BY <1>1, <1>2, <1>3 DEF Tuning, Indices

LEMMA OtherCallersTuning ==
  ASSUME IInv, Tuning, NEW c \in Callers,
         \/ Hint(c) \/ Unlock(c) \/ Return(c) \/ LoadFd(c) \/ WritePulse(c)
         \/ LockToClose(c)
  PROVE  Tuning'
<1>1. UNCHANGED <<scaling, tunable, file, governor, boostpulse_fd>>
  BY DEF Hint, Unlock, Return, LoadFd, WritePulse, LockToClose
<1>2. /\ ~Configuring(c) /\ ~Configuring(c)'
      /\ \A d \in Callers : d # c => caller'[d] = caller[d]
  <2>1. CASE LoadFd(c)
    BY <2>1 DEF LoadFd, IInv, TypeOK, Configuring
  <2>2. CASE ~LoadFd(c)
    <3>1. PICK from \in Places \cup {"write"}, to \in Places :
             /\ Goto(c, from, to)
             /\ from # "configure" /\ from # "tune" /\ to # "configure"
      <4>1. CASE Hint(c)
        <5>1. Goto(c, "idle", "read") \/ Goto(c, "idle", "unlock")
          BY <4>1 DEF Hint
        <5>2. QED
          BY <5>1 DEF Places, UnderLock
      <4>2. CASE Return(c)
        <5>1. Goto(c, "return", "idle") \/ Goto(c, "return", "load")
          BY <4>2 DEF Return
        <5>2. QED
          BY <5>1 DEF Places
      <4>3. CASE WritePulse(c)
        <5>1. Goto(c, "write", "idle") \/ Goto(c, "write", "fail")
          BY <4>3 DEF WritePulse
        <5>2. QED
          BY <5>1 DEF Places
      <4>4. CASE Unlock(c) \/ LockToClose(c)
        BY <4>4 DEF Unlock, LockToClose, Places, UnderLock
      <4>5. QED
        BY <2>2, <4>1, <4>2, <4>3, <4>4
    <3>2. to # "tune"
      BY DEF Places, UnderLock
    <3>3. QED
      BY <3>1, <3>2, GotoMoves DEF IInv, Configuring
  <2>3. QED
    BY <2>1, <2>2
<1>3. QED
  BY <1>1, <1>2, TuningKept

(* While the name is read, and after a failed open, no node is open.       *)
LEMMA OpeningTuning ==
  ASSUME IInv, Tuning, NEW c \in Callers,
         GetScalingGovernor(c) \/ OpenPulse(c)
  PROVE  Tuning'
<1>1. caller[c].at \in {"read", "open"} /\ boostpulse_fd = -1
  BY DEF GetScalingGovernor, OpenPulse, Goto, IInv, Phases
<1>2. CASE UNCHANGED <<file, boostpulse_fd, scaling>>
  <2>1. ~IsCurrent'
    BY <1>1, <1>2 DEF IsCurrent
  <2>2. QED
    BY <1>2, <2>1 DEF Tuning
<1>3. CASE ~UNCHANGED <<file, boostpulse_fd, scaling>>
  <2>1. OpenPulse(c) /\ UNCHANGED <<scaling, governor>>
    BY <1>3 DEF GetScalingGovernor, OpenPulse
  <2>2. /\ governor \in PulseGovernors
        /\ governor = scaling.governor
        /\ Goto(c, "open", "configure")
    BY <1>3, <2>1 DEF OpenPulse
  <2>3. PICK f \in Fd : /\ file' = [file EXCEPT ![f] = Pulse(scaling.number)]
                        /\ boostpulse_fd' = f
    BY <1>3, <2>1 DEF OpenPulse
  <2>4. /\ caller'[c].at = "configure" /\ caller[c].at = "open"
        /\ \A d \in Callers : d # c => caller'[d] = caller[d]
    BY <2>2, GotoMoves DEF IInv, Places, UnderLock
  <2>5. ASSUME NEW g \in Fd, NEW n \in 0 .. MaxSwitches, file'[g] = Pulse(n)
        PROVE  n <= scaling.number
    <3>1. CASE g = f
      <4>1. file'[g] = Pulse(scaling.number)
        BY <2>3, <3>1 DEF IInv, TypeOK
      <4>2. n = scaling.number
        BY <2>5, <4>1, PulseNumbers
      <4>3. QED
        BY <4>2
    <3>2. CASE g # f
      BY <2>3, <2>5, <3>2 DEF Tuning, IInv, TypeOK
    <3>3. QED
      BY <3>1, <3>2
  <2>6. \A d \in Callers : caller'[d].at # "tune"
    BY <2>4, OneHolder DEF IInv, UnderLock
  <2>7. Configuring(c)'
    BY <2>4 DEF Configuring
  <2>8. QED
    BY <2>1, <2>2, <2>5, <2>6, <2>7 DEF Tuning
<1>4. QED
  BY <1>2, <1>3

(* configure_governor goes through the tunables of a current node's        *)
(* governor in their order.                                                *)
LEMMA ConfigureTuning ==
  ASSUME IInv, Tuning, NEW c \in Callers, Configure(c)
  PROVE  Tuning'
<1>1. UNCHANGED <<scaling, tunable, file, governor, boostpulse_fd>>
  BY DEF Configure
<1>2. caller[c].at = "configure" /\ caller'[c] = AtTunable(1)
  BY DEF Configure, IInv, TypeOK
<1>3. caller'[c].at = "tune" /\ caller'[c].next = 1
  BY <1>2, States
<1>4. \A d \in Callers : d # c => ~Configuring(d)' /\ caller'[d].at # "tune"
  BY <1>2, OneHolder, ConfigureMoves DEF IInv, UnderLock, Configuring
<1>5. Configuring(c) /\ Configuring(c)'
  BY <1>2, <1>3 DEF Configuring
<1>6. \A n \in Indices : ~(n < 1)
  BY DEF Indices
<1>7. IsCurrent' <=> IsCurrent
  BY <1>1 DEF IsCurrent
<1>8. IsCurrent => governor = scaling.governor
  BY <1>5 DEF Tuning
<1>9. \A n \in Indices' : ~(n < caller'[c].next)
  BY <1>1, <1>3, <1>6 DEF Indices
<1>10. QED
  BY <1>1, <1>4, <1>5, <1>7, <1>8, <1>9 DEF Tuning

(* A write leaves the tunable done, whether it goes through or fails, and  *)
(* keeps those that are.                                                   *)
LEMMA WriteIsDone ==
  ASSUME TypeOK, NEW n, SysfsWrite(n)
  PROVE  \A i \in Indices : i = n \/ IsDone(i) => IsDone(i)'
<1> SUFFICES ASSUME NEW i \in Indices, i = n \/ IsDone(i)
             PROVE  tunable'[i] # "default"
  BY DEF IsDone
<1>1. tunable \in [Indices -> Values]
  BY DEF TypeOK, Indices, Values
<1>2. PICK value \in {"set", AfterFailure(tunable[n])} :
        tunable' = [tunable EXCEPT ![n] = value]
  BY DEF SysfsWrite
<1>3. value # "default"
  BY DEF AfterFailure
<1>4. QED
  BY <1>1, <1>2, <1>3 DEF IsDone

LEMMA TuneTuning ==
  ASSUME IInv, Tuning, NEW c \in Callers, Tune(c)
  PROVE  Tuning'
<1> DEFINE n == caller[c].next
           last == Tunables[governor]
<1>1. UNCHANGED <<scaling, file, governor, boostpulse_fd>>
  BY DEF Tune
<1>2. caller[c].at = "tune" /\ n \in Nat \ {0}
  BY DEF Tune, IInv, TypeOK, CallerStates, Places, UnderLock
<1>3. Configuring(c)
  BY <1>2 DEF Configuring
<1>4. \A d \in Callers : d # c => ~Configuring(d)' /\ caller'[d].at # "tune"
  BY <1>2, OneHolder, ConfigureMoves DEF IInv, UnderLock, Configuring
<1>5. caller'[c] = IF n < last THEN AtTunable(n + 1) ELSE At("unlock")
  BY DEF Tune, IInv, TypeOK
<1>6. (IsCurrent' <=> IsCurrent) /\ Indices' = Indices
  BY <1>1 DEF IsCurrent, Indices
<1>7. IsCurrent => governor = scaling.governor
  BY <1>3 DEF Tuning
<1>8. IsCurrent => \A i \in Indices : i <= n => IsDone(i)'
  <2> SUFFICES ASSUME IsCurrent, NEW i \in Indices, i <= n
               PROVE  IsDone(i)'
    OBVIOUS
  <2>1. SysfsWrite(n)
    BY <1>7 DEF Tune
  <2>2. i = n \/ i < n
    BY <1>2 DEF Indices
  <2>3. i < n => IsDone(i)
    BY <1>2 DEF Tuning
  <2>4. QED
    BY <2>1, <2>2, <2>3, WriteIsDone DEF IInv
<1>9. CASE n < last
  <2>1. caller'[c].at = "tune" /\ caller'[c].next = n + 1
    BY <1>2, <1>5, <1>9, States
  <2>2. \A i \in Indices : i < n + 1 => i <= n
    BY <1>2 DEF Indices
  <2>3. IsCurrent => \A i \in Indices : i < caller'[c].next => IsDone(i)'
    BY <1>8, <2>1, <2>2
  <2>4. Configuring(c)'
    BY <2>1 DEF Configuring
  <2>5. QED
    BY <1>1, <1>4, <1>6, <1>7, <2>3, <2>4 DEF Tuning
<1>10. CASE ~(n < last)
  <2>1. caller'[c].at = "unlock"
    BY <1>5, <1>10, States DEF Places, UnderLock
  <2>2. \A d \in Callers : ~Configuring(d)' /\ caller'[d].at # "tune"
    BY <1>4, <2>1 DEF Configuring
  <2>3. IsCurrent => \A i \in Indices : i <= n
    <3> SUFFICES ASSUME IsCurrent, NEW i \in 1 .. last PROVE i <= n
      BY <1>7 DEF Indices
    <3>1. last \in Nat
      BY <1>7, TunablesAssumption DEF IInv, TypeOK
    <3>2. QED
      BY <1>2, <1>10, <3>1
  <2>4. IsCurrent => \A i \in Indices : IsDone(i)'
    BY <1>8, <2>3
  <2>5. QED
    BY <1>1, <1>6, <2>2, <2>4 DEF Tuning
<1>11. QED
  BY <1>9, <1>10

LEMMA ClosingTuning ==
  ASSUME IInv, Tuning, NEW c \in Callers, ClosePulse(c) \/ ResetFd(c)
  PROVE  Tuning'
<1>1. CASE ClosePulse(c)
  <2>1. UNCHANGED <<scaling, boostpulse_fd>>
    BY <1>1 DEF ClosePulse
  <2>2. \A f \in Fd : file'[f] = IF f = boostpulse_fd THEN NoFile ELSE file[f]
    BY <1>1 DEF ClosePulse
  <2>3. scaling.number \in 0 .. MaxSwitches /\ boostpulse_fd \in Fd \cup {-1}
    BY DEF IInv, TypeOK
  <2>4. ~IsCurrent'
    BY <2>1, <2>2, <2>3, PulseNumbers DEF IsCurrent
  <2>5. QED
    BY <2>1, <2>2, <2>4, PulseNumbers DEF Tuning
<1>2. CASE ResetFd(c)
  BY <1>2 DEF ResetFd, Tuning, IsCurrent
<1>3. QED
  BY <1>1, <1>2

(* A switch makes every node that is open an old one.                      *)
LEMMA EnvironmentTuning ==
  ASSUME IInv, Tuning,
         SetInteractive \/ SwitchGovernor \/ ForeignOpen \/ ForeignClose
  PROVE  Tuning'
<1>0. scaling.number \in 0 .. MaxSwitches /\ boostpulse_fd \in Fd \cup {-1}
  BY DEF IInv, TypeOK
<1>1. CASE SetInteractive
  BY <1>1, TuningKept DEF SetInteractive
<1>2. CASE SwitchGovernor
  <2>1. UNCHANGED <<file, boostpulse_fd>> /\ scaling'.number = scaling.number + 1
    BY <1>2 DEF SwitchGovernor
  <2>2. scaling.number + 1 \in 0 .. MaxSwitches
    BY <1>0, <1>2, BoundsAssumption DEF SwitchGovernor
  <2>3. ~(scaling.number + 1 <= scaling.number)
    BY <1>0
  <2>4. \A f \in Fd : file[f] # Pulse(scaling.number + 1)
    BY <2>2, <2>3 DEF Tuning
  <2>5. ~IsCurrent'
    BY <1>0, <2>1, <2>4 DEF IsCurrent
  <2>6. \A n \in 0 .. MaxSwitches :
           n <= scaling.number => n <= scaling.number + 1
    BY <1>0, BoundsAssumption
  <2>7. QED
    BY <2>1, <2>5, <2>6 DEF Tuning
<1>3. CASE ForeignOpen \/ ForeignClose
  <2>1. PICK f \in Fd, x \in {NoFile, Foreign} : file' = [file EXCEPT ![f] = x]
    BY <1>3 DEF ForeignOpen, ForeignClose
  <2>2. \A g \in Fd, n \in 0 .. MaxSwitches :
           file'[g] = Pulse(n) => file[g] = Pulse(n)
    BY <2>1, PulseNumbers DEF IInv, TypeOK
  <2>3. UNCHANGED <<scaling, tunable, governor, boostpulse_fd, caller>>
    BY <1>3 DEF ForeignOpen, ForeignClose
  <2>4. IsCurrent' => IsCurrent
    BY <1>0, <2>2, <2>3 DEF IsCurrent
  <2>5. \A n : IsDone(n)' <=> IsDone(n)
    BY <2>3 DEF IsDone
  <2>6. Indices' = Indices /\ \A c \in Callers : Configuring(c)' <=> Configuring(c)
    BY <2>3 DEF Indices, Configuring
  <2>7. QED
    BY <2>2, <2>3, <2>4, <2>5, <2>6 DEF Tuning
<1>4. QED
  BY <1>1, <1>2, <1>3

LEMMA NextTuning == IInv /\ Tuning /\ [Next]_vars => Tuning'
<1> SUFFICES ASSUME IInv, Tuning, [Next]_vars PROVE Tuning'
  OBVIOUS
<1>1. ASSUME NEW c \in Callers, Hint(c) \/ Continue(c) PROVE Tuning'
  BY <1>1, OtherCallersTuning, OpeningTuning, ConfigureTuning, TuneTuning,
     ClosingTuning
     DEF Continue, Opening, Writing, Closing
<1>2. CASE UNCHANGED vars
  BY <1>2, TuningKept DEF vars
<1>3. QED
  BY <1>1, <1>2, EnvironmentTuning DEF Next

(* While boostpulse_fd works and nobody is under the lock,                 *)
(* configure_governor has been through all tunables of the governor since  *)
(* it was switched on: each was written, or could not be.  A switch        *)
(* between the open of the node and configure_governor, or amid its        *)
(* writes, leaves a descriptor that does not work (power.c:160-176,        *)
(* 188-196).                                                               *)
THEOREM PulsesAreConfigured == Spec => []PulseIsConfigured
<1>1. ASSUME IInv, Tuning PROVE PulseIsConfigured
  <2> SUFFICES ASSUME lock = NoThread, boostpulse_fd # -1,
                      IsLive(file[boostpulse_fd])
               PROVE  \A n \in DOMAIN tunable : tunable[n] # "default"
    BY DEF PulseIsConfigured
  <2>1. \A c \in Callers : caller[c].at \notin UnderLock
    BY <1>1, ThreadAssumption DEF IInv, TypeOK
  <2>2. IsPulse(boostpulse_fd)
    BY <1>1, <2>1 DEF IInv, FieldIsDescriptor, UnderLock
  <2>3. IsCurrent
    BY <2>2, States DEF IsPulse, IsLive, IsCurrent
  <2>4. \A c \in Callers : ~Configuring(c)
    BY <2>1 DEF Configuring, UnderLock
  <2>5. DOMAIN tunable = Indices
    BY <1>1 DEF IInv, TypeOK, Indices
  <2>6. QED
    BY <1>1, <2>3, <2>4, <2>5 DEF Tuning, IsDone
<1>2. Init => Tuning
  BY InitTuning
<1>3. IInv /\ Tuning /\ [Next]_vars => Tuning'
  BY NextTuning
<1>4. QED
  BY <1>1, <1>2, <1>3, Invariant, PTL DEF Spec
=============================================================================

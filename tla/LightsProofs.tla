---------------------------- MODULE LightsProofs ----------------------------
(***************************************************************************)
(* Proofs about Lights for any number of threads and any colours.          *)
(***************************************************************************)
EXTENDS Lights, TLAPS

(* Three bytes with their weights.                                         *)
Mix(r, g, b) == (77 * r + 150 * g + 29 * b) \div 256

(* A mix of bytes is a byte.                                               *)
LEMMA WeightsFit ==
  ASSUME NEW r \in 0 .. 255, NEW g \in 0 .. 255, NEW b \in 0 .. 255
  PROVE  Mix(r, g, b) \in 0 .. 255
<1> DEFINE s == 77 * r + 150 * g + 29 * b
<1>1. s \in Int /\ 0 <= s /\ s <= 65280
  BY SMT
<1> HIDE DEF s
<1>2. s \div 256 \in Int /\ 0 <= s \div 256 /\ s \div 256 <= 255
  BY SMT, <1>1
<1>3. QED
  BY SMT, <1>2 DEF Mix, s

(* The bytes of a colour.                                                  *)
LEMMA BytesOf ==
  ASSUME NEW c \in Nat, c < 16777216
  PROVE  /\ c \div 65536 \in 0 .. 255
         /\ (c \div 256) % 256 \in 0 .. 255
         /\ c % 256 \in 0 .. 255
BY SMT

(* rgb_to_brightness makes a byte of every colour, whatever is in its      *)
(* alpha byte (lights.c:100-106).                                          *)
THEOREM BrightnessIsByte ==
  ASSUME NEW color \in Nat
  PROVE  rgb_to_brightness(color) \in 0 .. 255
<1> DEFINE c == color % 16777216
<1>1. c \in Nat /\ c < 16777216
  BY SMT
<1> HIDE DEF c
<1> DEFINE r == c \div 65536
           g == (c \div 256) % 256
           b == c % 256
<1>2. r \in 0 .. 255 /\ g \in 0 .. 255 /\ b \in 0 .. 255
  BY <1>1, BytesOf
<1>3. rgb_to_brightness(color) = Mix(r, g, b)
  BY SMT DEF rgb_to_brightness, c, Mix
<1> HIDE DEF r, g, b
<1>4. Mix(r, g, b) \in 0 .. 255
  BY <1>2, WeightsFit
<1>5. QED
  BY <1>3, <1>4

(* The weights add up to 256, so that a grey keeps its level: white is the *)
(* brightest level, black is off, and no level in between is lost          *)
(* (lights.c:103-105).                                                     *)
THEOREM GreyKeepsLevel ==
  ASSUME NEW v \in 0 .. 255, NEW alpha \in 0 .. 255
  PROVE  rgb_to_brightness(alpha * 16777216 + v * 65793) = v
<1> DEFINE c == v * 65793
<1>1. (alpha * 16777216 + c) % 16777216 = c
  <2>1. c \in Nat /\ c < 16777216
    BY SMT
  <2> HIDE DEF c
  <2>2. QED
    BY <2>1, SMT
<1>2. /\ c \div 65536 = v
      /\ c \div 256 = v * 257
      /\ c % 256 = v
  BY SMT
<1>3. (v * 257) % 256 = v
  BY SMT
<1>4. rgb_to_brightness(alpha * 16777216 + c) = (77 * v + 150 * v + 29 * v) \div 256
  <2> HIDE DEF c
  <2>1. QED
    BY <1>1, <1>2, <1>3, SMT DEF rgb_to_brightness
<1>5. (77 * v + 150 * v + 29 * v) \div 256 = v
  BY SMT
<1>6. QED
  BY <1>4, <1>5

-----------------------------------------------------------------------------
SetterStates == [at : Places, to : 0 .. 255, err : BOOLEAN]

(* A thread has seen no error before it writes, and is about to log the    *)
(* failure only if nobody has.                                             *)
Phase(s, warned) ==
    /\ s.at \in {"lock", "open", "write"} => ~s.err
    /\ s.at = "warn" => s.err /\ ~warned

(* While the device is not open nobody is in set_light, so that the mutex  *)
(* may be initialised.                                                     *)
Phases ==
    /\ device # "open" => Quiet
    /\ \A t \in Setters : Phase(set[t], already_warned)
    /\ already_warned = FALSE => warnings = 0

IInv == TypeOK /\ OneWriter /\ WarnedOnce /\ Phases

LEMMA Idleness == Idle \in SetterStates /\ Idle.at = "idle"
BY DEF Idle, SetterStates, Places, Inside

LEMMA InitInv == Init => IInv
<1> SUFFICES ASSUME Init PROVE IInv
  OBVIOUS
<1>1. \A t \in Setters : set[t] = Idle
  BY DEF Init
<1>2. set \in [Setters -> SetterStates]
  BY Idleness DEF Init
<1>3. TypeOK
  <2>1. level \in 0 .. 255 /\ warnings \in 0 .. 2
    BY DEF Init
  <2>2. QED
    BY <1>2, <2>1 DEF Init, TypeOK, SetterStates
<1>4. OneWriter
  BY <1>1 DEF OneWriter, Idle, Inside
<1>5. Phases
  BY <1>1 DEF Init, Phases, Phase, Quiet, Idle
<1>6. QED
  BY <1>3, <1>4, <1>5 DEF Init, IInv, WarnedOnce

(* The device is open while a thread is in set_light.                      *)
LEMMA OpenMeanwhile ==
  ASSUME IInv, NEW t \in Setters, set[t].at # "idle"
  PROVE  device = "open"
BY Idleness DEF IInv, Phases, Quiet

(* A step of one thread in set_light.                                      *)
LEMMA OneMoves ==
  ASSUME IInv, NEW t \in Setters, NEW s \in SetterStates,
         set' = [set EXCEPT ![t] = s],
         device = "open", UNCHANGED <<device, refused>>,
         level' \in 0 .. 255,
         s.at \in Inside <=> g_lock' = t,
         g_lock' \in {g_lock, t, NoThread},
         g_lock' # g_lock => g_lock \in {t, NoThread},
         Phase(s, already_warned'),
         \/ UNCHANGED <<already_warned, warnings>>
         \/ set[t].at = "warn" /\ already_warned' = TRUE /\ warnings' = 1
  PROVE  IInv'
<1> USE DEF IInv
<1>1. /\ set \in [Setters -> SetterStates]
      /\ g_lock \in Setters \cup {NoThread}
      /\ g_lock # NoThread => set[g_lock].at \in Inside
  BY DEF TypeOK, SetterStates
<1>2. /\ set' \in [Setters -> SetterStates]
      /\ set'[t] = s
      /\ \A u \in Setters : u # t => set'[u] = set[u]
  BY <1>1
<1>3. g_lock' \in Setters \cup {NoThread}
  BY <1>1
<1>4. g_lock' # NoThread => set'[g_lock'].at \in Inside
  <2>1. CASE g_lock' = t
    BY <2>1, <1>2
  <2>2. CASE g_lock' = g_lock /\ g_lock' # t
    BY <2>2, <1>1, <1>2
  <2>3. QED
    BY <2>1, <2>2
<1>5. warnings' \in 0 .. 2 /\ warnings' <= 1
  BY DEF TypeOK, WarnedOnce
<1>6. TypeOK'
  BY <1>2, <1>3, <1>4, <1>5 DEF TypeOK, SetterStates
<1>7. OneWriter'
  <2> SUFFICES ASSUME NEW u \in Setters, set'[u].at \in Inside
               PROVE  g_lock' = u
    BY DEF OneWriter
  <2>1. CASE u = t
    BY <2>1, <1>2
  <2>2. CASE u # t
    <3>1. g_lock = u
      BY <2>2, <1>2 DEF OneWriter
    <3>2. QED
      BY <2>2, <3>1, ThreadsAssumption
  <2>3. QED
    BY <2>1, <2>2
<1>8. \A u \in Setters : Phase(set[u], already_warned)' 
  <2> SUFFICES ASSUME NEW u \in Setters, u # t
               PROVE  Phase(set[u], already_warned')
    BY <1>2 DEF Phase
  <2>1. set[t].at = "warn" => set[u].at # "warn"
    BY DEF OneWriter, Inside
  <2>2. QED
    BY <2>1 DEF Phases, Phase
<1>9. Phases'
  BY <1>8 DEF Phases
<1>10. QED
  BY <1>5, <1>6, <1>7, <1>9 DEF WarnedOnce

(* The same for the steps that change only the place of the thread, and    *)
(* perhaps the mutex.                                                      *)
LEMMA OnePlaceMoves ==
  ASSUME IInv, NEW t \in Setters, NEW from, NEW to \in Places,
         Moves(t, from, to), from # "idle",
         UNCHANGED <<device, refused, already_warned, warnings>>,
         level' \in 0 .. 255,
         to \in Inside <=> g_lock' = t,
         g_lock' \in {g_lock, t, NoThread},
         g_lock' # g_lock => g_lock \in {t, NoThread},
         to \in {"lock", "open", "write"} => ~set[t].err,
         to # "warn"
  PROVE  IInv'
<1> DEFINE s == [set[t] EXCEPT !.at = to]
<1>1. set[t] \in SetterStates /\ set[t].at = from
  BY DEF IInv, TypeOK, SetterStates, Moves
<1>2. s \in SetterStates /\ s.at = to /\ s.err = set[t].err
  BY <1>1 DEF SetterStates
<1>3. set' = [set EXCEPT ![t] = s]
  BY DEF Moves
<1>4. device = "open"
  BY <1>1, OpenMeanwhile
<1>5. Phase(s, already_warned')
  BY <1>2 DEF Phase
<1> HIDE DEF s
<1>6. QED
  BY <1>2, <1>3, <1>4, <1>5, OneMoves

LEMMA ProceedInv ==
  ASSUME IInv, NEW t \in Setters, Proceed(t)
  PROVE  IInv'
<1>1. /\ set[t] \in SetterStates
      /\ set \in [Setters -> SetterStates]
      /\ level \in 0 .. 255
      /\ set[t].at \in Inside <=> g_lock = t
      /\ set[t].at = "open" => ~set[t].err
  <2>1. t # NoThread
    BY ThreadsAssumption
  <2>2. QED
    BY <2>1 DEF IInv, TypeOK, SetterStates, OneWriter, Phases, Phase
<1>2. CASE Lock(t)
  <2>1. ~set[t].err
    BY <1>2 DEF IInv, Phases, Phase, Lock, Moves
  <2>2. "open" \in Places /\ "open" \in Inside
    BY DEF Places, Inside
  <2>3. QED
    BY <1>1, <1>2, <2>1, <2>2, OnePlaceMoves DEF Lock
<1>3. CASE OpenFile(t)
  <2>1. set[t].at = "open" /\ g_lock' = t
    BY <1>1, <1>3 DEF OpenFile, Moves, Inside
  <2>2. "write" \in Places /\ "write" \in Inside
    BY DEF Places, Inside
  <2>3. QED
    BY <1>1, <1>3, <2>1, <2>2, OnePlaceMoves DEF OpenFile
<1>4. CASE OpenFails(t)
  <2> DEFINE to == IF already_warned THEN "unlock" ELSE "warn"
             s == [set[t] EXCEPT !.at = to, !.err = TRUE]
  <2>1. set[t].at = "open" /\ g_lock' = t
    BY <1>1, <1>4 DEF OpenFails, Inside
  <2>2. to \in Places /\ to \in Inside /\ to \notin {"lock", "open", "write"}
    BY DEF Places, Inside
  <2>3. to = "warn" => ~already_warned
    OBVIOUS
  <2>4. set' = [set EXCEPT ![t] = s]
    BY <1>4 DEF OpenFails
  <2> HIDE DEF to
  <2>5. s \in SetterStates /\ s.at = to /\ s.err = TRUE
    BY <1>1, <2>2 DEF SetterStates
  <2> HIDE DEF s
  <2>6. device = "open"
    BY <2>1, OpenMeanwhile
  <2>7. Phase(s, already_warned')
    BY <1>4, <2>2, <2>3, <2>5 DEF Phase, OpenFails
  <2>8. /\ UNCHANGED <<device, refused, already_warned, warnings>>
        /\ g_lock' = g_lock /\ level' \in 0 .. 255
    BY <1>1, <1>4 DEF OpenFails
  <2>9. QED
    BY <2>1, <2>2, <2>4, <2>5, <2>6, <2>7, <2>8, OneMoves
<1>5. CASE Warn(t)
  <2> DEFINE s == [set[t] EXCEPT !.at = "unlock"]
  <2>1. set[t].at = "warn" /\ g_lock' = t
    BY <1>1, <1>5 DEF Warn, Moves, Inside
  <2>2. "unlock" \in Places /\ "unlock" \in Inside
    BY DEF Places, Inside
  <2>3. warnings = 0
    <3>1. already_warned = FALSE
      BY <2>1 DEF IInv, Phases, Phase, TypeOK
    <3>2. QED
      BY <3>1 DEF IInv, Phases
  <2>4. already_warned' = TRUE /\ warnings' = 1
    BY <1>5, <2>3 DEF Warn
  <2>5. set' = [set EXCEPT ![t] = s]
    BY <1>5 DEF Warn, Moves
  <2>6. s \in SetterStates /\ s.at = "unlock"
    BY <1>1, <2>2 DEF SetterStates
  <2> HIDE DEF s
  <2>7. device = "open"
    BY <2>1, OpenMeanwhile
  <2>8. Phase(s, already_warned')
    BY <2>6 DEF Phase
  <2>9. QED
    BY <1>1, <1>5, <2>1, <2>2, <2>4, <2>5, <2>6, <2>7, <2>8, OneMoves DEF Warn
<1>6. CASE WriteFile(t)
  <2>1. set[t].at = "write" /\ g_lock' = t
    BY <1>1, <1>6 DEF WriteFile, Moves, Inside
  <2>2. "close" \in Places /\ "close" \in Inside
    BY DEF Places, Inside
  <2>3. level' \in 0 .. 255
    BY <1>1, <1>6 DEF WriteFile, SetterStates
  <2>4. QED
    BY <1>6, <2>1, <2>2, <2>3, OnePlaceMoves DEF WriteFile
<1>7. CASE WriteFails(t)
  <2> DEFINE s == [set[t] EXCEPT !.at = "close", !.err = TRUE]
  <2>1. set[t].at = "write" /\ g_lock' = t
    BY <1>1, <1>7 DEF WriteFails, Inside
  <2>2. "close" \in Places /\ "close" \in Inside
    BY DEF Places, Inside
  <2>3. set' = [set EXCEPT ![t] = s]
    BY <1>7 DEF WriteFails
  <2>4. s \in SetterStates /\ s.at = "close"
    BY <1>1, <2>2 DEF SetterStates
  <2> HIDE DEF s
  <2>5. device = "open"
    BY <2>1, OpenMeanwhile
  <2>6. Phase(s, already_warned')
    BY <2>4 DEF Phase
  <2>7. /\ UNCHANGED <<device, refused, already_warned, warnings>>
        /\ g_lock' = g_lock /\ level' \in 0 .. 255
    BY <1>1, <1>7 DEF WriteFails
  <2>8. QED
    BY <2>1, <2>2, <2>3, <2>4, <2>5, <2>6, <2>7, OneMoves
<1>8. CASE CloseFile(t)
  <2>1. set[t].at = "close" /\ g_lock' = t
    BY <1>1, <1>8 DEF CloseFile, Moves, Inside
  <2>2. "unlock" \in Places /\ "unlock" \in Inside
    BY DEF Places, Inside
  <2>3. QED
    BY <1>1, <1>8, <2>1, <2>2, OnePlaceMoves DEF CloseFile
<1>9. CASE Unlock(t)
  <2>1. set[t].at = "unlock" /\ g_lock = t /\ g_lock' = NoThread
    BY <1>1, <1>9 DEF Unlock, Moves, Inside
  <2>2. "return" \in Places /\ "return" \notin Inside
    BY DEF Places, Inside
  <2>3. t # NoThread
    BY ThreadsAssumption
  <2>4. QED
    BY <1>1, <1>9, <2>1, <2>2, <2>3, OnePlaceMoves DEF Unlock
<1>10. CASE Return(t)
  <2>1. set[t].at = "return" /\ g_lock' = g_lock /\ g_lock # t
    BY <1>1, <1>10 DEF Return, Inside
  <2>2. Idle \in SetterStates /\ Idle.at \notin Inside
    BY Idleness DEF Inside
  <2>3. device = "open"
    BY <2>1, OpenMeanwhile
  <2>4. Phase(Idle, already_warned')
    BY Idleness DEF Phase
  <2>5. set' = [set EXCEPT ![t] = Idle]
    BY <1>10 DEF Return
  <2>6. QED
    BY <1>1, <1>10, <2>1, <2>2, <2>3, <2>4, <2>5, OneMoves DEF Return
<1>11. QED
  BY <1>2, <1>3, <1>4, <1>5, <1>6, <1>7, <1>8, <1>9, <1>10 DEF Proceed

(* The framework's open and close, and the start of a call.                *)
LEMMA OpenAndCloseInv ==
  ASSUME IInv, OpenAndClose
  PROVE  IInv'
<1> USE DEF IInv
<1>1. set' = set /\ UNCHANGED <<level, already_warned, warnings>>
  BY DEF OpenAndClose, OpenBacklight, ReturnDevice, OpenOther, CloseBacklight
<1>2. WarnedOnce'
  BY <1>1 DEF WarnedOnce
<1>3. device' \in {"closed", "opening", "open"} /\ refused' \in BOOLEAN
  BY DEF TypeOK, OpenAndClose, OpenBacklight, ReturnDevice, OpenOther,
         CloseBacklight
<1>4. device' # "open" => Quiet
  BY DEF Phases, OpenAndClose, OpenBacklight, ReturnDevice, OpenOther,
         CloseBacklight
<1>5. Phases'
  BY <1>1, <1>4 DEF Phases, Phase, Quiet
<1>6. \/ g_lock' = g_lock
      \/ g_lock' = NoThread /\ Quiet
  BY DEF Phases, OpenAndClose, OpenBacklight, ReturnDevice, OpenOther,
         CloseBacklight
<1>7. TypeOK'
  BY <1>1, <1>3, <1>6 DEF TypeOK
<1>8. OneWriter'
  <2>1. Quiet => \A t \in Setters : set[t].at \notin Inside
    BY Idleness DEF Quiet, Inside
  <2>2. QED
    BY <1>1, <1>6, <2>1 DEF OneWriter
<1>9. QED
  BY <1>2, <1>5, <1>7, <1>8

LEMMA CallSetInv ==
  ASSUME IInv, NEW t \in Setters, CallSet(t)
  PROVE  IInv'
<1> PICK c \in Colors :
      set' = [set EXCEPT ![t] = [at |-> "lock", to |-> rgb_to_brightness(c),
                                 err |-> FALSE]]
  BY DEF CallSet
<1> DEFINE s == [at |-> "lock", to |-> rgb_to_brightness(c), err |-> FALSE]
<1>1. s \in SetterStates /\ s.at = "lock" /\ s.err = FALSE
  <2>1. rgb_to_brightness(c) \in 0 .. 255
    BY BrightnessIsByte, ColorsAssumption
  <2>2. QED
    BY <2>1 DEF SetterStates, Places
<1>2. set' = [set EXCEPT ![t] = s]
  OBVIOUS
<1> HIDE DEF s
<1>3. g_lock # t
  BY ThreadsAssumption, Idleness DEF IInv, TypeOK, CallSet, Inside
<1>4. Phase(s, already_warned')
  BY <1>1 DEF Phase
<1>5. "lock" \notin Inside
  BY DEF Inside
<1>6. level' \in 0 .. 255
  BY DEF CallSet, IInv, TypeOK
<1>7. QED
  BY <1>1, <1>2, <1>3, <1>4, <1>5, <1>6, OneMoves DEF CallSet

LEMMA NextInv == IInv /\ [Next]_vars => IInv'
<1> SUFFICES ASSUME IInv, [Next]_vars PROVE IInv'
  OBVIOUS
<1>1. CASE OpenAndClose
  BY <1>1, OpenAndCloseInv
<1>2. ASSUME NEW t \in Setters, CallSet(t) PROVE IInv'
  BY <1>2, CallSetInv
<1>3. ASSUME NEW t \in Setters, Proceed(t) PROVE IInv'
  BY <1>3, ProceedInv
<1>4. CASE UNCHANGED vars
  BY <1>4 DEF vars, IInv, TypeOK, OneWriter, WarnedOnce, Phases, Phase, Quiet
<1>5. QED
  BY <1>1, <1>2, <1>3, <1>4 DEF Next

LEMMA Invariant == Spec => []IInv
BY InitInv, NextInv, PTL DEF Spec

(* Every variable keeps its type, and whoever holds the mutex is between   *)
(* its lock and its unlock.                                                *)
THEOREM TypeCorrect == Spec => []TypeOK
<1>1. IInv => TypeOK
  BY DEF IInv
<1>2. QED
  BY <1>1, Invariant, PTL

(* Only one thread at a time is in write_int, although open_lights         *)
(* initialises the mutex again and again (lights.c:114-116, 164).          *)
THEOREM WritersExclude == Spec => []OneWriter
<1>1. IInv => OneWriter
  BY DEF IInv
<1>2. QED
  BY <1>1, Invariant, PTL

(* The failure to open the file is logged once at most (lights.c:55-58).   *)
THEOREM LoggedOnce == Spec => []WarnedOnce
<1>1. IInv => WarnedOnce
  BY DEF IInv
<1>2. QED
  BY <1>1, Invariant, PTL

-----------------------------------------------------------------------------
(* The refinement. *)

(* What Backlight sees of a thread.                                        *)
Seen(s) ==
    CASE s.at = "idle" -> [at |-> "idle"]
      [] s.at \in {"lock", "open", "write"} /\ ~s.err ->
            [at |-> "called", to |-> s.to]
      [] OTHER -> [at |-> "answered", err |-> s.err]

LEMMA SeenCases ==
  ASSUME NEW s
  PROVE  /\ s.at = "idle" => Seen(s) = Abstract!Idle
         /\ s.at \in {"lock", "open", "write"} /\ ~s.err =>
               Seen(s) = Abstract!Called(s.to)
         /\ s.at \notin {"idle", "lock", "open", "write"} =>
               Seen(s) = Abstract!Answered(s.err)
BY DEF Seen, Abstract!Idle, Abstract!Called, Abstract!Answered

(* A step of one thread is a step of its view.                             *)
LEMMA SeenMoves ==
  ASSUME NEW t \in Setters, NEW s,
         set \in [Setters -> SetterStates], set' = [set EXCEPT ![t] = s]
  PROVE  /\ callBar[t] = Seen(set[t])
         /\ callBar' = [callBar EXCEPT ![t] = Seen(s)]
<1>1. callBar = [u \in Setters |-> Seen(set[u])]
  BY DEF callBar, Seen
<1>2. callBar' = [u \in Setters |-> Seen(set'[u])]
  BY DEF callBar, Seen
<1>3. \A u \in Setters : set'[u] = IF u = t THEN s ELSE set[u]
  OBVIOUS
<1>4. QED
  BY <1>1, <1>2, <1>3

(* A step that leaves the level alone and the view of its thread as it is. *)
LEMMA Stutters ==
  ASSUME NEW t \in Setters, NEW s,
         set \in [Setters -> SetterStates], set' = [set EXCEPT ![t] = s],
         Seen(s) = Seen(set[t]), UNCHANGED level
  PROVE  UNCHANGED <<level, callBar>>
<1>1. callBar = [u \in Setters |-> Seen(set[u])]
  BY DEF callBar, Seen
<1>2. callBar' = [callBar EXCEPT ![t] = callBar[t]]
  BY SeenMoves
<1>3. QED
  BY <1>1, <1>2

LEMMA ProceedRefines ==
  ASSUME IInv, NEW t \in Setters, Proceed(t)
  PROVE  Abstract!Next \/ UNCHANGED <<level, callBar>>
<1>1. /\ set \in [Setters -> SetterStates]
      /\ set[t] \in SetterStates
      /\ set[t].at \in {"lock", "open", "write"} => ~set[t].err
  BY DEF IInv, TypeOK, SetterStates, Phases, Phase
<1>2. ASSUME NEW from, NEW to \in Places, Moves(t, from, to), UNCHANGED level,
             \/ {from, to} \subseteq {"lock", "open", "write"}
             \/ {from, to} \cap {"idle", "lock", "open", "write"} = {}
      PROVE  UNCHANGED <<level, callBar>>
  <2> DEFINE s == [set[t] EXCEPT !.at = to]
  <2>1. /\ s.at = to /\ s.err = set[t].err /\ s.to = set[t].to
        /\ set[t].at = from
    BY <1>1, <1>2 DEF SetterStates, Moves
  <2>2. set' = [set EXCEPT ![t] = s]
    BY <1>2 DEF Moves
  <2> HIDE DEF s
  <2>3. Seen(s) = Seen(set[t])
    <3>1. CASE {from, to} \subseteq {"lock", "open", "write"}
      BY <1>1, <2>1, <3>1, SeenCases
    <3>2. CASE {from, to} \cap {"idle", "lock", "open", "write"} = {}
      BY <2>1, <3>2, SeenCases
    <3>3. QED
      BY <1>2, <3>1, <3>2
  <2>4. QED
    BY <1>1, <1>2, <2>2, <2>3, Stutters
<1>3. CASE Lock(t) \/ OpenFile(t)
  BY <1>2, <1>3 DEF Lock, OpenFile, Places, Inside, Moves
<1>4. CASE Warn(t) \/ CloseFile(t) \/ Unlock(t)
  BY <1>2, <1>4 DEF Warn, CloseFile, Unlock, Places, Inside, Moves
<1>5. CASE OpenFails(t) \/ WriteFails(t)
  <2> PICK to \in {"unlock", "warn", "close"} :
        set' = [set EXCEPT ![t].at = to, ![t].err = TRUE]
    BY <1>5 DEF OpenFails, WriteFails
  <2> DEFINE s == [set[t] EXCEPT !.at = to, !.err = TRUE]
  <2>1. set' = [set EXCEPT ![t] = s] /\ s.at = to /\ s.err = TRUE
    BY <1>1 DEF SetterStates
  <2> HIDE DEF s
  <2>2. Seen(s) = Abstract!Answered(TRUE)
    BY <2>1, SeenCases
  <2>3. Seen(set[t]) = Abstract!Called(set[t].to)
    BY <1>1, <1>5, SeenCases DEF OpenFails, WriteFails
  <2>4. /\ callBar[t] = Seen(set[t])
        /\ callBar' = [callBar EXCEPT ![t] = Seen(s)]
    BY <1>1, <2>1, SeenMoves
  <2>5. Abstract!Fail(t)
    BY <1>5, <2>2, <2>3, <2>4
       DEF Abstract!Fail, Abstract!Called, OpenFails, WriteFails
  <2>6. QED
    BY <2>5 DEF Abstract!Next
<1>6. CASE WriteFile(t)
  <2> DEFINE s == [set[t] EXCEPT !.at = "close"]
  <2>1. set' = [set EXCEPT ![t] = s] /\ s.at = "close" /\ s.err = set[t].err
    BY <1>1, <1>6 DEF SetterStates, WriteFile, Moves
  <2> HIDE DEF s
  <2>2. Seen(s) = Abstract!Answered(FALSE)
    <3>1. set[t].err = FALSE
      BY <1>1, <1>6 DEF WriteFile, Moves, SetterStates
    <3>2. QED
      BY <2>1, <3>1, SeenCases
  <2>3. Seen(set[t]) = Abstract!Called(set[t].to)
    BY <1>1, <1>6, SeenCases DEF WriteFile, Moves
  <2>4. /\ callBar[t] = Seen(set[t])
        /\ callBar' = [callBar EXCEPT ![t] = Seen(s)]
    BY <1>1, <2>1, SeenMoves
  <2>5. Abstract!Apply(t)
    BY <1>6, <2>2, <2>3, <2>4
       DEF Abstract!Apply, Abstract!Called, WriteFile
  <2>6. QED
    BY <2>5 DEF Abstract!Next
<1>7. CASE Return(t)
  <2>1. Seen(Idle) = Abstract!Idle
    BY Idleness, SeenCases
  <2>2. Seen(set[t]) = Abstract!Answered(set[t].err)
    BY <1>7, SeenCases DEF Return
  <2>3. /\ callBar[t] = Seen(set[t])
        /\ callBar' = [callBar EXCEPT ![t] = Seen(Idle)]
    BY <1>1, <1>7, SeenMoves DEF Return
  <2>4. Abstract!Return(t)
    BY <1>7, <2>1, <2>2, <2>3
       DEF Abstract!Return, Abstract!Answered, Return
  <2>5. QED
    BY <2>4 DEF Abstract!Next
<1>8. QED
  BY <1>3, <1>4, <1>5, <1>6, <1>7 DEF Proceed

LEMMA CallSetRefines ==
  ASSUME IInv, NEW t \in Setters, CallSet(t)
  PROVE  Abstract!Next
<1> PICK c \in Colors :
      set' = [set EXCEPT ![t] = [at |-> "lock", to |-> rgb_to_brightness(c),
                                 err |-> FALSE]]
  BY DEF CallSet
<1> DEFINE b == rgb_to_brightness(c)
           s == [at |-> "lock", to |-> b, err |-> FALSE]
<1>1. b \in 0 .. 255
  BY BrightnessIsByte, ColorsAssumption
<1>2. set' = [set EXCEPT ![t] = s]
  OBVIOUS
<1> HIDE DEF b
<1>3. s.at = "lock" /\ s.to = b /\ s.err = FALSE
  OBVIOUS
<1> HIDE DEF s
<1>4. Seen(s) = Abstract!Called(b)
  BY <1>3, SeenCases
<1>5. Seen(set[t]) = Abstract!Idle
  BY Idleness, SeenCases DEF CallSet
<1>6. set \in [Setters -> SetterStates]
  BY DEF IInv, TypeOK, SetterStates
<1>7. /\ callBar[t] = Seen(set[t])
      /\ callBar' = [callBar EXCEPT ![t] = Seen(s)]
  BY <1>2, <1>6, SeenMoves
<1>8. Abstract!Call(t)
  BY <1>1, <1>4, <1>5, <1>7 DEF Abstract!Call, CallSet
<1>9. QED
  BY <1>8 DEF Abstract!Next

(* Lights implements Backlight: a call of set_light takes effect at one    *)
(* moment, or fails and says so, for any number of threads and any colours *)
(* (lights.c:108-119).                                                     *)
THEOREM LightsIsBacklight == Spec => BacklightSpec
<1>1. Init => Abstract!Init
  <2> SUFFICES ASSUME Init PROVE Abstract!Init
    OBVIOUS
  <2>1. callBar = [t \in Setters |-> Abstract!Idle]
    BY DEF callBar, Init, Idle, Abstract!Idle
  <2>2. level \in 0 .. 255
    BY DEF Init
  <2>3. QED
    BY <2>1, <2>2 DEF Abstract!Init
<1>2. IInv /\ [Next]_vars => [Abstract!Next]_<<level, callBar>>
  <2> SUFFICES ASSUME IInv, [Next]_vars
               PROVE  Abstract!Next \/ UNCHANGED <<level, callBar>>
    OBVIOUS
  <2>1. ASSUME set' = set, level' = level
        PROVE  UNCHANGED <<level, callBar>>
    BY <2>1 DEF callBar
  <2>2. CASE OpenAndClose
    BY <2>1, <2>2 DEF OpenAndClose, OpenBacklight, ReturnDevice, OpenOther,
                      CloseBacklight
  <2>3. ASSUME NEW t \in Setters, CallSet(t) PROVE Abstract!Next
    BY <2>3, CallSetRefines
  <2>4. ASSUME NEW t \in Setters, Proceed(t)
        PROVE  Abstract!Next \/ UNCHANGED <<level, callBar>>
    BY <2>4, ProceedRefines
  <2>5. CASE UNCHANGED vars
    BY <2>1, <2>5 DEF vars
  <2>6. QED
    BY <2>2, <2>3, <2>4, <2>5 DEF Next
<1>3. QED
  BY <1>1, <1>2, Invariant, PTL DEF Spec, BacklightSpec, Abstract!Spec
=============================================================================

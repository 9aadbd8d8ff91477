-------------------------- MODULE PowerHintProofs --------------------------
(***************************************************************************)
(* Proofs about PowerHint, for any intervals, times and frequencies.  As   *)
(* long as the 32 bits of the clock do not repeat no hint is dropped by    *)
(* mistake, whatever the number of threads that send hints without a lock, *)
(* and the requests of a single thread hold a bounded number of            *)
(* descriptors.  No command is cut off.                                    *)
(***************************************************************************)
EXTENDS PowerHint, FiniteSetTheorems, FunctionTheorems, TLAPS

-----------------------------------------------------------------------------
(* The clock. *)

ClockFits == MaxUptime < Narrow
Half == Narrow \div 2

(* Up to half of its range the clock is read as it is; from then on it is  *)
(* near the top of the 64 bits.                                            *)
LEMMA Readings ==
  ASSUME ClockFits, NEW u \in 0 .. MaxUptime
  PROVE  /\ TimeOf(u) = IF u < Half THEN u ELSE u - Narrow + Wide
         /\ TimeOf(u) \in 0 .. Wide - 1
         /\ u # 0 => TimeOf(u) # 0
<1>1. /\ Narrow \in Nat /\ Narrow > 1 /\ Wide \in Nat /\ Wide > Narrow
      /\ u \in Nat /\ u < Narrow
  BY UptimeAssumption, WidthAssumption DEF ClockFits
<1>2. u % Narrow = u
  BY <1>1
<1>3. Half \in Nat /\ Half > 0 /\ Half <= Narrow
  BY <1>1 DEF Half
<1>4. TimeOf(u) = IF u < Half THEN u ELSE u - Narrow + Wide
  BY <1>2 DEF TimeOf, Half
<1>5. QED
  BY <1>1, <1>3, <1>4

LEMMA ReadingIsNat ==
  ASSUME NEW u \in Nat
  PROVE  TimeOf(u) \in Nat
<1>1. /\ Narrow \in Nat \ {0} /\ Wide \in Nat /\ Wide > Narrow
  BY WidthAssumption
<1>2. u % Narrow \in 0 .. Narrow - 1
  BY <1>1
<1>3. QED
  BY <1>1, <1>2 DEF TimeOf

(* The difference of two readings is the time between them, unless the     *)
(* clock has changed its sign, when it is greater than any interval.       *)
LEMMA Differences ==
  ASSUME ClockFits, NEW u \in 0 .. MaxUptime, NEW t \in 0 .. MaxUptime, u <= t
  PROVE  (TimeOf(t) - TimeOf(u)) % Wide =
            IF u < Half /\ Half <= t THEN t - u + (Wide - Narrow) ELSE t - u
<1>1. /\ Narrow \in Nat /\ Wide \in Nat /\ Wide > Narrow /\ MaxUptime < Narrow
      /\ MaxUptime \in Nat /\ Half \in Int /\ u \in Nat /\ t \in Nat
  BY UptimeAssumption, WidthAssumption DEF ClockFits, Half
<1>2. /\ TimeOf(u) = IF u < Half THEN u ELSE u - Narrow + Wide
      /\ TimeOf(t) = IF t < Half THEN t ELSE t - Narrow + Wide
  BY Readings
<1> DEFINE d == IF u < Half /\ Half <= t THEN t - u + (Wide - Narrow) ELSE t - u
<1>3. TimeOf(t) - TimeOf(u) = d
  <2>1. CASE u < Half /\ Half <= t
    BY <1>1, <1>2, <2>1
  <2>2. CASE t < Half
    BY <1>1, <1>2, <2>2
  <2>3. CASE Half <= u
    BY <1>1, <1>2, <2>3
  <2>4. QED
    BY <1>1, <2>1, <2>2, <2>3
<1>4. d \in 0 .. Wide - 1
  <2>1. t - u \in 0 .. Narrow - 1 /\ Wide - Narrow \in Nat
    BY <1>1
  <2>2. QED
    BY <1>1, <2>1
<1> HIDE DEF d
<1>5. d % Wide = d
  BY <1>1, <1>4
<1>6. QED
  BY <1>3, <1>5 DEF d

-----------------------------------------------------------------------------
(* Types. *)

CallerOK(s, now) ==
    \/ s = Idle
    \/ \E h \in Hints, d \in BOOLEAN, t \in 1 .. now :
          \/ s = AtCheck(h, d, t)
          \/ \E i \in Nat \ {0} : s = AtSend(h, d, t, i)

Types ==
    /\ uptime \in 1 .. MaxUptime
    /\ DOMAIN caller = Callers
    /\ \A c \in Callers : CallerOK(caller[c], uptime)
    /\ hint_time \in [Hints -> Nat]
    /\ latest \in [Hints -> 0 .. uptime]

(* The states of a caller are told apart by their place and their locals.  *)
LEMMA Places ==
  /\ Idle.at = "idle"
  /\ \A h, d, t : /\ AtCheck(h, d, t).at = "check"
                  /\ AtCheck(h, d, t).hint = h
                  /\ AtCheck(h, d, t).data = d
                  /\ AtCheck(h, d, t).read = t
  /\ \A h, d, t, i : /\ AtSend(h, d, t, i).at = "send"
                     /\ AtSend(h, d, t, i).hint = h
                     /\ AtSend(h, d, t, i).data = d
                     /\ AtSend(h, d, t, i).read = t
                     /\ AtSend(h, d, t, i).next = i
                     /\ [AtSend(h, d, t, i) EXCEPT !.next = i + 1] =
                           AtSend(h, d, t, i + 1)
BY DEF Idle, AtCheck, AtSend

(* What each step does to its caller. *)
LEMMA ReadClockShape ==
  ASSUME Types, NEW c \in Callers, ReadClock(c)
  PROVE  /\ caller[c] = Idle
         /\ \E h \in Hints, d \in BOOLEAN :
               caller' = [caller EXCEPT ![c] = AtCheck(h, d, uptime)]
         /\ UNCHANGED <<uptime, hint_time, inForce, latest>>
BY HintsAssumption DEF ReadClock

LEMMA CheckHintShape ==
  ASSUME Types, NEW c \in Callers, CheckHint(c)
  PROVE  /\ \E h \in Hints, d \in BOOLEAN, t \in 1 .. uptime :
               /\ caller[c] = AtCheck(h, d, t)
               /\ Throttled(h, TimeOf(t)) =>
                     caller' = [caller EXCEPT ![c] = Idle]
               /\ ~Throttled(h, TimeOf(t)) =>
                     caller' = [caller EXCEPT ![c] = AtSend(h, d, t, 1)]
         /\ UNCHANGED <<uptime, hint_time, inForce, latest>>
<1>1. caller[c].at = "check"
  BY DEF CheckHint
<1>2. PICK h \in Hints, d \in BOOLEAN, t \in 1 .. uptime :
         caller[c] = AtCheck(h, d, t)
  BY <1>1, Places DEF Types, CallerOK
<1>3. caller[c].hint = h /\ caller[c].data = d /\ caller[c].read = t
  BY <1>2, Places
<1>4. caller' = [caller EXCEPT ![c] = IF Throttled(h, TimeOf(t)) THEN Idle
                                      ELSE AtSend(h, d, t, 1)]
  BY <1>3 DEF CheckHint
<1>5. QED
  BY <1>2, <1>4 DEF CheckHint

Adds(h, d, t, i) ==
    \E f : /\ f \notin DOMAIN inForce
           /\ inForce' =
                 [g \in DOMAIN inForce \cup {f} |->
                    IF g = f
                    THEN [hint |-> h, number |-> i, read |-> t,
                          until |-> uptime + RequestsOf(h, d)[i].time]
                    ELSE inForce[g]]

LEMMA SendRequestShape ==
  ASSUME Types, NEW c \in Callers, SendRequest(c)
  PROVE  /\ \E h \in Hints, d \in BOOLEAN, t \in 1 .. uptime, i \in Nat \ {0} :
               /\ caller[c] = AtSend(h, d, t, i)
               /\ ~(i > Len(RequestsOf(h, d)))
               /\ caller' = [caller EXCEPT ![c] = AtSend(h, d, t, i + 1)]
               /\ Adds(h, d, t, i)
         /\ UNCHANGED <<uptime, hint_time, latest>>
<1>1. caller[c].at = "send"
  BY DEF SendRequest
<1>2. PICK h \in Hints, d \in BOOLEAN, t \in 1 .. uptime, i \in Nat \ {0} :
         caller[c] = AtSend(h, d, t, i)
  BY <1>1, Places DEF Types, CallerOK
<1>3. /\ caller[c].hint = h /\ caller[c].data = d
      /\ caller[c].read = t /\ caller[c].next = i
  BY <1>2, Places
<1>4. ~(i > Len(RequestsOf(h, d)))
  BY <1>3 DEF SendRequest, IsThrough, Todo
<1>5. caller' = [caller EXCEPT ![c] = AtSend(h, d, t, i + 1)]
  <2>1. caller' = [caller EXCEPT ![c].next = @ + 1]
    BY DEF SendRequest
  <2>2. caller' = [caller EXCEPT ![c] = [caller[c] EXCEPT !.next = i + 1]]
    BY <1>3, <2>1
  <2>3. [caller[c] EXCEPT !.next = i + 1] = AtSend(h, d, t, i + 1)
    BY <1>2, Places
  <2>4. QED
    BY <2>2, <2>3, Zenon
<1>6. Adds(h, d, t, i)
  BY <1>3 DEF SendRequest, LowestUnused, Todo, Adds
<1>7. UNCHANGED <<uptime, hint_time, latest>>
  BY DEF SendRequest
<1>8. QED
  BY <1>2, <1>4, <1>5, <1>6, <1>7

LEMMA StoreTimeShape ==
  ASSUME Types, NEW c \in Callers, StoreTime(c)
  PROVE  /\ \E h \in Hints, d \in BOOLEAN, t \in 1 .. uptime, i \in Nat \ {0} :
               /\ caller[c] = AtSend(h, d, t, i)
               /\ hint_time' = [hint_time EXCEPT ![h] = TimeOf(t)]
               /\ latest' = [latest EXCEPT ![h] = IF t > @ THEN t ELSE @]
         /\ caller' = [caller EXCEPT ![c] = Idle]
         /\ UNCHANGED <<uptime, inForce>>
<1>1. caller[c].at = "send"
  BY DEF StoreTime
<1>2. PICK h \in Hints, d \in BOOLEAN, t \in 1 .. uptime, i \in Nat \ {0} :
         caller[c] = AtSend(h, d, t, i)
  BY <1>1, Places DEF Types, CallerOK
<1>3. caller[c].hint = h /\ caller[c].read = t
  BY <1>2, Places
<1>4. QED
  BY <1>2, <1>3 DEF StoreTime, Sent

LEMMA InitTypes == Init => Types
<1> SUFFICES ASSUME Init PROVE Types
  OBVIOUS
<1>1. latest = [h \in Hints |-> 0] /\ hint_time \in [Hints -> Nat]
  BY WidthAssumption DEF Init
<1>2. uptime = 1 /\ 1 \in 1 .. MaxUptime
  BY UptimeAssumption DEF Init
<1>3. DOMAIN caller = Callers /\ \A c \in Callers : CallerOK(caller[c], uptime)
  BY DEF Init, CallerOK
<1>4. QED
  BY <1>1, <1>2, <1>3 DEF Types

LEMMA NextTypes == Types /\ [Next]_vars => Types'
<1> SUFFICES ASSUME Types, [Next]_vars PROVE Types'
  OBVIOUS
<1> USE DEF Types
<1>1. CASE Tick
  <2>1. uptime' \in 1 .. MaxUptime /\ uptime' = uptime + 1
    BY <1>1, UptimeAssumption DEF Tick
  <2>2. \A t \in 1 .. uptime : t \in 1 .. uptime'
    BY <2>1
  <2>3. \A c \in Callers : CallerOK(caller[c], uptime')
    BY <2>2 DEF CallerOK
  <2>4. latest \in [Hints -> 0 .. uptime']
    BY <2>1
  <2>5. UNCHANGED <<hint_time, caller, latest>>
    BY <1>1 DEF Tick
  <2>6. QED
    BY <2>1, <2>3, <2>4, <2>5
<1>2. ASSUME NEW c \in Callers, NEW s, CallerOK(s, uptime),
             caller' = [caller EXCEPT ![c] = s], UNCHANGED uptime
      PROVE  /\ DOMAIN caller' = Callers
             /\ \A b \in Callers : CallerOK(caller'[b], uptime')
  BY <1>2
<1>3. ASSUME NEW c \in Callers, ReadClock(c) PROVE Types'
  <2>1. PICK h \in Hints, d \in BOOLEAN :
          caller' = [caller EXCEPT ![c] = AtCheck(h, d, uptime)]
    BY <1>3, ReadClockShape
  <2>2. CallerOK(AtCheck(h, d, uptime), uptime)
    BY DEF CallerOK
  <2>3. QED
    BY <1>2, <1>3, <2>1, <2>2, ReadClockShape
<1>4. ASSUME NEW c \in Callers, CheckHint(c) PROVE Types'
  <2>1. PICK h \in Hints, d \in BOOLEAN, t \in 1 .. uptime :
          \/ caller' = [caller EXCEPT ![c] = Idle]
          \/ caller' = [caller EXCEPT ![c] = AtSend(h, d, t, 1)]
    BY <1>4, CheckHintShape
  <2>2. CallerOK(Idle, uptime) /\ CallerOK(AtSend(h, d, t, 1), uptime)
    BY DEF CallerOK
  <2>3. QED
    BY <1>2, <1>4, <2>1, <2>2, CheckHintShape
<1>5. ASSUME NEW c \in Callers, SendRequest(c) PROVE Types'
  <2>1. PICK h \in Hints, d \in BOOLEAN, t \in 1 .. uptime, i \in Nat \ {0} :
          caller' = [caller EXCEPT ![c] = AtSend(h, d, t, i + 1)]
    BY <1>5, SendRequestShape
  <2>2. CallerOK(AtSend(h, d, t, i + 1), uptime)
    BY DEF CallerOK
  <2>3. QED
    BY <1>2, <1>5, <2>1, <2>2, SendRequestShape
<1>6. ASSUME NEW c \in Callers, StoreTime(c) PROVE Types'
  <2>1. PICK h \in Hints, t \in 1 .. uptime :
          /\ hint_time' = [hint_time EXCEPT ![h] = TimeOf(t)]
          /\ latest' = [latest EXCEPT ![h] = IF t > @ THEN t ELSE @]
    BY <1>6, StoreTimeShape
  <2>2. TimeOf(t) \in Nat
    BY UptimeAssumption, ReadingIsNat
  <2>3. caller' = [caller EXCEPT ![c] = Idle] /\ UNCHANGED uptime
    BY <1>6, StoreTimeShape
  <2>4. CallerOK(Idle, uptime)
    BY DEF CallerOK
  <2>5. hint_time' \in [Hints -> Nat] /\ latest' \in [Hints -> 0 .. uptime]
    BY <2>1, <2>2
  <2>6. QED
    BY <1>2, <2>3, <2>4, <2>5
<1>7. CASE UNCHANGED vars
  BY <1>7 DEF vars
<1>8. QED
  BY <1>1, <1>3, <1>4, <1>5, <1>6, <1>7 DEF Next, CallHint

-----------------------------------------------------------------------------
(* Dropped hints. *)

(* hint_time is the reading of a hint that was sent, not necessarily of    *)
(* the latest, once a hint was sent or if hint_time was zeroed.            *)
Behind ==
    \A h \in Hints : Zeroed \/ latest[h] # 0 =>
        \E u \in 0 .. latest[h] : hint_time[h] = TimeOf(u)

LEMMA InitBehind == ClockFits /\ Init => Behind
<1> SUFFICES ASSUME ClockFits, Init, Zeroed PROVE Behind
  BY DEF Init, Behind
<1>1. 0 \in 0 .. MaxUptime /\ Half > 0 /\ Half \in Int
  BY UptimeAssumption, WidthAssumption DEF Half
<1>2. TimeOf(0) = 0
  BY <1>1, Readings
<1>3. \A h \in Hints : latest[h] = 0 /\ hint_time[h] = 0
  BY DEF Init
<1>4. QED
  BY <1>2, <1>3 DEF Behind

LEMMA NextBehind == Types /\ Behind /\ [Next]_vars => Behind'
<1> SUFFICES ASSUME Types, Behind, [Next]_vars PROVE Behind'
  OBVIOUS
<1>1. CASE UNCHANGED <<hint_time, latest>>
  BY <1>1 DEF Behind
<1>2. ASSUME NEW c \in Callers, StoreTime(c) PROVE Behind'
  <2>1. PICK h \in Hints, t \in 1 .. uptime :
          /\ hint_time' = [hint_time EXCEPT ![h] = TimeOf(t)]
          /\ latest' = [latest EXCEPT ![h] = IF t > @ THEN t ELSE @]
    BY <1>2, StoreTimeShape
  <2>2. /\ hint_time \in [Hints -> Nat] /\ latest \in [Hints -> 0 .. uptime]
        /\ uptime \in Nat
    BY DEF Types
  <2>3. hint_time'[h] = TimeOf(t) /\ t \in 0 .. latest'[h]
    BY <2>1, <2>2
  <2>4. \A g \in Hints \ {h} :
          hint_time'[g] = hint_time[g] /\ latest'[g] = latest[g]
    BY <2>1, <2>2
  <2>5. QED
    BY <2>3, <2>4 DEF Behind
<1>3. QED
  BY <1>1, <1>2 DEF Next, CallHint, Tick, ReadClock, CheckHint, SendRequest,
                    vars

(* A throttled caller's clock reading is close to the latest of its kind.  *)
LEMMA ThrottledIsRecent ==
  ASSUME ClockFits, Types, Behind, NEW c \in Callers,
         NEW h \in Hints, NEW d, NEW t \in 1 .. uptime,
         caller[c] = AtCheck(h, d, t), Throttled(h, TimeOf(t))
  PROVE  SentRecently(c)
<1>1. caller[c].hint = h /\ caller[c].read = t
  BY Places
<1>2. /\ hint_time[h] # 0 /\ Interval[h] # 0
      /\ (TimeOf(t) - hint_time[h]) % Wide < Interval[h]
  BY DEF Throttled
<1>3. /\ uptime \in 1 .. MaxUptime /\ latest[h] \in 0 .. uptime
      /\ MaxUptime \in Nat /\ Wide \in Nat /\ Narrow \in Nat
      /\ Interval[h] \in 0 .. Wide - Narrow
  BY UptimeAssumption, WidthAssumption, IntervalAssumption DEF Types
<1>4. CASE ~Zeroed /\ latest[h] = 0
  BY <1>1, <1>4 DEF SentRecently
<1>5. CASE Zeroed \/ latest[h] # 0
  <2>1. PICK u \in 0 .. latest[h] : hint_time[h] = TimeOf(u)
    BY <1>5 DEF Behind
  <2>2. u \in 0 .. MaxUptime /\ t \in 0 .. MaxUptime
    BY <1>3
  <2>3. u # 0 /\ latest[h] # 0
    <3>1. TimeOf(0) = 0
      <4>1. 0 \in 0 .. MaxUptime /\ Half > 0 /\ Half \in Int
        BY UptimeAssumption, WidthAssumption DEF Half
      <4>2. QED
        BY <4>1, Readings
    <3>2. QED
      BY <1>2, <1>3, <2>1, <3>1
  <2>4. CASE t < u
    BY <1>1, <1>2, <1>3, <2>2, <2>3, <2>4 DEF SentRecently
  <2>5. CASE u <= t
    <3>1. (TimeOf(t) - TimeOf(u)) % Wide =
             IF u < Half /\ Half <= t THEN t - u + (Wide - Narrow) ELSE t - u
      BY <2>2, <2>5, Differences
    <3>2. t - u < Interval[h]
      BY <1>2, <1>3, <2>1, <2>2, <2>5, <3>1
    <3>3. t - latest[h] < Interval[h]
      BY <1>3, <2>2, <3>2
    <3>4. QED
      BY <1>1, <2>3, <3>3 DEF SentRecently
  <2>6. QED
    BY <1>3, <2>2, <2>4, <2>5
<1>6. QED
  BY <1>4, <1>5

LEMMA DropIsRecent ==
  ASSUME ClockFits, Types, Behind, Next, NEW c \in Callers, Drops(c)
  PROVE  SentRecently(c)
<1>1. caller[c].at = "check" /\ caller'[c] = Idle
  BY DEF Drops
<1>2. DOMAIN caller = Callers
  BY DEF Types
<1>3. CASE Tick
  BY <1>1, <1>3, Places DEF Tick
<1>4. ASSUME NEW b \in Callers, ReadClock(b) PROVE FALSE
  <2>1. caller[b] = Idle
        /\ \E h, d : caller' = [caller EXCEPT ![b] = AtCheck(h, d, uptime)]
    BY <1>4, ReadClockShape
  <2>2. QED
    BY <1>1, <1>2, <2>1, Places
<1>5. ASSUME NEW b \in Callers, CheckHint(b) PROVE SentRecently(c)
  <2>1. PICK h \in Hints, d \in BOOLEAN, t \in 1 .. uptime :
          /\ caller[b] = AtCheck(h, d, t)
          /\ Throttled(h, TimeOf(t)) => caller' = [caller EXCEPT ![b] = Idle]
          /\ ~Throttled(h, TimeOf(t)) =>
                caller' = [caller EXCEPT ![b] = AtSend(h, d, t, 1)]
    BY <1>5, CheckHintShape
  <2>2. b = c
    BY <1>1, <1>2, <2>1, Places
  <2>3. Throttled(h, TimeOf(t))
    BY <1>1, <1>2, <2>1, <2>2, Places
  <2>4. QED
    BY <2>1, <2>2, <2>3, ThrottledIsRecent
<1>6. ASSUME NEW b \in Callers, SendRequest(b) PROVE FALSE
  <2>1. PICK h \in Hints, d \in BOOLEAN, t \in 1 .. uptime, i \in Nat \ {0} :
          /\ caller[b] = AtSend(h, d, t, i)
          /\ caller' = [caller EXCEPT ![b] = AtSend(h, d, t, i + 1)]
    BY <1>6, SendRequestShape
  <2>2. QED
    BY <1>1, <1>2, <2>1, Places
<1>7. ASSUME NEW b \in Callers, StoreTime(b) PROVE FALSE
  <2>1. /\ \E h, d, t, i : caller[b] = AtSend(h, d, t, i)
        /\ caller' = [caller EXCEPT ![b] = Idle]
    BY <1>7, StoreTimeShape
  <2>2. QED
    BY <1>1, <1>2, <2>1, Places
<1>8. QED
  BY <1>3, <1>4, <1>5, <1>6, <1>7 DEF Next, CallHint

(* Whatever the order in which callers test and store hint_time, a hint is *)
(* dropped only if one of its kind was sent less than its interval ago     *)
(* (nvpowerhal.cpp:112-114, 205-207).                                      *)
THEOREM DropsAreCovered == ClockFits /\ Spec => DroppedIsCovered
<1> DEFINE Covered == \A c \in Callers : Drops(c) => SentRecently(c)
<1>1. ASSUME ClockFits, Types, Behind, [Next]_vars PROVE [Covered]_vars
  BY <1>1, DropIsRecent
<1>2. CASE ClockFits
  <2>1. Init => Types /\ Behind
    BY <1>2, InitTypes, InitBehind
  <2>2. Types /\ Behind /\ [Next]_vars => Types' /\ Behind'
    BY <1>2, NextTypes, NextBehind
  <2>3. Types /\ Behind /\ [Next]_vars => [Covered]_vars
    BY <1>1, <1>2
  <2>4. QED
    BY <2>1, <2>2, <2>3, PTL DEF Spec, DroppedIsCovered
<1>3. QED
  BY <1>2

-----------------------------------------------------------------------------
(* The boost of interactions. *)

(* An interaction that read the clock at t has had its boost: one is in    *)
(* force for its whole time after t.                                       *)
Boosted(t) ==
    t + BoostTime > uptime =>
        \E f \in DOMAIN inForce :
            /\ IsBoost(inForce[f])
            /\ inForce[f].until \in Nat /\ inForce[f].until >= t + BoostTime

Boosts ==
    /\ latest["INTERACTION"] # 0 => Boosted(latest["INTERACTION"])
    /\ \A c \in Callers : \A d, t, i :
          caller[c] = AtSend("INTERACTION", d, t, i) /\ i # 1 => Boosted(t)

LEMMA BoostTimeType == BoostTime \in Nat \ {0}
BY TimesAssumption DEF Times

LEMMA InitBoosts == Init => Boosts
BY Places DEF Init, Boosts, Hints

(* Steps of a caller that make no request.  One that goes on sending has   *)
(* sent its boost before.                                                  *)
LEMMA CallersKeepBoosts ==
  ASSUME Types, Boosts, NEW c \in Callers, NEW s, UNCHANGED <<uptime, inForce>>,
         caller' = [caller EXCEPT ![c] = s],
         \A d, t, i : s = AtSend("INTERACTION", d, t, i) => i = 1,
         latest'["INTERACTION"] # 0 => Boosted(latest'["INTERACTION"])
  PROVE  Boosts'
<1>1. \A t : Boosted(t)' <=> Boosted(t)
  BY DEF Boosted
<1>2. \A b \in Callers : caller'[b] = IF b = c THEN s ELSE caller[b]
  BY DEF Types
<1>3. latest'["INTERACTION"] # 0 => Boosted(latest["INTERACTION"])'
  BY DEF Boosted
<1>4. ASSUME NEW b \in Callers, NEW d, NEW t, NEW i, i # 1,
             caller'[b] = AtSend("INTERACTION", d, t, i)
      PROVE  Boosted(t)'
  BY <1>1, <1>2, <1>4 DEF Boosts
<1>5. QED
  BY <1>3, <1>4 DEF Boosts

(* A request leaves only when its time is over.                            *)
LEMMA TickBoosts == ASSUME Types, Boosts, Tick PROVE Boosts'
<1>1. /\ uptime \in Nat /\ uptime' = uptime + 1 /\ UNCHANGED <<caller, latest>>
      /\ latest["INTERACTION"] \in Nat
  BY UptimeAssumption DEF Tick, Types, Hints
<1>2. ASSUME NEW t \in Nat, Boosted(t) PROVE Boosted(t)'
  <2> SUFFICES ASSUME t + BoostTime > uptime'
               PROVE  \E f \in DOMAIN inForce' :
                         /\ IsBoost(inForce'[f]) /\ inForce'[f].until \in Nat
                         /\ inForce'[f].until >= t + BoostTime
    BY DEF Boosted, IsBoost
  <2>1. t + BoostTime > uptime
    BY <1>1, BoostTimeType
  <2>2. PICK f \in DOMAIN inForce :
          /\ IsBoost(inForce[f]) /\ inForce[f].until \in Nat
          /\ inForce[f].until >= t + BoostTime
    BY <1>2, <2>1 DEF Boosted
  <2>3. inForce[f].until > uptime'
    BY <1>1, <2>2, BoostTimeType
  <2>4. f \in DOMAIN inForce' /\ inForce'[f] = inForce[f]
    BY <2>3 DEF Tick, Restrict
  <2>5. QED
    BY <2>2, <2>4
<1>3. ASSUME NEW c \in Callers, NEW d, NEW t, NEW i,
             caller[c] = AtSend("INTERACTION", d, t, i)
      PROVE  t \in Nat
  <2>1. PICK h \in Hints, e \in BOOLEAN, u \in 1 .. uptime :
          caller[c] = AtCheck(h, e, u) \/ \E j : caller[c] = AtSend(h, e, u, j)
    BY <1>3, Places DEF Types, CallerOK
  <2>2. caller[c].read = u /\ caller[c].read = t
    BY <1>3, <2>1, Places
  <2>3. QED
    BY <2>2
<1>4. QED
  BY <1>1, <1>2, <1>3 DEF Boosts

(* The boost is the first request of an interaction.                       *)
LEMMA FirstIsBoost ==
  ASSUME NEW d
  PROVE  /\ Len(RequestsOf("INTERACTION", d)) = 5
         /\ RequestsOf("INTERACTION", d)[1].time = BoostTime
BY DEF RequestsOf, Interaction, Boost, Priority

LEMMA SendRequestBoosts ==
  ASSUME Types, Boosts, NEW c \in Callers, SendRequest(c)
  PROVE  Boosts'
<1>1. PICK h \in Hints, d \in BOOLEAN, t \in 1 .. uptime, i \in Nat \ {0} :
        /\ caller[c] = AtSend(h, d, t, i)
        /\ caller' = [caller EXCEPT ![c] = AtSend(h, d, t, i + 1)]
        /\ Adds(h, d, t, i)
  BY SendRequestShape
<1>2. UNCHANGED <<uptime, latest>> /\ uptime \in Nat
  BY SendRequestShape, UptimeAssumption DEF Types
<1>3. PICK f :
        /\ f \notin DOMAIN inForce
        /\ inForce' =
              [g \in DOMAIN inForce \cup {f} |->
                 IF g = f
                 THEN [hint |-> h, number |-> i, read |-> t,
                       until |-> uptime + RequestsOf(h, d)[i].time]
                 ELSE inForce[g]]
  BY <1>1 DEF Adds
<1>4. \A g \in DOMAIN inForce : g \in DOMAIN inForce' /\ inForce'[g] = inForce[g]
  BY <1>3
<1>5. \A u : Boosted(u) => Boosted(u)'
  BY <1>2, <1>4 DEF Boosted, IsBoost
<1>6. h = "INTERACTION" => Boosted(t)'
  <2>1. CASE h = "INTERACTION" /\ i = 1
    <3> DEFINE r == inForce'[f]
    <3>1. /\ f \in DOMAIN inForce' /\ r.hint = h /\ r.number = i
          /\ r.until = uptime + BoostTime
      BY <1>3, <2>1, FirstIsBoost
    <3>2. uptime + BoostTime \in Nat /\ uptime + BoostTime >= t + BoostTime
      BY <1>2, BoostTimeType
    <3>3. QED
      BY <2>1, <3>1, <3>2 DEF Boosted, IsBoost
  <2>2. CASE h = "INTERACTION" /\ i # 1
    BY <1>1, <1>5, <2>2 DEF Boosts
  <2>3. QED
    BY <2>1, <2>2
<1>7. ASSUME NEW b \in Callers, NEW e, NEW u, NEW j, j # 1,
             caller'[b] = AtSend("INTERACTION", e, u, j)
      PROVE  Boosted(u)'
  <2>1. CASE b = c
    <3>1. caller'[c] = AtSend(h, d, t, i + 1)
      BY <1>1 DEF Types
    <3>2. h = "INTERACTION" /\ u = t
      BY <1>7, <2>1, <3>1, Places
    <3>3. QED
      BY <1>6, <3>2
  <2>2. CASE b # c
    <3>1. caller'[b] = caller[b]
      BY <1>1, <2>2 DEF Types
    <3>2. QED
      BY <1>5, <1>7, <3>1 DEF Boosts
  <2>3. QED
    BY <2>1, <2>2
<1>8. latest'["INTERACTION"] # 0 => Boosted(latest["INTERACTION"])'
  BY <1>2, <1>5 DEF Boosts
<1>9. QED
  BY <1>7, <1>8 DEF Boosts

LEMMA StoreTimeBoosts ==
  ASSUME Types, Boosts, NEW c \in Callers, StoreTime(c)
  PROVE  Boosts'
<1>1. PICK h \in Hints, d \in BOOLEAN, t \in 1 .. uptime, i \in Nat \ {0} :
        /\ caller[c] = AtSend(h, d, t, i)
        /\ latest' = [latest EXCEPT ![h] = IF t > @ THEN t ELSE @]
  BY StoreTimeShape
<1>2. caller' = [caller EXCEPT ![c] = Idle] /\ UNCHANGED <<uptime, inForce>>
  BY StoreTimeShape
<1>3. h = "INTERACTION" => i # 1
  <2>1. i > Len(RequestsOf(h, d))
    BY <1>1, Places DEF StoreTime, IsThrough, Todo
  <2>2. QED
    BY <2>1, FirstIsBoost
<1>4. h = "INTERACTION" => Boosted(t)
  BY <1>1, <1>3 DEF Boosts
<1>5. latest'["INTERACTION"] # 0 => Boosted(latest'["INTERACTION"])
  <2>1. \/ latest'["INTERACTION"] = latest["INTERACTION"]
        \/ h = "INTERACTION" /\ latest'["INTERACTION"] = t
    BY <1>1 DEF Types, Hints
  <2>2. QED
    BY <1>4, <2>1 DEF Boosts
<1>6. \A e, u, j : Idle # AtSend("INTERACTION", e, u, j)
  BY Places
<1>7. QED
  BY <1>2, <1>5, <1>6, CallersKeepBoosts

LEMMA NextBoosts == Types /\ Boosts /\ [Next]_vars => Boosts'
<1> SUFFICES ASSUME Types, Boosts, [Next]_vars PROVE Boosts'
  OBVIOUS
<1>1. ASSUME NEW c \in Callers, ReadClock(c) \/ CheckHint(c) PROVE Boosts'
  <2>1. UNCHANGED <<uptime, inForce, latest>>
    BY <1>1 DEF ReadClock, CheckHint
  <2>2. PICK s : /\ caller' = [caller EXCEPT ![c] = s]
                 /\ \/ \E h, d, t : s = AtCheck(h, d, t) \/ s = AtSend(h, d, t, 1)
                    \/ s = Idle
    BY <1>1, ReadClockShape, CheckHintShape
  <2>3. \A d, t, i : s = AtSend("INTERACTION", d, t, i) => i = 1
    BY <2>2, Places
  <2>4. latest'["INTERACTION"] # 0 => Boosted(latest'["INTERACTION"])
    BY <2>1 DEF Boosts
  <2>5. QED
    BY <2>1, <2>2, <2>3, <2>4, CallersKeepBoosts
<1>2. CASE UNCHANGED vars
  BY <1>2 DEF vars, Boosts, Boosted
<1>3. QED
  BY <1>1, <1>2, TickBoosts, SendRequestBoosts, StoreTimeBoosts DEF Next, CallHint

(* The throttle keeps the promise of nvpowerhal.cpp:205-207 for any number *)
(* of threads as long as the 32 bits of the clock do not repeat: with an   *)
(* interval no longer than the boost, an interaction that is dropped finds *)
(* the boost in force.                                                     *)
THEOREM InteractionIsMaintained ==
  ASSUME ClockFits, Zeroed, Interval["INTERACTION"] <= BoostTime
  PROVE  Spec => BoostIsMaintained
<1> DEFINE IsMaintained(c) ==
             Drops(c) /\ caller[c].hint = "INTERACTION" /\ caller[c].read = uptime
               => \E f \in DOMAIN inForce : IsBoost(inForce[f])
           Maintained == \A c \in Callers : IsMaintained(c)
<1>1. ASSUME Types, Behind, Boosts, [Next]_vars PROVE [Maintained]_vars
  <2> SUFFICES ASSUME Next, NEW c \in Callers, Drops(c),
                      caller[c].hint = "INTERACTION", caller[c].read = uptime
               PROVE  \E f \in DOMAIN inForce : IsBoost(inForce[f])
    BY <1>1
  <2> DEFINE last == latest["INTERACTION"]
  <2>1. last # 0 /\ uptime - last < Interval["INTERACTION"]
    BY <1>1, DropIsRecent DEF SentRecently
  <2>2. /\ last \in Nat /\ uptime \in Nat /\ BoostTime \in Nat
        /\ Interval["INTERACTION"] \in Int
    BY <1>1, UptimeAssumption, WidthAssumption, IntervalAssumption, BoostTimeType
       DEF Types, Hints
  <2>3. last + BoostTime > uptime
    BY <2>1, <2>2
  <2>4. QED
    BY <1>1, <2>1, <2>3 DEF Boosts, Boosted
<1>2. Init => Types /\ Behind /\ Boosts
  BY InitTypes, InitBehind, InitBoosts
<1>3. Types /\ Behind /\ Boosts /\ [Next]_vars => Types' /\ Behind' /\ Boosts'
  BY NextTypes, NextBehind, NextBoosts
<1>4. Types /\ Behind /\ Boosts /\ [Next]_vars => [Maintained]_vars
  BY <1>1
<1>5. QED
  BY <1>2, <1>3, <1>4, PTL DEF Spec, BoostIsMaintained

-----------------------------------------------------------------------------
(* The commands. *)

(* A number of 32 bits has one digit to ten. *)
LEMMA DigitsBound ==
  ASSUME NEW n
  PROVE  Digits(n) \in 1 .. 10
<1> DEFINE D == {i \in 1 .. 9 : Power[i] <= n}
<1>1. IsFiniteSet(1 .. 9) /\ Cardinality(1 .. 9) = 9
  <2>1. 1 \in Int /\ 9 \in Int /\ ~(1 > 9) /\ 9 - 1 + 1 = 9
    OBVIOUS
  <2>2. QED
    BY <2>1, FS_Interval
<1>2. D \in SUBSET (1 .. 9)
  OBVIOUS
<1> HIDE DEF D
<1>3. IsFiniteSet(D) /\ Cardinality(D) <= 9
  BY <1>1, <1>2, FS_Subset
<1>4. Cardinality(D) \in Nat
  BY <1>3, FS_CardinalityType
<1>5. QED
  BY <1>3, <1>4 DEF Digits, D

LEMMA LengthBound ==
  ASSUME NEW n
  PROVE  Length(n) \in 1 .. 11
<1>1. Digits(n) \in 1 .. 10 /\ Digits(-n) \in 1 .. 10
  BY DigitsBound
<1>2. QED
  BY <1>1 DEF Length

(* The numbers that are the same in every command. *)
LEMMA FixedLengths ==
  /\ Length(PM_QOS_DEFAULT_VALUE) = 2
  /\ Length(PM_QOS_BOOST_PRIORITY) = 2
  /\ Length(0) = 1
<1>1. \A i \in 1 .. 9 : /\ Power[i] \in Nat /\ Power[i] > 1
                        /\ Power[i] <= 35 <=> i = 1
  BY DEF Power
<1>2. {i \in 1 .. 9 : Power[i] <= 0} = {}
  BY <1>1
<1>3. {i \in 1 .. 9 : Power[i] <= 1} = {}
  BY <1>1
<1>4. {i \in 1 .. 9 : Power[i] <= 35} = {1}
  BY <1>1
<1>5. Digits(0) = 1 /\ Digits(1) = 1 /\ Digits(35) = 2
  <2>1. Cardinality({}) = 0 /\ Cardinality({1}) = 1
    BY FS_EmptySet, FS_Singleton
  <2>2. /\ Digits(0) = 1 + Cardinality({})
        /\ Digits(1) = 1 + Cardinality({})
        /\ Digits(35) = 1 + Cardinality({1})
    BY <1>2, <1>3, <1>4, Zenon DEF Digits
  <2>3. QED
    BY <2>1, <2>2
<1>6. QED
  BY <1>5 DEF Length, PM_QOS_DEFAULT_VALUE, PM_QOS_BOOST_PRIORITY

(* The requests of the hints. *)
Values == {InteractionFreq, AnimationFreq, 2, 180000, INT_MAX, 396000, 792000,
           512000, 1020000, 1}
Nodes == {"constraint_cpu_freq", "constraint_online_cpus",
          "constraint_gpu_freq", "emc_freq_min", "cpu_freq_max",
          "max_online_cpus"}
Requests ==
    {Boost(n, v, t) : n \in Nodes, v \in Values, t \in Times} \cup
    {Default(n, v, t) : n \in Nodes, v \in Values, t \in Times}

LEMMA RequestsFit ==
  ASSUME NEW r \in Requests, r.interface = "priority"
  PROVE  CommandLength(r) < COMMAND_SIZE
<1>1. PICK n, v, t : r = Boost(n, v, t)
  BY DEF Requests, Default
<1>2. /\ r.max = PM_QOS_DEFAULT_VALUE
      /\ r.min = v
      /\ r.priority = PM_QOS_BOOST_PRIORITY
  BY <1>1 DEF Boost, Priority
<1>3. CommandLength(r) = 2 + Length(v) + 2 + 1 + 3
  BY <1>2, FixedLengths DEF CommandLength
<1>4. QED
  BY <1>3, LengthBound DEF COMMAND_SIZE

LEMMA TupleTypes ==
  ASSUME NEW S, NEW a \in S, NEW b \in S, NEW c \in S, NEW d \in S, NEW e \in S
  PROVE  /\ <<a>> \in Seq(S) /\ <<a, b>> \in Seq(S)
         /\ <<a, b, c, d>> \in Seq(S) /\ <<a, b, c, d, e>> \in Seq(S)
OBVIOUS

LEMMA RequestsType ==
  ASSUME NEW h, NEW d
  PROVE  RequestsOf(h, d) \in Seq(Requests)
<1>1. ASSUME NEW n \in Nodes, NEW v \in Values, NEW t \in Times
      PROVE  Boost(n, v, t) \in Requests /\ Default(n, v, t) \in Requests
  BY DEF Requests
<1>2. /\ {BoostTime, AnimationTime, CpuBoostTime, AudioTime, LowPowerTime}
            \subseteq Times
      /\ {InteractionFreq, AnimationFreq, 2, 180000, INT_MAX, 396000, 792000,
          512000, 1020000, 1} \subseteq Values
  BY DEF Times, Values
<1>3. Interaction \in Seq(Requests)
  <2>1. /\ Boost("constraint_cpu_freq", InteractionFreq, BoostTime) \in Requests
        /\ Boost("constraint_online_cpus", 2, AnimationTime) \in Requests
        /\ Boost("constraint_cpu_freq", AnimationFreq, AnimationTime)
              \in Requests
        /\ Boost("constraint_gpu_freq", 180000, AnimationTime) \in Requests
        /\ Default("emc_freq_min", 396000, AnimationTime) \in Requests
    BY <1>1, <1>2, SMT DEF Nodes
  <2>2. QED
    BY <2>1, TupleTypes, SMT DEF Interaction
<1>4. CpuBoost \in Seq(Requests)
  <2>1. /\ Boost("constraint_cpu_freq", INT_MAX, CpuBoostTime) \in Requests
        /\ Boost("constraint_online_cpus", 2, CpuBoostTime) \in Requests
        /\ Boost("constraint_gpu_freq", 180000, CpuBoostTime) \in Requests
        /\ Default("emc_freq_min", 792000, CpuBoostTime) \in Requests
    BY <1>1, <1>2, SMT DEF Nodes
  <2>2. QED
    BY <2>1, TupleTypes, SMT DEF CpuBoost
<1>5. Audio \in Seq(Requests)
  <2>1. Boost("constraint_cpu_freq", 512000, AudioTime) \in Requests
    BY <1>1, <1>2, SMT DEF Nodes
  <2>2. QED
    BY <2>1, TupleTypes, SMT DEF Audio
<1>6. LowPower(d) \in Seq(Requests)
  <2>1. ASSUME NEW n \in Nodes, NEW v \in Values
        PROVE  Boost(n, IF d THEN v ELSE INT_MAX, LowPowerTime) \in Requests
    BY <1>1, <1>2, SMT DEF Nodes
  <2>2. /\ Boost("cpu_freq_max", IF d THEN 1020000 ELSE INT_MAX, LowPowerTime)
              \in Requests
        /\ Boost("max_online_cpus", IF d THEN 1 ELSE INT_MAX, LowPowerTime)
              \in Requests
    BY <1>2, <2>1, SMT DEF Nodes
  <2>3. QED
    BY <2>2, TupleTypes, SMT DEF LowPower
<1>7. << >> \in Seq(Requests)
  OBVIOUS
<1>8. QED
  BY <1>3, <1>4, <1>5, <1>6, <1>7 DEF RequestsOf

(* The command of every request that has priorities fits its buffer,       *)
(* whatever frequencies sysfs has listed (timeoutpoker.cpp:74-75, 295).    *)
THEOREM CommandsAreWhole == Spec => []CommandFits
<1>1. Types => CommandFits
  <2> SUFFICES ASSUME Types, NEW c \in Callers, caller[c].at = "send",
                      NEW i \in caller[c].next .. Len(Todo(c)),
                      Todo(c)[i].interface = "priority"
               PROVE  CommandLength(Todo(c)[i]) < COMMAND_SIZE
    BY DEF CommandFits
  <2>1. caller[c].next \in Nat \ {0}
    BY Places DEF Types, CallerOK
  <2>2. Todo(c) \in Seq(Requests)
    BY RequestsType DEF Todo
  <2>3. i \in 1 .. Len(Todo(c))
    BY <2>1, <2>2
  <2>4. Todo(c)[i] \in Requests
    BY <2>2, <2>3
  <2>5. QED
    BY <2>4, RequestsFit
<1>2. QED
  BY <1>1, InitTypes, NextTypes, PTL DEF Spec

-----------------------------------------------------------------------------
(* Descriptors. *)

Time(h, i) == RequestsOf(h, FALSE)[i].time

(* When a request was made. *)
Begun(r) == r.until - Time(r.hint, r.number)

(* Two clock readings of hints of a kind that were both sent. *)
Apart(h, t, u) == u - t >= Interval[h] \/ (t < Half /\ Half <= u)

RequestOK(r, now) ==
    /\ r.hint \in Hints
    /\ r.number \in DOMAIN RequestsOf(r.hint, FALSE)
    /\ r.read \in 1 .. now
    /\ r.until \in Nat /\ r.until > now
    /\ Begun(r) <= now

InForceOK ==
    /\ IsFiniteSet(DOMAIN inForce)
    /\ \A f \in DOMAIN inForce : RequestOK(inForce[f], uptime)

(* A hint is sent in time: it is the only one, none of its kind was read   *)
(* later and it is apart from the latest.                                  *)
InTime(s) ==
    s # Idle =>
        /\ \A h \in Hints : latest[h] <= s.read
        /\ s.at = "send" /\ Interval[s.hint] > 0 /\ latest[s.hint] # 0 =>
              Apart(s.hint, latest[s.hint], s.read)

(* A request in force is of a hint that was sent, and was made before the  *)
(* clock was read for the next one; or it is of the hint being sent.       *)
IsPast(r, s) == r.read <= latest[r.hint] /\ (s # Idle => Begun(r) <= s.read)
IsCurrent(r, s) ==
    s.at = "send" /\ s.hint = r.hint /\ s.read = r.read /\ r.number < s.next

(* Requests of the same number are of hints apart, and the later was read  *)
(* when the earlier was made.                                              *)
After(q, r) == Begun(q) <= r.read /\ Apart(q.hint, q.read, r.read)
InOrder(q, r) ==
    q.hint = r.hint /\ q.number = r.number /\ Interval[q.hint] > 0 =>
        /\ q.read # r.read
        /\ q.read < r.read => After(q, r)
        /\ r.read < q.read => After(r, q)

OneCaller ==
    /\ InForceOK
    /\ \A h \in Hints : latest[h] # 0 => hint_time[h] = TimeOf(latest[h])
    /\ \A c \in Callers :
          /\ InTime(caller[c])
          /\ \A f \in DOMAIN inForce :
                IsPast(inForce[f], caller[c]) \/ IsCurrent(inForce[f], caller[c])
    /\ \A f, g \in DOMAIN inForce : f # g => InOrder(inForce[f], inForce[g])

LEMMA Elements ==
  ASSUME NEW S, NEW s \in Seq(S)
  PROVE  /\ DOMAIN s = 1 .. Len(s)
         /\ \A i \in 1 .. Len(s) : s[i] \in S
OBVIOUS

LEMMA Lengths ==
  ASSUME NEW S, NEW s \in Seq(S)
  PROVE  Len(s) \in Nat
OBVIOUS

(* What came with a hint changes the values its requests ask for, neither  *)
(* their number nor their times.                                           *)
LEMMA RequestsAlike ==
  ASSUME NEW h, NEW d \in BOOLEAN
  PROVE  /\ DOMAIN RequestsOf(h, FALSE) = 1 .. Len(RequestsOf(h, FALSE))
         /\ Len(RequestsOf(h, d)) = Len(RequestsOf(h, FALSE))
         /\ \A i \in 1 .. Len(RequestsOf(h, FALSE)) :
               /\ RequestsOf(h, d)[i].time = Time(h, i)
               /\ Time(h, i) \in Nat \ {0}
<1>1. RequestsOf(h, FALSE) \in Seq(Requests)
  BY RequestsType
<1>2. \A r \in Requests : r.time \in Nat \ {0}
  <2>1. \A n, v, t : Boost(n, v, t).time = t /\ Default(n, v, t).time = t
    BY DEF Boost, Default, Priority
  <2>2. QED
    BY <2>1, TimesAssumption DEF Requests
<1>3. /\ Len(RequestsOf(h, d)) = Len(RequestsOf(h, FALSE))
      /\ \A i \in 1 .. Len(RequestsOf(h, FALSE)) :
            RequestsOf(h, d)[i].time = RequestsOf(h, FALSE)[i].time
  <2>1. CASE h = "LOW_POWER"
    <3>1. ASSUME NEW e \in BOOLEAN
          PROVE  /\ Len(RequestsOf(h, e)) = 2
                 /\ RequestsOf(h, e)[1].time = LowPowerTime
                 /\ RequestsOf(h, e)[2].time = LowPowerTime
      BY <2>1 DEF RequestsOf, LowPower, Boost, Priority
    <3>2. /\ Len(RequestsOf(h, FALSE)) = 2
          /\ RequestsOf(h, FALSE)[1].time = LowPowerTime
          /\ RequestsOf(h, FALSE)[2].time = LowPowerTime
      BY <2>1 DEF RequestsOf, LowPower, Boost, Priority
    <3>3. \A i \in 1 .. 2 : i = 1 \/ i = 2
      OBVIOUS
    <3>4. QED
      BY <3>1, <3>2, <3>3
  <2>2. CASE h # "LOW_POWER"
    BY <2>2 DEF RequestsOf
  <2>3. QED
    BY <2>1, <2>2
<1>4. /\ DOMAIN RequestsOf(h, FALSE) = 1 .. Len(RequestsOf(h, FALSE))
      /\ \A i \in 1 .. Len(RequestsOf(h, FALSE)) :
            RequestsOf(h, FALSE)[i] \in Requests
  BY <1>1, Elements
<1>5. QED
  BY <1>2, <1>3, <1>4 DEF Time

LEMMA RequestTypes ==
  ASSUME NEW r, NEW now, RequestOK(r, now)
  PROVE  /\ r.hint \in Hints /\ r.read \in Nat \ {0}
         /\ r.number \in Nat \ {0}
         /\ r.number \in 1 .. Len(RequestsOf(r.hint, FALSE))
         /\ Time(r.hint, r.number) \in Nat \ {0}
         /\ Begun(r) \in Int
<1>1. r.hint \in Hints /\ r.read \in 1 .. now
  BY DEF RequestOK
<1> DEFINE h == r.hint
           n == Len(RequestsOf(h, FALSE))
<1>2. DOMAIN RequestsOf(h, FALSE) = 1 .. n /\ \A i \in 1 .. n : Time(h, i) \in Nat \ {0}
  BY RequestsAlike
<1>3. r.number \in DOMAIN RequestsOf(h, FALSE) /\ r.until \in Nat
  BY DEF RequestOK
<1> HIDE DEF n
<1>4. r.number \in 1 .. n /\ Time(h, r.number) \in Nat \ {0}
  BY <1>2, <1>3
<1>5. r.number \in Nat \ {0} /\ r.read \in Nat \ {0}
  BY <1>1, <1>4
<1>6. Begun(r) \in Int
  BY <1>3, <1>4 DEF Begun
<1>7. QED
  BY <1>1, <1>4, <1>5, <1>6 DEF n

LEMMA InForceTypes ==
  ASSUME OneCaller, NEW f \in DOMAIN inForce
  PROVE  /\ RequestOK(inForce[f], uptime)
         /\ inForce[f].hint \in Hints
         /\ inForce[f].read \in Nat \ {0}
         /\ inForce[f].number \in Nat \ {0}
         /\ Time(inForce[f].hint, inForce[f].number) \in Nat \ {0}
         /\ Begun(inForce[f]) \in Int
<1>1. RequestOK(inForce[f], uptime)
  BY DEF OneCaller, InForceOK
<1>2. QED
  BY <1>1, RequestTypes

LEMMA InitOneCaller == Init => OneCaller
<1> SUFFICES ASSUME Init PROVE OneCaller
  OBVIOUS
<1>1. DOMAIN inForce = {} /\ IsFiniteSet({})
  BY FS_EmptySet DEF Init
<1>2. InForceOK
  BY <1>1 DEF InForceOK
<1>3. \A h \in Hints : latest[h] = 0
  BY DEF Init
<1>4. \A c \in Callers : InTime(caller[c])
  BY DEF Init, InTime
<1>5. QED
  BY <1>1, <1>2, <1>3, <1>4 DEF OneCaller

(* Time passes. *)
LEMMA TickOneCaller ==
  ASSUME Types, OneCaller, Tick
  PROVE  OneCaller'
<1>1. /\ DOMAIN inForce' \subseteq DOMAIN inForce
      /\ \A f \in DOMAIN inForce' :
            inForce'[f] = inForce[f] /\ inForce'[f].until > uptime'
  BY DEF Tick, Restrict
<1>2. UNCHANGED <<hint_time, caller, latest>> /\ uptime' = uptime + 1
  BY DEF Tick
<1>3. InForceOK'
  <2>1. IsFiniteSet(DOMAIN inForce')
    BY <1>1, FS_Subset DEF OneCaller, InForceOK
  <2>2. ASSUME NEW f \in DOMAIN inForce' PROVE RequestOK(inForce'[f], uptime')
    <3>1. RequestOK(inForce[f], uptime) /\ inForce[f].until > uptime'
      BY <1>1 DEF OneCaller, InForceOK
    <3>2. Begun(inForce[f]) \in Int /\ Begun(inForce[f]) <= uptime
      BY <3>1, RequestTypes DEF RequestOK
    <3>3. \A u \in 1 .. uptime : u \in 1 .. uptime'
      BY <1>2 DEF Types
    <3>4. Begun(inForce[f]) <= uptime'
      BY <1>2, <3>2 DEF Types
    <3>5. QED
      BY <1>1, <3>1, <3>3, <3>4 DEF RequestOK
  <2>3. QED
    BY <2>1, <2>2 DEF InForceOK
<1>4. \A c \in Callers : InTime(caller[c])'
  BY <1>2 DEF OneCaller, InTime
<1>5. \A c \in Callers : \A f \in DOMAIN inForce' :
         IsPast(inForce[f], caller[c])' \/ IsCurrent(inForce[f], caller[c])'
  BY <1>1, <1>2 DEF OneCaller, IsPast, IsCurrent
<1>6. QED
  BY <1>1, <1>2, <1>3, <1>4, <1>5 DEF OneCaller

(* A caller that starts, is throttled or has sent its hint.                *)
LEMMA CallerOneCaller ==
  ASSUME Types, OneCaller, NEW c, Callers = {c}, NEW s, InTime(s),
         caller' = [caller EXCEPT ![c] = s],
         UNCHANGED <<uptime, hint_time, inForce, latest>>,
         \A f \in DOMAIN inForce : IsPast(inForce[f], s) \/ IsCurrent(inForce[f], s)
  PROVE  OneCaller'
<1>1. c \in DOMAIN caller /\ \A b \in Callers : b = c
  BY DEF Types
<1>2. caller'[c] = s
  BY <1>1
<1>3. InForceOK'
  BY DEF OneCaller, InForceOK
<1>4. InTime(s)' /\ \A f \in DOMAIN inForce :
         IsPast(inForce[f], s)' \/ IsCurrent(inForce[f], s)'
  BY DEF InTime, IsPast, IsCurrent
<1>5. QED
  BY <1>1, <1>2, <1>3, <1>4 DEF OneCaller

LEMMA ReadClockOneCaller ==
  ASSUME Types, OneCaller, NEW c, Callers = {c}, ReadClock(c)
  PROVE  OneCaller'
<1>1. PICK h \in Hints, d \in BOOLEAN :
        /\ caller[c] = Idle
        /\ caller' = [caller EXCEPT ![c] = AtCheck(h, d, uptime)]
        /\ UNCHANGED <<uptime, hint_time, inForce, latest>>
  BY ReadClockShape
<1> DEFINE s == AtCheck(h, d, uptime)
<1>2. s.at = "check" /\ s.read = uptime
  BY Places
<1>3. InTime(s)
  <2>1. \A g \in Hints : latest[g] <= uptime
    BY DEF Types
  <2>2. QED
    BY <1>2, <2>1 DEF InTime
<1>4. ASSUME NEW f \in DOMAIN inForce PROVE IsPast(inForce[f], s)
  <2>1. IsPast(inForce[f], Idle)
    BY <1>1, Places DEF OneCaller, IsCurrent
  <2>2. Begun(inForce[f]) <= uptime
    BY DEF OneCaller, InForceOK, RequestOK
  <2>3. QED
    BY <1>2, <2>1, <2>2 DEF IsPast
<1> HIDE DEF s
<1>5. QED
  BY <1>1, <1>3, <1>4, CallerOneCaller DEF s

LEMMA CheckHintOneCaller ==
  ASSUME ClockFits, Types, OneCaller, NEW c, Callers = {c}, CheckHint(c)
  PROVE  OneCaller'
<1>1. PICK h \in Hints, d \in BOOLEAN, t \in 1 .. uptime :
        /\ caller[c] = AtCheck(h, d, t)
        /\ Throttled(h, TimeOf(t)) => caller' = [caller EXCEPT ![c] = Idle]
        /\ ~Throttled(h, TimeOf(t)) =>
              caller' = [caller EXCEPT ![c] = AtSend(h, d, t, 1)]
        /\ UNCHANGED <<uptime, hint_time, inForce, latest>>
  BY CheckHintShape
<1>2. /\ caller[c].at = "check" /\ caller[c].read = t
      /\ caller[c] # Idle
  BY <1>1, Places
<1>3. \A g \in Hints : latest[g] <= t
  BY <1>2 DEF OneCaller, InTime
<1>4. \A f \in DOMAIN inForce : IsPast(inForce[f], caller[c])
  BY <1>2 DEF OneCaller, IsCurrent
<1>5. CASE Throttled(h, TimeOf(t))
  <2>1. InTime(Idle) /\ \A f \in DOMAIN inForce : IsPast(inForce[f], Idle)
    BY <1>4 DEF InTime, IsPast
  <2>2. QED
    BY <1>1, <1>5, <2>1, CallerOneCaller
<1>6. CASE ~Throttled(h, TimeOf(t))
  <2> DEFINE s == AtSend(h, d, t, 1)
  <2>1. s.at = "send" /\ s.hint = h /\ s.read = t /\ s # Idle
    BY Places
  <2>2. \A f \in DOMAIN inForce : IsPast(inForce[f], s)
    BY <1>2, <1>4, <2>1 DEF IsPast
  <2>3. ASSUME Interval[h] > 0, latest[h] # 0 PROVE Apart(h, latest[h], t)
    <3>1. /\ latest[h] \in 0 .. MaxUptime /\ t \in 0 .. MaxUptime
          /\ latest[h] <= t /\ latest[h] \in Nat /\ t \in Nat
      BY <1>3, UptimeAssumption DEF Types
    <3>2. hint_time[h] = TimeOf(latest[h]) /\ TimeOf(latest[h]) # 0
      BY <2>3, <3>1, Readings DEF OneCaller
    <3>3. ~((TimeOf(t) - TimeOf(latest[h])) % Wide < Interval[h])
      BY <1>6, <2>3, <3>2 DEF Throttled
    <3>4. (TimeOf(t) - TimeOf(latest[h])) % Wide =
             IF latest[h] < Half /\ Half <= t
             THEN t - latest[h] + (Wide - Narrow) ELSE t - latest[h]
      BY <3>1, Differences
    <3>5. Interval[h] \in Nat
      BY WidthAssumption, IntervalAssumption
    <3>6. QED
      BY <3>1, <3>3, <3>4, <3>5 DEF Apart
  <2>4. InTime(s)
    BY <1>3, <2>1, <2>3 DEF InTime
  <2> HIDE DEF s
  <2>5. QED
    BY <1>1, <1>6, <2>2, <2>4, CallerOneCaller DEF s
<1>7. QED
  BY <1>5, <1>6

LEMMA StoreTimeOneCaller ==
  ASSUME Types, OneCaller, NEW c, Callers = {c}, StoreTime(c)
  PROVE  OneCaller'
<1>1. PICK h \in Hints, d \in BOOLEAN, t \in 1 .. uptime, i \in Nat \ {0} :
        /\ caller[c] = AtSend(h, d, t, i)
        /\ hint_time' = [hint_time EXCEPT ![h] = TimeOf(t)]
        /\ latest' = [latest EXCEPT ![h] = IF t > @ THEN t ELSE @]
        /\ caller' = [caller EXCEPT ![c] = Idle]
        /\ UNCHANGED <<uptime, inForce>>
  BY StoreTimeShape
<1>2. /\ caller[c].hint = h /\ caller[c].read = t
      /\ caller[c] # Idle
  BY <1>1, Places
<1>3. /\ DOMAIN caller = {c} /\ DOMAIN hint_time = Hints /\ DOMAIN latest = Hints
      /\ latest[h] \in Nat /\ t \in Nat /\ latest[h] <= t
  BY <1>2 DEF Types, OneCaller, InTime
<1>4. /\ caller'[c] = Idle
      /\ latest'[h] = t /\ hint_time'[h] = TimeOf(t)
      /\ \A g \in Hints \ {h} :
            latest'[g] = latest[g] /\ hint_time'[g] = hint_time[g]
  BY <1>1, <1>3
<1>5. InForceOK'
  BY <1>1 DEF OneCaller, InForceOK
<1>6. \A g \in Hints : latest'[g] # 0 => hint_time'[g] = TimeOf(latest'[g])
  BY <1>4 DEF OneCaller
<1>7. InTime(caller[c])'
  BY <1>4 DEF InTime
<1>8. ASSUME NEW f \in DOMAIN inForce PROVE IsPast(inForce[f], caller[c])'
  <2>1. inForce[f].hint \in Hints /\ inForce[f].read \in Nat
    BY InForceTypes
  <2>2. IsPast(inForce[f], caller[c]) \/ IsCurrent(inForce[f], caller[c])
    BY DEF OneCaller
  <2>3. inForce[f].read <= latest'[inForce[f].hint]
    BY <1>2, <1>3, <1>4, <2>1, <2>2 DEF IsPast, IsCurrent
  <2>4. QED
    BY <1>1, <1>4, <2>3 DEF IsPast
<1>9. QED
  BY <1>1, <1>5, <1>6, <1>7, <1>8 DEF OneCaller

LEMMA OrderIsSymmetric ==
  ASSUME NEW q, NEW r, InOrder(q, r)
  PROVE  InOrder(r, q)
BY DEF InOrder

(* The request that is added is apart from those in force.                 *)
LEMMA AddedIsApart ==
  ASSUME Types, OneCaller, NEW c \in Callers,
         NEW h \in Hints, NEW d, NEW t \in 1 .. uptime, NEW i \in Nat,
         caller[c] = AtSend(h, d, t, i),
         NEW f \in DOMAIN inForce,
         inForce[f].hint = h, inForce[f].number = i, Interval[h] > 0
  PROVE  inForce[f].read < t /\ Begun(inForce[f]) <= t
         /\ Apart(h, inForce[f].read, t)
<1>1. /\ caller[c].hint = h /\ caller[c].next = i /\ caller[c].read = t
      /\ caller[c].at = "send" /\ caller[c] # Idle
  BY Places
<1>2. ~IsCurrent(inForce[f], caller[c])
  BY <1>1 DEF IsCurrent
<1>3. inForce[f].read <= latest[h] /\ Begun(inForce[f]) <= t
  BY <1>1, <1>2 DEF OneCaller, IsPast
<1>4. /\ inForce[f].read \in Nat \ {0} /\ latest[h] \in Nat /\ t \in Nat
      /\ Interval[h] \in Nat /\ Half \in Int
  BY WidthAssumption, IntervalAssumption, InForceTypes DEF Types, Half
<1>5. latest[h] # 0
  BY <1>3, <1>4
<1>6. Apart(h, latest[h], t)
  BY <1>1, <1>5 DEF OneCaller, InTime
<1>7. QED
  BY <1>3, <1>4, <1>6 DEF Apart

LEMMA SendRequestOneCaller ==
  ASSUME Types, OneCaller, NEW c, Callers = {c}, SendRequest(c)
  PROVE  OneCaller'
<1>1. PICK h \in Hints, d \in BOOLEAN, t \in 1 .. uptime, i \in Nat \ {0} :
        /\ caller[c] = AtSend(h, d, t, i)
        /\ ~(i > Len(RequestsOf(h, d)))
        /\ caller' = [caller EXCEPT ![c] = AtSend(h, d, t, i + 1)]
        /\ Adds(h, d, t, i)
        /\ UNCHANGED <<uptime, hint_time, latest>>
  BY SendRequestShape
<1> DEFINE r == [hint |-> h, number |-> i, read |-> t,
                 until |-> uptime + RequestsOf(h, d)[i].time]
           s == AtSend(h, d, t, i + 1)
<1>2. PICK n : /\ n \notin DOMAIN inForce
               /\ inForce' = [g \in DOMAIN inForce \cup {n} |->
                                 IF g = n THEN r ELSE inForce[g]]
  BY <1>1 DEF Adds
<1>3. /\ caller[c].at = "send" /\ caller[c].hint = h /\ caller[c].read = t
      /\ caller[c].next = i /\ caller[c] # Idle
      /\ s.at = "send" /\ s.hint = h /\ s.read = t /\ s.next = i + 1 /\ s # Idle
  BY <1>1, Places
<1>4. /\ r.hint = h /\ r.number = i /\ r.read = t
      /\ r.until = uptime + RequestsOf(h, d)[i].time
  OBVIOUS
<1> HIDE DEF r, s
<1>5. caller'[c] = s
  BY <1>1 DEF Types, s
<1>6. /\ DOMAIN inForce' = DOMAIN inForce \cup {n}
      /\ inForce'[n] = r
      /\ \A g \in DOMAIN inForce : g # n /\ inForce'[g] = inForce[g]
  BY <1>2
<1>7. InForceOK'
  <2>1. IsFiniteSet(DOMAIN inForce')
    BY <1>6, FS_AddElement DEF OneCaller, InForceOK
  <2>2. RequestOK(r, uptime)
    <3> DEFINE m == Len(RequestsOf(h, FALSE))
    <3>1. /\ DOMAIN RequestsOf(h, FALSE) = 1 .. m
          /\ Len(RequestsOf(h, d)) = m
          /\ \A j \in 1 .. m : /\ RequestsOf(h, d)[j].time = Time(h, j)
                               /\ Time(h, j) \in Nat \ {0}
      BY RequestsAlike
    <3>2. m \in Nat
      BY RequestsType, Lengths
    <3> HIDE DEF m
    <3>3. ~(i > m)
      BY <1>1, <3>1
    <3>4. i \in 1 .. m
      BY <3>2, <3>3
    <3>5. /\ i \in DOMAIN RequestsOf(h, FALSE)
          /\ RequestsOf(h, d)[i].time = Time(h, i) /\ Time(h, i) \in Nat \ {0}
      BY <3>1, <3>4
    <3>6. uptime \in Nat
      BY DEF Types
    <3>7. r.until \in Nat /\ r.until > uptime /\ Begun(r) = uptime
      BY <1>4, <3>5, <3>6 DEF Begun
    <3>8. t \in 1 .. uptime /\ Begun(r) <= uptime
      BY <3>6, <3>7
    <3>9. QED
      BY <1>4, <3>5, <3>7, <3>8 DEF RequestOK
  <2>3. QED
    BY <1>1, <1>6, <2>1, <2>2 DEF OneCaller, InForceOK
<1>8. InTime(caller[c])'
  <2>1. InTime(s)
    BY <1>3 DEF OneCaller, InTime
  <2>2. QED
    BY <1>1, <1>5, <2>1 DEF InTime
<1>9. ASSUME NEW f \in DOMAIN inForce'
      PROVE  (IsPast(inForce[f], caller[c]) \/ IsCurrent(inForce[f], caller[c]))'
  <2>1. CASE f = n
    <3>1. IsCurrent(r, s)
      BY <1>3, <1>4 DEF IsCurrent
    <3>2. QED
      BY <1>5, <1>6, <2>1, <3>1 DEF IsCurrent
  <2>2. CASE f \in DOMAIN inForce
    <3>1. IsPast(inForce[f], caller[c]) \/ IsCurrent(inForce[f], caller[c])
      BY <2>2 DEF OneCaller
    <3>2. inForce[f].number \in Nat
      BY <2>2, InForceTypes
    <3>3. IsPast(inForce[f], s) \/ IsCurrent(inForce[f], s)
      BY <1>3, <3>1, <3>2 DEF IsPast, IsCurrent
    <3>4. /\ inForce'[f] = inForce[f] /\ latest' = latest
          /\ caller'[c] = s
      BY <1>1, <1>5, <1>6, <2>2
    <3>5. CASE IsPast(inForce[f], s)
      BY <3>4, <3>5 DEF IsPast, Begun
    <3>6. CASE IsCurrent(inForce[f], s)
      BY <3>4, <3>6 DEF IsCurrent
    <3>7. QED
      BY <3>3, <3>5, <3>6
  <2>3. QED
    BY <1>6, <2>1, <2>2
<1>10. ASSUME NEW f \in DOMAIN inForce PROVE InOrder(inForce[f], r)
  <2> SUFFICES ASSUME inForce[f].hint = h, inForce[f].number = i, Interval[h] > 0
               PROVE  inForce[f].read < t /\ After(inForce[f], r)
    <3>1. inForce[f].read \in Nat /\ t \in Nat
      BY InForceTypes
    <3>2. QED
      BY <1>4, <3>1 DEF InOrder
  <2>1. QED
    BY <1>1, <1>4, AddedIsApart DEF After
<1>11. ASSUME NEW f \in DOMAIN inForce', NEW g \in DOMAIN inForce', f # g
       PROVE  InOrder(inForce'[f], inForce'[g])
  <2>1. CASE f = n
    BY <1>6, <1>10, <1>11, <2>1, OrderIsSymmetric
  <2>2. CASE g = n
    BY <1>6, <1>10, <1>11, <2>2
  <2>3. CASE f # n /\ g # n
    BY <1>6, <1>11, <2>3 DEF OneCaller
  <2>4. QED
    BY <2>1, <2>2, <2>3
<1>12. \A g \in Hints : latest'[g] # 0 => hint_time'[g] = TimeOf(latest'[g])
  BY <1>1 DEF OneCaller
<1>13. QED
  BY <1>7, <1>8, <1>9, <1>11, <1>12 DEF OneCaller

LEMMA NextOneCaller ==
  ASSUME ClockFits, NEW c, Callers = {c}, Types, OneCaller, [Next]_vars
  PROVE  OneCaller'
<1>1. CASE Tick
  BY <1>1, TickOneCaller
<1>2. ASSUME NEW b \in Callers, CallHint(b) PROVE OneCaller'
  BY <1>2, ReadClockOneCaller, CheckHintOneCaller, SendRequestOneCaller,
     StoreTimeOneCaller DEF CallHint
<1>3. CASE UNCHANGED vars
  BY <1>3 DEF vars, OneCaller, InForceOK, InTime, IsPast, IsCurrent
<1>4. QED
  BY <1>1, <1>2, <1>3 DEF Next

-----------------------------------------------------------------------------
(* How many descriptors. *)

LEMMA DivBounds ==
  ASSUME NEW a \in Int, NEW b \in Nat \ {0}
  PROVE  /\ a \div b \in Int
         /\ b * (a \div b) <= a
         /\ a < b * (a \div b) + b
BY SMT

LEMMA DivApart ==
  ASSUME NEW b \in Nat \ {0}, NEW x \in Int, NEW y \in Int, x <= y
  PROVE  /\ x \div b <= y \div b
         /\ y - x >= b => x \div b < y \div b
<1> DEFINE p == x \div b
           q == y \div b
<1>1. p \in Int /\ q \in Int /\ b * p <= x /\ y < b * q + b
  BY DivBounds
<1> HIDE DEF p, q
<1>2. b * p < b * (q + 1)
  BY <1>1
<1>3. p < q + 1
  BY <1>1, <1>2
<1>4. ASSUME y - x >= b PROVE p < q
  <2>1. b * (p + 1) < b * (q + 1)
    BY <1>1, <1>4
  <2>2. QED
    BY <1>1, <2>1
<1>5. QED
  BY <1>1, <1>3, <1>4 DEF p, q

LEMMA DivInside ==
  ASSUME NEW b \in Nat \ {0}, NEW n \in Nat \ {0}, NEW x \in 0 .. n - 1
  PROVE  x \div b \in 0 .. Ceil(n, b) - 1 /\ Ceil(n, b) \in Nat
<1>1. 0 \div b <= x \div b /\ x \div b < (n + b - 1) \div b
  <2>1. 0 <= x /\ x <= n + b - 1 /\ n + b - 1 - x >= b
    OBVIOUS
  <2>2. QED
    BY <2>1, DivApart
<1>2. 0 \div b = 0 /\ x \div b \in Int /\ (n + b - 1) \div b \in Int
  BY DivBounds
<1>3. QED
  BY <1>1, <1>2 DEF Ceil

(* The requests read for less than their time ago: one in each interval,   *)
(* and one more where the clock changes its sign.                          *)
LEMMA RecentAreFew ==
  ASSUME Types, OneCaller, NEW h \in Hints, NEW i, Interval[h] > 0,
         NEW S, S \subseteq Held(h, i), Time(h, i) \in Nat \ {0},
         \A f \in S : inForce[f].read > uptime - Time(h, i)
  PROVE  IsFiniteSet(S) /\ Cardinality(S) <= Ceil(Time(h, i), Interval[h]) + 1
<1> DEFINE T == Time(h, i)
           I == Interval[h]
           from(f) == inForce[f].read - (uptime - T + 1)
           place(f) == from(f) \div I + (IF inForce[f].read < Half THEN 0 ELSE 1)
           P == [f \in S |-> place(f)]
           R == 0 .. Ceil(T, I)
<1>1. T \in Nat \ {0} /\ I \in Nat \ {0} /\ uptime \in Nat /\ Half \in Int
  BY WidthAssumption, IntervalAssumption DEF Types, Half
<1>2. S \subseteq DOMAIN inForce
  BY DEF Held
<1>3. ASSUME NEW f \in S
      PROVE  /\ inForce[f].hint = h /\ inForce[f].number = i
             /\ inForce[f].read \in Nat /\ inForce[f].read <= uptime
             /\ inForce[f].read > uptime - T
  <2>1. f \in DOMAIN inForce /\ inForce[f].hint = h /\ inForce[f].number = i
    BY DEF Held
  <2>2. inForce[f].read \in 1 .. uptime
    BY <2>1, InForceTypes DEF RequestOK
  <2>3. QED
    BY <2>1, <2>2
<1> HIDE DEF T, I
<1>4. ASSUME NEW f \in S
      PROVE  from(f) \in 0 .. T - 1
  BY <1>1, <1>3
<1>5. ASSUME NEW f \in S
      PROVE  from(f) \div I \in 0 .. Ceil(T, I) - 1 /\ Ceil(T, I) \in Nat
  BY <1>1, <1>4, DivInside
<1>6. P \in [S -> R]
  BY <1>5
<1>7. ASSUME NEW f \in S, NEW g \in S, f # g, inForce[f].read < inForce[g].read
      PROVE  place(f) < place(g)
  <2>1. Apart(h, inForce[f].read, inForce[g].read)
    BY <1>1, <1>2, <1>3, <1>7 DEF OneCaller, InOrder, After, I
  <2>2. /\ from(f) \div I <= from(g) \div I
        /\ inForce[g].read - inForce[f].read >= I =>
              from(f) \div I < from(g) \div I
    <3>1. from(f) \in Int /\ from(g) \in Int /\ from(f) <= from(g)
          /\ from(g) - from(f) = inForce[g].read - inForce[f].read
      BY <1>1, <1>3, <1>7
    <3>2. QED
      BY <1>1, <3>1, DivApart
  <2>3. from(f) \div I \in Int /\ from(g) \div I \in Int
    BY <1>5
  <2>4. QED
    BY <1>1, <1>3, <1>7, <2>1, <2>2, <2>3 DEF Apart, I
<1>8. ASSUME NEW f \in S, NEW g \in S, f # g PROVE place(f) # place(g)
  <2>1. inForce[f].read # inForce[g].read
    BY <1>1, <1>2, <1>3, <1>8 DEF OneCaller, InOrder, I
  <2>2. place(f) \in Int /\ place(g) \in Int
    BY <1>5
  <2>3. CASE inForce[f].read < inForce[g].read
    BY <1>7, <1>8, <2>2, <2>3
  <2>4. CASE inForce[g].read < inForce[f].read
    BY <1>7, <1>8, <2>2, <2>4
  <2>5. QED
    BY <1>3, <2>1, <2>3, <2>4
<1>9. \A f, g \in S : P[f] = P[g] => f = g
  BY <1>8
<1> HIDE DEF P
<1>10. P \in Injection(S, R)
  BY <1>6, <1>9, Fun_IsInj
<1>11. IsFiniteSet(R) /\ Cardinality(R) = Ceil(T, I) + 1
  <2>1. Ceil(T, I) \in Nat
    BY <1>1, DivInside
  <2>2. QED
    BY <2>1, FS_Interval
<1>12. QED
  BY <1>10, <1>11, FS_Injection DEF T, I

(* Of the others there is at most one: the next hint was read after it was *)
(* made.                                                                   *)
LEMMA HeldAreFew ==
  ASSUME Types, OneCaller, NEW h \in Hints,
         NEW i \in DOMAIN RequestsOf(h, FALSE), Interval[h] > 0
  PROVE  Cardinality(Held(h, i)) <= Ceil(Time(h, i), Interval[h]) + 2
<1> DEFINE T == Time(h, i)
           Old == {f \in Held(h, i) : ~(inForce[f].read > uptime - T)}
<1>1. T \in Nat \ {0}
  BY RequestsAlike
<1>2. Ceil(T, Interval[h]) \in Nat
  BY <1>1, WidthAssumption, IntervalAssumption, DivInside
<1>3. ASSUME NEW f \in Held(h, i)
      PROVE  /\ f \in DOMAIN inForce
             /\ inForce[f].hint = h /\ inForce[f].number = i
             /\ inForce[f].read \in Nat
             /\ Begun(inForce[f]) \in Int /\ Begun(inForce[f]) > uptime - T
  <2>1. f \in DOMAIN inForce /\ inForce[f].hint = h /\ inForce[f].number = i
    BY DEF Held
  <2>2. /\ inForce[f].read \in Nat /\ Begun(inForce[f]) \in Int
        /\ inForce[f].until \in Nat /\ inForce[f].until > uptime
    BY <2>1, InForceTypes DEF RequestOK
  <2>3. Begun(inForce[f]) = inForce[f].until - T
    BY <2>1 DEF Begun
  <2>4. uptime \in Nat
    BY DEF Types
  <2> HIDE DEF T
  <2>5. QED
    BY <1>1, <2>1, <2>2, <2>3, <2>4
<1>4. ASSUME NEW f \in Old, NEW g \in Old PROVE f = g
  <2> SUFFICES ASSUME f # g PROVE FALSE
    OBVIOUS
  <2>1. InOrder(inForce[f], inForce[g])
    BY <1>3 DEF OneCaller
  <2>2. \/ Begun(inForce[f]) <= inForce[g].read
        \/ Begun(inForce[g]) <= inForce[f].read
    BY <1>3, <2>1 DEF InOrder, After
  <2>3. uptime \in Nat
    BY DEF Types
  <2> HIDE DEF T
  <2>4. QED
    BY <1>1, <1>3, <2>2, <2>3
<1> HIDE DEF T
<1>5. CASE Old = {}
  <2>1. \A f \in Held(h, i) : inForce[f].read > uptime - T
    BY <1>5
  <2>2. IsFiniteSet(Held(h, i))
        /\ Cardinality(Held(h, i)) <= Ceil(T, Interval[h]) + 1
    BY <1>1, <2>1, RecentAreFew DEF T
  <2>3. Cardinality(Held(h, i)) \in Nat
    BY <2>2, FS_CardinalityType
  <2>4. QED
    BY <1>2, <2>2, <2>3 DEF T
<1>6. CASE Old # {}
  <2>1. PICK o \in Old : TRUE
    BY <1>6
  <2> DEFINE S == Held(h, i) \ {o}
  <2>2. \A f \in S : inForce[f].read > uptime - T
    BY <1>4, <2>1
  <2>3. IsFiniteSet(S) /\ Cardinality(S) <= Ceil(T, Interval[h]) + 1
    BY <1>1, <2>2, RecentAreFew DEF T
  <2>4. Cardinality(S) \in Nat
    BY <2>3, FS_CardinalityType
  <2>5. Cardinality(S \cup {o}) = Cardinality(S) + 1
    BY <2>3, FS_AddElement
  <2>6. S \cup {o} = Held(h, i)
    BY <2>1
  <2> HIDE DEF S
  <2>7. Cardinality(Held(h, i)) = Cardinality(S) + 1
    BY <2>5, <2>6
  <2>8. QED
    BY <1>2, <2>3, <2>4, <2>7 DEF T
<1>7. QED
  BY <1>5, <1>6

(* Whatever the intervals and the times, a caller that is alone, however   *)
(* slow it is, never holds more descriptors for a request than the         *)
(* intervals within its time and two (nvpowerhal.cpp:205-212, 381-479).    *)
THEOREM FewAreHeld ==
  ASSUME ClockFits, NEW c, Callers = {c}
  PROVE  Spec => []HeldIsBounded
<1>1. Types /\ OneCaller => HeldIsBounded
  <2> SUFFICES ASSUME Types, OneCaller, NEW h \in SentHints,
                      NEW i \in DOMAIN RequestsOf(h, FALSE), Interval[h] > 0
               PROVE  Cardinality(Held(h, i))
                         <= Ceil(RequestsOf(h, FALSE)[i].time, Interval[h]) + 2
    BY DEF HeldIsBounded
  <2>1. QED
    BY HintsAssumption, HeldAreFew DEF Time
<1>2. Init => Types /\ OneCaller
  BY InitTypes, InitOneCaller
<1>3. Types /\ OneCaller /\ [Next]_vars => Types' /\ OneCaller'
  BY NextTypes, NextOneCaller
<1>4. QED
  BY <1>1, <1>2, <1>3, PTL DEF Spec
=============================================================================

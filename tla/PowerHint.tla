----------------------------- MODULE PowerHint -----------------------------
(***************************************************************************)
(* power/nvpowerhal.cpp: common_power_hint and check_hint.  A hint is      *)
(* turned into timed requests unless one of its kind was sent within its   *)
(* interval.  Any thread may send a hint and nothing is locked: a caller   *)
(* reads the clock, tests hint_time, makes its requests one by one and     *)
(* writes hint_time, and other callers run in between.                     *)
(*                                                                         *)
(* hint_time is 64 bits wide, but the product tv_sec * 1000000 is computed *)
(* in a long of 32 and sign-extended; both widths are constants.  A 64-bit *)
(* field is read and written whole on the Cortex-A15 this is built for     *)
(* (BoardConfig.mk:15).  A hint outside the array returns at once.         *)
(*                                                                         *)
(* TimeoutPoker is PmQosService with a prompt Looper thread: a request is  *)
(* in force, and holds a descriptor, for its time from the moment it is    *)
(* made.                                                                   *)
(***************************************************************************)
EXTENDS Integers, Sequences, FiniteSets, Functions

CONSTANTS
    Callers,            \* threads that send hints
    SentHints,          \* the hints they send
    Interval,           \* hint_interval
    BoostTime,          \* the times requests are made for, by their use
    AnimationTime,
    CpuBoostTime,
    AudioTime,
    LowPowerTime,
    InteractionFreq,    \* interaction_boost_frequency
    AnimationFreq,      \* animation_boost_frequency
    Narrow,             \* number of values of a long (2^32)
    Wide,               \* number of values of a uint64_t (2^64)
    Zeroed,             \* power_info comes from calloc, not from malloc
    MaxUptime,          \* bound on the clock
    MaxInForce          \* bound on unthrottled requests in force at once

Hints == {"VSYNC", "INTERACTION", "CPU_BOOST", "AUDIO", "LOW_POWER"}
Times == {BoostTime, AnimationTime, CpuBoostTime, AudioTime, LowPowerTime}

ASSUME HintsAssumption == SentHints \subseteq Hints
ASSUME TimesAssumption == Times \subseteq Nat \ {0}
ASSUME UptimeAssumption == MaxUptime \in Nat \ {0}
ASSUME WidthAssumption ==
    /\ Narrow \in Nat /\ Narrow > 1 /\ Narrow % 2 = 0
    /\ Wide \in Nat /\ Wide > Narrow
ASSUME IntervalAssumption == Interval \in [Hints -> 0 .. Wide - Narrow]

INT_MAX == 2147483647
PM_QOS_DEFAULT_VALUE == -1
PM_QOS_BOOST_PRIORITY == 35

(* The two interfaces of requestPmQosTimed. *)
Default(n, v, t) == [interface |-> "default", node |-> n, val |-> v, time |-> t]
Priority(n, p, mx, mn, t) ==
    [interface |-> "priority", node |-> n, priority |-> p, max |-> mx,
     min |-> mn, time |-> t]
Boost(n, v, t) ==
    Priority(n, PM_QOS_BOOST_PRIORITY, PM_QOS_DEFAULT_VALUE, v, t)

(* The requests of each hint, in order; `data' is what came with the hint. *)
Interaction ==
    << Boost("constraint_cpu_freq", InteractionFreq, BoostTime),
       Boost("constraint_online_cpus", 2, AnimationTime),
       Boost("constraint_cpu_freq", AnimationFreq, AnimationTime),
       Boost("constraint_gpu_freq", 180000, AnimationTime),
       Default("emc_freq_min", 396000, AnimationTime) >>
CpuBoost ==
    << Boost("constraint_cpu_freq", INT_MAX, CpuBoostTime),
       Boost("constraint_online_cpus", 2, CpuBoostTime),
       Boost("constraint_gpu_freq", 180000, CpuBoostTime),
       Default("emc_freq_min", 792000, CpuBoostTime) >>
Audio == << Boost("constraint_cpu_freq", 512000, AudioTime) >>
LowPower(data) ==
    << Boost("cpu_freq_max", IF data THEN 1020000 ELSE INT_MAX, LowPowerTime),
       Boost("max_online_cpus", IF data THEN 1 ELSE INT_MAX, LowPowerTime) >>

RequestsOf(hint, data) ==
    CASE hint = "INTERACTION" -> Interaction
      [] hint = "CPU_BOOST" -> CpuBoost
      [] hint = "AUDIO" -> Audio
      [] hint = "LOW_POWER" -> LowPower(data)
      [] OTHER -> << >>

VARIABLES
    uptime,     \* CLOCK_MONOTONIC in microseconds (a unit of them)
    hint_time,
    caller,     \* where each caller is, with its locals
    inForce,    \* descriptors, each with its request in force
    latest      \* history: the latest clock reading of a hint that was sent

vars == <<uptime, hint_time, caller, inForce, latest>>

Idle == [at |-> "idle"]
AtCheck(h, d, t) == [at |-> "check", hint |-> h, data |-> d, read |-> t]
AtSend(h, d, t, i) ==
    [at |-> "send", hint |-> h, data |-> d, read |-> t, next |-> i]

(* malloc leaves any value in hint_time. *)
Init ==
    /\ uptime = 1
    /\ IF Zeroed THEN hint_time = [h \in Hints |-> 0]
                 ELSE \E v \in 0 .. Wide - 1 : hint_time = [h \in Hints |-> v]
    /\ caller = [c \in Callers |-> Idle]
    /\ inForce = << >>
    /\ latest = [h \in Hints |-> 0]

-----------------------------------------------------------------------------
(* `time = ts.tv_sec * 1000000 + ts.tv_nsec / 1000'. *)
TimeOf(u) ==
    LET n == u % Narrow
    IN  IF n < Narrow \div 2 THEN n ELSE n - Narrow + Wide

(* The clock_gettime of check_hint. *)
ReadClock(c) ==
    /\ caller[c] = Idle
    /\ \E h \in SentHints, d \in BOOLEAN :
          /\ d => h = "LOW_POWER"
          /\ caller' = [caller EXCEPT ![c] = AtCheck(h, d, uptime)]
    /\ UNCHANGED <<uptime, hint_time, inForce, latest>>

LongThrottle(h, t) ==           \* mutant of Throttled: `<=' for `<'
    /\ hint_time[h] # 0
    /\ Interval[h] # 0
    /\ (t - hint_time[h]) % Wide <= Interval[h]

Throttled(h, t) ==
    /\ hint_time[h] # 0
    /\ Interval[h] # 0
    /\ (t - hint_time[h]) % Wide < Interval[h]

(* The rest of check_hint. *)
CheckHint(c) ==
    /\ caller[c].at = "check"
    /\ LET h == caller[c].hint
           t == caller[c].read
       IN  caller' = [caller EXCEPT ![c] =
                        IF Throttled(h, TimeOf(t)) THEN Idle
                        ELSE AtSend(h, caller[c].data, t, 1)]
    /\ UNCHANGED <<uptime, hint_time, inForce, latest>>

Todo(c) == RequestsOf(caller[c].hint, caller[c].data)
IsThrough(c) == caller[c].next > Len(Todo(c))

LowestUnused(f) ==
    f \notin DOMAIN inForce /\ \A g \in 0 .. f - 1 : g \in DOMAIN inForce

(* One call of requestPmQosTimed: which of the hint's requests, the clock  *)
(* reading of the hint, and the end of its time.                           *)
SendRequest(c) ==
    /\ caller[c].at = "send"
    /\ ~IsThrough(c)
    /\ LET s == caller[c]
           r == [hint |-> s.hint, number |-> s.next, read |-> s.read,
                 until |-> uptime + Todo(c)[s.next].time]
       IN  /\ Interval[s.hint] = 0 => Cardinality(DOMAIN inForce) < MaxInForce
           /\ \E f \in 0 .. Cardinality(DOMAIN inForce) :
                 /\ LowestUnused(f)
                 /\ inForce' = [g \in DOMAIN inForce \cup {f} |->
                                   IF g = f THEN r ELSE inForce[g]]
    /\ caller' = [caller EXCEPT ![c].next = @ + 1]
    /\ UNCHANGED <<uptime, hint_time, latest>>

Sent(c) ==
    latest' = [latest EXCEPT ![caller[c].hint] =
                  IF caller[c].read > @ THEN caller[c].read ELSE @]

ReturnOnly(c) ==                \* mutant of StoreTime: return for break
    /\ caller[c].at = "send"
    /\ IsThrough(c)
    /\ Sent(c)
    /\ caller' = [caller EXCEPT ![c] = Idle]
    /\ UNCHANGED <<uptime, hint_time, inForce>>

(* `hint_time[hint] = t', and the return. *)
StoreTime(c) ==
    /\ caller[c].at = "send"
    /\ IsThrough(c)
    /\ hint_time' =
          [hint_time EXCEPT ![caller[c].hint] = TimeOf(caller[c].read)]
    /\ Sent(c)
    /\ caller' = [caller EXCEPT ![c] = Idle]
    /\ UNCHANGED <<uptime, inForce>>

(* Time passes; a request whose time is over leaves. *)
Tick ==
    /\ uptime < MaxUptime
    /\ uptime' = uptime + 1
    /\ inForce' =
          Restrict(inForce, {f \in DOMAIN inForce : inForce[f].until > uptime'})
    /\ UNCHANGED <<hint_time, caller, latest>>

CallHint(c) == ReadClock(c) \/ CheckHint(c) \/ SendRequest(c) \/ StoreTime(c)

Next == Tick \/ \E c \in Callers : CallHint(c)

Spec == Init /\ [][Next]_vars

-----------------------------------------------------------------------------
(* The command written to a constraint node (createConstraintCommand), by  *)
(* its length: "max min priority 0".                                       *)
COMMAND_SIZE == 20

Power == <<10, 100, 1000, 10000, 100000, 1000000, 10000000, 100000000,
           1000000000>>

Digits(n) == 1 + Cardinality({i \in 1 .. 9 : Power[i] <= n})

Length(n) == IF n < 0 THEN 1 + Digits(-n) ELSE Digits(n)

TimedCommandLength(r) ==        \* mutant: the timeout for the final 0
    Length(r.max) + Length(r.min) + Length(r.priority) + Length(1500) + 3

CommandLength(r) ==
    Length(r.max) + Length(r.min) + Length(r.priority) + Length(0) + 3

-----------------------------------------------------------------------------
(* Properties. *)

(* The throttle bounds the descriptors that hints hold.  A single caller   *)
(* has, of each request it makes, at most those it made one interval apart *)
(* within the request's time, one more because it may be slow to make the  *)
(* first, and one more when the clock changes sign.                        *)
Ceil(a, b) == (a + b - 1) \div b
Held(h, i) ==
    {f \in DOMAIN inForce : inForce[f].hint = h /\ inForce[f].number = i}
HeldIsBounded ==
    \A h \in SentHints : \A i \in DOMAIN RequestsOf(h, FALSE) :
        Interval[h] > 0 =>
            Cardinality(Held(h, i))
                <= Ceil(RequestsOf(h, FALSE)[i].time, Interval[h]) + 2

(* A hint is dropped only if one of its kind was sent whose clock reading  *)
(* lies less than its interval before this one's, whatever other callers   *)
(* are doing.  The first hint may be dropped if hint_time was not          *)
(* initialised.                                                            *)
Drops(c) == caller[c].at = "check" /\ caller'[c] = Idle
SentRecently(c) ==
    LET h == caller[c].hint
    IN  /\ Zeroed => latest[h] # 0
        /\ latest[h] # 0 => caller[c].read - latest[h] < Interval[h]
DroppedIsCovered == [][\A c \in Callers : Drops(c) => SentRecently(c)]_vars

(* The interval of interactions is "slightly shorter than the duration of  *)
(* the interaction boost so that we can maintain is constantly"            *)
(* (nvpowerhal.cpp:205-207): an interaction that is dropped as soon as it  *)
(* has read the clock finds the boost of an earlier one in force.          *)
IsBoost(r) == r.hint = "INTERACTION" /\ r.number = 1
BoostIsMaintained ==
    [][\A c \in Callers :
         Drops(c) /\ caller[c].hint = "INTERACTION" /\ caller[c].read = uptime
           => \E f \in DOMAIN inForce : IsBoost(inForce[f])]_vars

(* No command is cut off by COMMAND_SIZE (timeoutpoker.cpp:74-75, 295).    *)
CommandFits ==
    \A c \in Callers : caller[c].at = "send" =>
        \A i \in caller[c].next .. Len(Todo(c)) :
            Todo(c)[i].interface = "priority" =>
                CommandLength(Todo(c)[i]) < COMMAND_SIZE
=============================================================================

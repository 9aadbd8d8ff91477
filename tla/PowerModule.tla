---------------------------- MODULE PowerModule ----------------------------
(***************************************************************************)
(* power/power.cpp and the start-up code of power/nvpowerhal.cpp and       *)
(* power/timeoutpoker.cpp.  The framework calls the entry points init and  *)
(* open, any number of times and in any order, from one thread.  Either    *)
(* fills in pInfo, which starts a TimeoutPoker: its constructor waits      *)
(* until the Looper thread has prepared its Looper.  As soon as one call   *)
(* has returned, other threads may send hints, and go on to do so while a  *)
(* later init fills the same pInfo in again and replaces the poker.        *)
(*                                                                         *)
(* A text read from sysfs is the sequence of the numbers atoi makes of its *)
(* words.  sysfs_read leaves the words of an error message, which atoi     *)
(* turns into 0, where a text was expected.  What nobody reads later (the  *)
(* trace flag, the fan, cpu0_max_frequency) is left out.                   *)
(***************************************************************************)
EXTENDS Integers, Sequences, FiniteSets

CONSTANTS
    HintThreads,    \* threads that send hints
    MaxCalls,       \* bound on the calls of init and open
    Names,          \* the names of input devices
    DevNames,       \* the names in input_devs
    Inputs,         \* the possible lists of input devices, by name
    FreqList,       \* scaling_available_frequencies
    IdleTopFreq,    \* idle_top_freq
    ErrorWords,     \* numbers of words of error messages
    NULL            \* the value of pInfo before the first call

ASSUME CallsAssumption == MaxCalls \in Nat
ASSUME FrequencyAssumption ==
    /\ FreqList \in Seq(Nat) /\ FreqList # << >>
    /\ \A i, j \in 1 .. Len(FreqList) : i < j => FreqList[i] < FreqList[j]
    /\ IdleTopFreq \in Nat
ASSUME ErrorAssumption == ErrorWords \subseteq Nat \ {0, 1}
ASSUME InputsAssumption == DevNames \in Seq(Names) /\ Inputs \subseteq Seq(Names)

INTERACTION_FREQ == 1326000
ANIMATION_FREQ == 1024000

Garbage == -1       \* what malloc leaves in a field, and no dev_id
Pokers == 1 .. MaxCalls
NoPoker == 0        \* a null mTimeoutPoker
Devices == 1 .. Len(DevNames)

VARIABLES
    main,       \* where the framework's thread is, with its locals
    calls,      \* the number of calls it has made
    pInfo,      \* the fields of *pInfo, or NULL
    dev_id,     \* of each entry of input_devs
    inputs,     \* the input devices there are
    worker,     \* the Looper thread of each poker
    ready,      \* the pokers whose readyToRun barrier is open
    hint,       \* what each hint thread has loaded from pInfo
    request,    \* the latest request, and the poker it was made to
    failed      \* history: a read of sysfs has failed

devices == <<dev_id, inputs>>
pokers == <<worker, ready>>
hints == <<hint, request>>
vars == <<main, calls, pInfo, devices, pokers, hints, failed>>

Main(at, op, i, n) == [at |-> at, op |-> op, i |-> i, n |-> n]
Returned == Main("idle", "none", 0, 0)
Goto(at) == main' = Main(at, main.op, 0, 0)

NothingLoaded == [use |-> "none", poker |-> NoPoker, freq |-> Garbage]
NoRequest == [use |-> "none", poker |-> NoPoker, freq |-> 0]

Allocated(v) ==
    [input_devs |-> FALSE, input_cnt |-> v, mTimeoutPoker |-> v,
     available |-> << >>, num_available |-> v,
     interaction |-> v, animation |-> v]

Init ==
    /\ main = Returned
    /\ calls = 0
    /\ pInfo = NULL
    /\ dev_id = [j \in Devices |-> Garbage]
    /\ inputs \in Inputs
    /\ worker = [p \in Pokers |-> "none"]
    /\ ready = {}
    /\ hint = [c \in HintThreads |-> NothingLoaded]
    /\ request = NoRequest
    /\ failed = FALSE

-----------------------------------------------------------------------------
(* The entry points. *)

InitReallocates ==              \* mutant of CallInit: no `if (!pInfo)'
    /\ main = Returned /\ calls < MaxCalls
    /\ calls' = calls + 1
    /\ pInfo' = [Allocated(Garbage) EXCEPT !.input_devs = TRUE,
                                           !.input_cnt = Len(DevNames)]
    /\ main' = Main("inputs", "init", 0, 0)
    /\ UNCHANGED <<devices, pokers, hints, failed>>

(* shield_power_init. *)
CallInit ==
    /\ main = Returned /\ calls < MaxCalls
    /\ calls' = calls + 1
    /\ LET info == IF pInfo = NULL THEN Allocated(Garbage) ELSE pInfo
       IN  pInfo' = [info EXCEPT !.input_devs = TRUE,
                                 !.input_cnt = Len(DevNames)]
    /\ main' = Main("inputs", "init", 0, 0)
    /\ UNCHANGED <<devices, pokers, hints, failed>>

(* shield_power_open, which does nothing once there is a pInfo. *)
CallOpen ==
    /\ main = Returned /\ calls < MaxCalls
    /\ calls' = calls + 1
    /\ \/ /\ pInfo = NULL
          /\ pInfo' = Allocated(0)
          /\ main' = Main("inputs", "open", 0, 0)
       \/ pInfo # NULL /\ UNCHANGED <<pInfo, main>>
    /\ UNCHANGED <<devices, pokers, hints, failed>>

-----------------------------------------------------------------------------
(* common_power_open: the input devices. *)

NoDevices == pInfo.input_devs = FALSE \/ pInfo.input_cnt = 0

(* get_input_count. *)
CountInputs ==
    /\ main.at = "inputs" /\ NoDevices
    /\ pInfo' = [pInfo EXCEPT !.input_cnt = Len(inputs)]
    /\ Goto("construct")
    /\ UNCHANGED <<calls, devices, pokers, hints, failed>>

NamedDevices(i) ==              \* mutant of NewDevices: no test of dev_id
    {j \in Devices : DevNames[j] = inputs[i]}

(* The entries of input_devs that the i-th input device is the first for.  *)
NewDevices(i) ==
    {j \in Devices : dev_id[j] = -1 /\ DevNames[j] = inputs[i]}

FoundAtNext(found) ==           \* mutant of FoundAt: i was incremented
    dev_id' = [j \in Devices |-> IF j \in found THEN main.i + 1 ELSE dev_id[j]]

FoundAt(found) ==
    dev_id' = [j \in Devices |-> IF j \in found THEN main.i ELSE dev_id[j]]

(* One round of the loop of find_input_device_ids; main.n is count.        *)
ScanInput ==
    /\ main.at = "inputs" /\ ~NoDevices
    /\ main.i < Len(inputs)
    /\ LET found == NewDevices(main.i + 1)
           n == main.n + Cardinality(found)
       IN  /\ FoundAt(found)
           /\ IF n = pInfo.input_cnt
              THEN Goto("construct")
              ELSE main' = Main("inputs", main.op, main.i + 1, n)
    /\ UNCHANGED <<calls, pInfo, inputs, pokers, hints, failed>>

EndScan ==
    /\ main.at = "inputs" /\ ~NoDevices
    /\ main.i >= Len(inputs)
    /\ Goto("construct")
    /\ UNCHANGED <<calls, pInfo, devices, pokers, hints, failed>>

-----------------------------------------------------------------------------
(* common_power_open: the poker, and its Looper thread. *)

(* The constructors of TimeoutPoker and PokeHandler up to readyToRun->wait. *)
(* The result of Thread::run is not looked at.                             *)
NewPoker ==
    /\ main.at = "construct"
    /\ \E p \in Pokers, s \in {"started", "dead"} :
          /\ worker[p] = "none"
          /\ \A q \in Pokers : q < p => worker[q] # "none"
          /\ worker' = [worker EXCEPT ![p] = s]
          /\ main' = Main("wait", main.op, p, 0)
    /\ UNCHANGED <<calls, pInfo, devices, ready, hints, failed>>

(* LooperThread::readyToRun: Looper::prepare, which may fail and thereby   *)
(* end the thread ...                                                      *)
Prepare(p) ==
    /\ worker[p] = "started"
    /\ \E s \in {"prepared", "dead"} : worker' = [worker EXCEPT ![p] = s]
    /\ UNCHANGED <<main, calls, pInfo, devices, ready, hints, failed>>

OpenLate(p) ==                  \* mutant of OpenReady: opens nothing
    /\ worker[p] = "prepared"
    /\ worker' = [worker EXCEPT ![p] = "polling"]
    /\ UNCHANGED <<main, calls, pInfo, devices, ready, hints, failed>>

(* ... and mReadyToRun->open(), after which it polls for ever.             *)
OpenReady(p) ==
    /\ worker[p] = "prepared"
    /\ worker' = [worker EXCEPT ![p] = "polling"]
    /\ ready' = ready \cup {p}
    /\ UNCHANGED <<main, calls, pInfo, devices, hints, failed>>

StorePokerAtOnce ==             \* mutant of StorePoker: nobody waits
    /\ main.at = "wait"
    /\ pInfo' = [pInfo EXCEPT !.mTimeoutPoker = main.i]
    /\ Goto("count")
    /\ UNCHANGED <<calls, devices, pokers, hints, failed>>

(* The wait in the constructor, the store of the result of `new', and the  *)
(* second wait, which finds the barrier open.  The poker that pInfo had    *)
(* before is lost, not deleted: its thread goes on.                        *)
StorePoker ==
    /\ main.at = "wait" /\ main.i \in ready
    /\ pInfo' = [pInfo EXCEPT !.mTimeoutPoker = main.i]
    /\ Goto("count")
    /\ UNCHANGED <<calls, devices, pokers, hints, failed>>

-----------------------------------------------------------------------------
(* common_power_open: the frequencies. *)

(* The kernel ends the list with a separator and a newline, so that the    *)
(* newline is one more word.  The 256 bytes that sysfs_read is asked for   *)
(* (nvpowerhal.cpp:136) hold the whole list of this device.                *)
Listing == Append(FreqList, 0)
Texts == {Listing} \cup {[i \in 1 .. n |-> 0] : n \in ErrorWords}

WordsOf(text) == Len(text)      \* mutant of Counted: counts from 0

(* num_available_frequencies starts at -1 and counts the words. *)
Counted(text) == Len(text) - 1

CountFrequencies ==
    /\ main.at = "count"
    /\ \E text \in Texts :
          /\ pInfo' = [pInfo EXCEPT !.num_available = Counted(text)]
          /\ failed' = (failed \/ text # Listing)
    /\ Goto("table")
    /\ UNCHANGED <<calls, devices, pokers, hints>>

(* The second read of the file.  If it has fewer words than the first one, *)
(* atoi is given a null pointer and the process ends.                      *)
StoreFrequencies ==
    /\ main.at = "table"
    /\ \E text \in Texts :
          /\ failed' = (failed \/ text # Listing)
          /\ IF Len(text) < pInfo.num_available
             THEN Goto("crashed") /\ UNCHANGED pInfo
             ELSE /\ pInfo' = [pInfo EXCEPT !.available =
                                  SubSeq(text, 1, pInfo.num_available)]
                  /\ Goto("lp")
    /\ UNCHANGED <<calls, devices, pokers, hints>>

NoBoost(f) ==                   \* mutant of DefaultBoost: starts from 0
    pInfo' = [pInfo EXCEPT !.interaction = 0, !.animation = 0]

DefaultBoost(f) ==
    pInfo' = [pInfo EXCEPT !.interaction = f, !.animation = f]

(* A failed read leaves a text that atoi turns into 0.                     *)
StoreLpMaxFrequency ==
    /\ main.at = "lp"
    /\ \E f \in {IdleTopFreq, 0} :
          /\ DefaultBoost(f)
          /\ failed' = (failed \/ f # IdleTopFreq)
    /\ Goto("interaction")
    /\ UNCHANGED <<calls, devices, pokers, hints>>

(* The i-th available frequency is the first of at least `bound' ...       *)
FirstFrom(bound, i) ==
    /\ pInfo.available[i] >= bound
    /\ \A k \in 1 .. i - 1 : pInfo.available[k] < bound

(* ... or there is none. *)
AllBelow(bound) ==
    \A i \in DOMAIN pInfo.available : pInfo.available[i] < bound

SetInteractionFrequency ==
    /\ main.at = "interaction"
    /\ \/ \E i \in DOMAIN pInfo.available :
             /\ FirstFrom(INTERACTION_FREQ, i)
             /\ pInfo' = [pInfo EXCEPT !.interaction = pInfo.available[i]]
       \/ AllBelow(INTERACTION_FREQ) /\ UNCHANGED pInfo
    /\ Goto("animation")
    /\ UNCHANGED <<calls, devices, pokers, hints, failed>>

SetAnimationFrequency ==
    /\ main.at = "animation"
    /\ \/ \E i \in DOMAIN pInfo.available :
             /\ FirstFrom(ANIMATION_FREQ, i)
             /\ pInfo' = [pInfo EXCEPT !.animation = pInfo.available[i]]
       \/ AllBelow(ANIMATION_FREQ) /\ UNCHANGED pInfo
    /\ IF main.op = "init" THEN Goto("boost") ELSE main' = Returned
    /\ UNCHANGED <<calls, devices, pokers, hints, failed>>

(* The rest of common_power_init: the boost for the boot.                  *)
BoostBoot ==
    /\ main.at = "boost"
    /\ request' = [use |-> "boot", poker |-> pInfo.mTimeoutPoker,
                   freq |-> pInfo.available[pInfo.num_available]]
    /\ main' = Returned
    /\ UNCHANGED <<calls, pInfo, devices, pokers, hint, failed>>

-----------------------------------------------------------------------------
(* shield_power_hint.  A request loads mTimeoutPoker and a frequency, in   *)
(* the order the compiler likes, and calls requestPmQosTimed.              *)

HasReturned == calls > 1 \/ (calls = 1 /\ main = Returned)

BeginHint(c) ==
    /\ HasReturned
    /\ hint[c] = NothingLoaded
    /\ \E u \in {"interaction", "animation"} :
          hint' = [hint EXCEPT ![c].use = u]
    /\ UNCHANGED <<main, calls, pInfo, devices, pokers, request, failed>>

LoadPoker(c) ==
    /\ hint[c].use # "none" /\ hint[c].poker = NoPoker
    /\ hint' = [hint EXCEPT ![c].poker = pInfo.mTimeoutPoker]
    /\ UNCHANGED <<main, calls, pInfo, devices, pokers, request, failed>>

LoadFrequency(c) ==
    /\ hint[c].use # "none" /\ hint[c].freq = Garbage
    /\ hint' = [hint EXCEPT ![c].freq = pInfo[hint[c].use]]
    /\ UNCHANGED <<main, calls, pInfo, devices, pokers, request, failed>>

SendRequest(c) ==
    /\ hint[c].poker # NoPoker /\ hint[c].freq # Garbage
    /\ request' = hint[c]
    /\ hint' = [hint EXCEPT ![c] = NothingLoaded]
    /\ UNCHANGED <<main, calls, pInfo, devices, pokers, failed>>

-----------------------------------------------------------------------------
Starting ==
    \/ CountInputs \/ ScanInput \/ EndScan
    \/ NewPoker \/ StorePoker
    \/ CountFrequencies \/ StoreFrequencies \/ StoreLpMaxFrequency
    \/ SetInteractionFrequency \/ SetAnimationFrequency \/ BoostBoot
Looper(p) == Prepare(p) \/ OpenReady(p)
Hinting(c) ==
    BeginHint(c) \/ LoadPoker(c) \/ LoadFrequency(c) \/ SendRequest(c)

Next ==
    /\ main.at # "crashed"
    /\ \/ CallInit \/ CallOpen \/ Starting
       \/ \E p \in Pokers : Looper(p)
       \/ \E c \in HintThreads : Hinting(c)

(* Threads that have been started are scheduled.  Nobody has to call. *)
Fairness ==
    /\ WF_vars(Starting)
    /\ \A p \in Pokers : WF_vars(Looper(p))

Spec == Init /\ [][Next]_vars /\ Fairness

-----------------------------------------------------------------------------
(* Properties. *)

Places == {"idle", "inputs", "construct", "wait", "count", "table", "lp",
           "interaction", "animation", "boost", "crashed"}
Frequencies == {FreqList[i] : i \in DOMAIN FreqList} \cup {0, IdleTopFreq}
Info ==
    [input_devs : BOOLEAN, input_cnt : Nat \cup {Garbage},
     mTimeoutPoker : Pokers \cup {NoPoker, Garbage},
     available : Seq(Frequencies), num_available : Nat \cup {Garbage},
     interaction : Frequencies \cup {Garbage},
     animation : Frequencies \cup {Garbage}]
Uses == {"none", "interaction", "animation"}

ASSUME NullAssumption == NULL \notin Info

(* Every variable has its type, with the frequencies among those sysfs     *)
(* lists.                                                                  *)
TypeOK ==
    /\ main \in [at : Places, op : {"none", "init", "open"}, i : Nat, n : Nat]
    /\ calls \in 0 .. MaxCalls
    /\ pInfo = NULL \/ pInfo \in Info
    /\ dev_id \in [Devices -> -1 .. Len(inputs) - 1]
    /\ inputs \in Inputs
    /\ worker \in [Pokers -> {"none", "started", "prepared", "polling",
                              "dead"}]
    /\ ready \subseteq Pokers
    /\ hint \in [HintThreads -> [use : Uses,
                                 poker : Pokers \cup {NoPoker, Garbage},
                                 freq : Frequencies \cup {Garbage}]]
    /\ request \in [use : Uses \cup {"boot"},
                    poker : Pokers \cup {NoPoker, Garbage},
                    freq : Frequencies \cup {Garbage}]
    /\ failed \in BOOLEAN

(* A poker that a thread has loaded, or made a request to, has a Looper to *)
(* send the event to (mWorker->mLooper, timeoutpoker.cpp:171), whatever    *)
(* init replaces meanwhile.                                                *)
HasLooper(p) == p \in Pokers /\ worker[p] \in {"prepared", "polling"}
PokersAreLive ==
    /\ \A c \in HintThreads :
          hint[c].poker # NoPoker => HasLooper(hint[c].poker)
    /\ request.use # "none" => HasLooper(request.poker)

(* Hints ask for a frequency the device has: one that is at least what the *)
(* hint wants, or the maximum of the LP cluster.  This holds while init    *)
(* sets the frequencies again under a hint (nvpowerhal.cpp:180-197).       *)
Wanted(use) ==
    IF use = "interaction" THEN INTERACTION_FREQ ELSE ANIMATION_FREQ
HintFreqAvailable ==
    request.use \in {"interaction", "animation"} /\ ~failed =>
        \/ request.freq = IdleTopFreq
        \/ /\ \E i \in DOMAIN FreqList : request.freq = FreqList[i]
           /\ request.freq >= Wanted(request.use)

(* "Boost to max frequency on initialization" (nvpowerhal.cpp:245): two    *)
(* readings of the file, a count that starts at -1 and a lookup at -1 come *)
(* to the greatest frequency of the list.                                  *)
BootBoostIsMax ==
    request.use = "boot" /\ ~failed =>
        request.freq = FreqList[Len(FreqList)]

(* After find_input_device_ids each entry names the first input device of  *)
(* its name, or none, even if an earlier call has looked for it.           *)
FirstNamed(j) ==
    IF \E i \in DOMAIN inputs : inputs[i] = DevNames[j]
    THEN (CHOOSE i \in DOMAIN inputs :
            /\ inputs[i] = DevNames[j]
            /\ \A k \in 1 .. i - 1 : inputs[k] # DevNames[j]) - 1
    ELSE -1
DevicesFound ==
    main.at = "construct" /\ main.op = "init" =>
        \A j \in Devices : dev_id[j] = FirstNamed(j)

(* init and open return, unless the Looper thread never got as far as to   *)
(* open the barrier (timeoutpoker.cpp:197, 248), or the list of            *)
(* frequencies changed between its two readings.                           *)
StartReturns ==
    main.at # "idle" ~>
        \/ main.at \in {"idle", "crashed"}
        \/ main.at = "wait" /\ worker[main.i] = "dead"
=============================================================================

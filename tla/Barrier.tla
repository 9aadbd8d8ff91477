------------------------------ MODULE Barrier ------------------------------
(***************************************************************************)
(* power/barrier.h: a Mutex, a Condition and a flag.  One thread for each  *)
(* call of open(), close() and wait(), and one action for each step it     *)
(* takes at or under the mutex.  Condition::wait may return without a      *)
(* broadcast.  Mutex and Condition are libutils': external.                *)
(***************************************************************************)

CONSTANTS
    Openers,    \* threads that call open()
    Closers,    \* threads that call close()
    Waiters,    \* threads that call wait()
    NoThread    \* holder of a free mutex

Threads == Openers \cup Closers \cup Waiters

ASSUME ThreadsAssumption ==
    /\ Openers \cap Closers = {}
    /\ Openers \cap Waiters = {}
    /\ Closers \cap Waiters = {}
    /\ NoThread \notin Threads

VARIABLES
    lock,       \* the thread that holds the mutex
    state,      \* the flag
    cv,         \* the threads asleep in Condition::wait
    pc          \* where each thread is

vars == <<lock, state, cv, pc>>

Init ==
    /\ lock = NoThread
    /\ state = "CLOSED"
    /\ cv = {}
    /\ pc = [t \in Threads |-> "enter"]

Goto(t, from, to) == pc[t] = from /\ pc' = [pc EXCEPT ![t] = to]

(* Mutex::Autolock, at the start of all three methods. *)
Lock(t) ==
    /\ lock = NoThread
    /\ lock' = t
    /\ Goto(t, "enter", "locked")
    /\ UNCHANGED <<state, cv>>

(* The end of the Autolock's scope, and the return. *)
Unlock(t) ==
    /\ Goto(t, "leave", "returned")
    /\ lock' = NoThread
    /\ UNCHANGED <<state, cv>>

(* Mutants: open() without, or outside the mutex before, the broadcast;    *)
(* one that wakes a single thread; wait() with `if' for `while', or        *)
(* without Condition::wait's second lock.                                  *)
SetOpenedOnly(t) ==
    /\ Goto(t, "locked", "leave")
    /\ state' = "OPENED"
    /\ UNCHANGED <<lock, cv>>

SetOpenedUnlocked(t) ==
    /\ Goto(t, "locked", "broadcast")
    /\ state' = "OPENED"
    /\ lock' = NoThread
    /\ UNCHANGED cv

SignalOne(t) ==
    /\ Goto(t, "broadcast", "leave")
    /\ cv' \in {cv \ {u} : u \in cv} \cup {c \in {cv} : c = {}}
    /\ UNCHANGED <<lock, state>>

RelockOnce(t) ==
    /\ t \notin cv
    /\ lock = NoThread
    /\ lock' = t
    /\ Goto(t, "asleep", "leave")
    /\ UNCHANGED <<state, cv>>

RelockNot(t) ==
    /\ t \notin cv
    /\ Goto(t, "asleep", "locked")
    /\ UNCHANGED <<lock, state, cv>>

(* open() *)
SetOpened(t) ==
    /\ Goto(t, "locked", "broadcast")
    /\ state' = "OPENED"
    /\ UNCHANGED <<lock, cv>>

Broadcast(t) ==
    /\ Goto(t, "broadcast", "leave")
    /\ cv' = {}
    /\ UNCHANGED <<lock, state>>

(* close() *)
SetClosed(t) ==
    /\ Goto(t, "locked", "leave")
    /\ state' = "CLOSED"
    /\ UNCHANGED <<lock, cv>>

(* wait(): the test of the loop, and Condition::wait, which gives the      *)
(* mutex up and goes to sleep in one step ...                              *)
TestOpened(t) ==
    /\ state = "OPENED"
    /\ Goto(t, "locked", "leave")
    /\ UNCHANGED <<lock, state, cv>>

Sleep(t) ==
    /\ state = "CLOSED"
    /\ Goto(t, "locked", "asleep")
    /\ cv' = cv \cup {t}
    /\ lock' = NoThread
    /\ UNCHANGED state

(* ... and takes the mutex again once it is awake. *)
Relock(t) ==
    /\ t \notin cv
    /\ lock = NoThread
    /\ lock' = t
    /\ Goto(t, "asleep", "locked")
    /\ UNCHANGED <<state, cv>>

SpuriousWakeup(t) ==
    /\ t \in cv
    /\ cv' = cv \ {t}
    /\ UNCHANGED <<lock, state, pc>>

OpenStep(t)  == Lock(t) \/ SetOpened(t) \/ Broadcast(t) \/ Unlock(t)
CloseStep(t) == Lock(t) \/ SetClosed(t) \/ Unlock(t)
WaitStep(t)  == Lock(t) \/ TestOpened(t) \/ Sleep(t) \/ Relock(t) \/ Unlock(t)

Next ==
    \/ \E t \in Openers : OpenStep(t)
    \/ \E t \in Closers : CloseStep(t)
    \/ \E t \in Waiters : WaitStep(t) \/ SpuriousWakeup(t)

(* A thread that can run does.  Nothing is assumed of the order in which   *)
(* the mutex is handed out, and nobody has to be woken without a           *)
(* broadcast.                                                              *)
Fairness ==
    /\ \A t \in Openers : WF_vars(OpenStep(t))
    /\ \A t \in Closers : WF_vars(CloseStep(t))
    /\ \A t \in Waiters : WF_vars(WaitStep(t))

Spec == Init /\ [][Next]_vars /\ Fairness

-----------------------------------------------------------------------------
(* Properties. *)

(* Every variable has its type, and the mutex is with the one thread that  *)
(* is between its lock and its unlock.                                     *)
TypeOK ==
    /\ lock \in Threads \cup {NoThread}
    /\ state \in {"OPENED", "CLOSED"}
    /\ cv \subseteq Waiters
    /\ pc \in [Threads -> {"enter", "locked", "broadcast", "leave",
                           "asleep", "returned"}]
    /\ \A t \in Threads :
          pc[t] \in {"locked", "broadcast", "leave"} <=> lock = t

(* No wakeup is lost: a thread sleeps in wait() only while the barrier is  *)
(* closed or the thread that opened it has its broadcast still to do.      *)
NoLostWakeup ==
    cv # {} =>
        state = "CLOSED" \/ \E t \in Openers : pc[t] = "broadcast"

(* Whoever waits may destroy the barrier as soon as wait() has returned,   *)
(* as createPmQosHandle does with the one in its frame                     *)
(* (timeoutpoker.cpp:101-107): with a single open(), that call is over     *)
(* and touches the barrier no more.                                        *)
OpenIsOver ==
    \A o \in Openers : Openers = {o} =>
        \A t \in Waiters : pc[t] = "returned" => pc[o] = "returned"

(* wait() returns only while the barrier is open. *)
Promise == INSTANCE Latch
    WITH opened  <- state = "OPENED",
         through <- {t \in Waiters : pc[t] = "returned"}
LatchSpec == Promise!Spec

(* An open() that no close() follows lets every thread through.            *)
EveryoneGetsThrough ==
    \A o \in Openers, t \in Waiters :
        pc[o] = "locked" /\ (\A c \in Closers : pc[c] = "returned")
            ~> pc[t] = "returned"
=============================================================================

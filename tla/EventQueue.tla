----------------------------- MODULE EventQueue -----------------------------
(***************************************************************************)
(* PokeHandler's event queue (timeoutpoker.cpp:165-215) statement by       *)
(* statement: several threads in sendEventDelayed, the Looper thread in    *)
(* handleMessage and removeEventByKey, and mEvLock between them.  A        *)
(* message carries only a key; the event is looked up in mQueuedEvents.    *)
(* Looper's own queue has a lock of its own, so that a message may be      *)
(* taken out while a sender is still inside mEvLock.                       *)
(*                                                                         *)
(* Module TimeoutPoker takes each critical section as one action; that the *)
(* statements inside really amount to that is ChannelSpec.                 *)
(***************************************************************************)
EXTENDS Integers, Sequences, LooperQueue, KeyedVector

CONSTANTS
    Events,     \* the events to send, each by a thread of its own
    Delay,      \* the delay each of them is sent with
    Worker,     \* the Looper thread
    NoThread    \* holder of a free mutex

ASSUME EventsAssumption ==
    /\ Delay \in [Events -> Nat]
    /\ Worker \notin Events
    /\ NoThread \notin Events \cup {Worker}

VARIABLES
    mKey, mQueuedEvents, mMessages,
    mEvLock,    \* the thread that holds it: a sender goes by its event
    sender,     \* where each sending thread is, and its local `key'
    looper,     \* where the Looper thread is, with its live locals
    ran         \* the events whose run() has been called

vars == <<mKey, mQueuedEvents, mMessages, mEvLock, sender, looper, ran>>

Poll == [at |-> "poll"]

Init ==
    /\ mKey = 0
    /\ mQueuedEvents = EmptyVector
    /\ mMessages = << >>
    /\ mEvLock = NoThread
    /\ sender = [e \in Events |-> [at |-> "enter", key |-> 0]]
    /\ looper = Poll
    /\ ran = {}

(* Mutants of SenderLock (no Autolock) and SenderUnlock (the mutex is      *)
(* kept).                                                                  *)
SenderNoLock(e) ==
    /\ sender[e].at = "enter"
    /\ sender' = [sender EXCEPT ![e].at = "key"]
    /\ UNCHANGED <<mKey, mQueuedEvents, mMessages, mEvLock, looper, ran>>

SenderKeepsLock(e) ==
    /\ sender[e].at = "unlock"
    /\ sender' = [sender EXCEPT ![e].at = "sent"]
    /\ UNCHANGED <<mKey, mQueuedEvents, mMessages, mEvLock, looper, ran>>

(* sendEventDelayed *)
SenderLock(e) ==
    /\ sender[e].at = "enter"
    /\ mEvLock = NoThread
    /\ mEvLock' = e
    /\ sender' = [sender EXCEPT ![e].at = "key"]
    /\ UNCHANGED <<mKey, mQueuedEvents, mMessages, looper, ran>>

(* generateNewKey's `mKey++' is a load and a store. *)
LoadKey(e) ==
    /\ sender[e].at = "key"
    /\ sender' = [sender EXCEPT ![e] = [at |-> "next", key |-> mKey]]
    /\ UNCHANGED <<mKey, mQueuedEvents, mMessages, mEvLock, looper, ran>>

StoreKey(e) ==
    /\ sender[e].at = "next"
    /\ mKey' = sender[e].key + 1
    /\ sender' = [sender EXCEPT ![e].at = "add"]
    /\ UNCHANGED <<mQueuedEvents, mMessages, mEvLock, looper, ran>>

AddEvent(e) ==
    /\ sender[e].at = "add"
    /\ mQueuedEvents' = Added(mQueuedEvents, sender[e].key, e)
    /\ sender' = [sender EXCEPT ![e].at = "post"]
    /\ UNCHANGED <<mKey, mMessages, mEvLock, looper, ran>>

SendMessageDelayed(e) ==
    /\ sender[e].at = "post"
    /\ LET m == [what |-> sender[e].key, due |-> Delay[e]]
       IN  \E i \in 1 .. Len(mMessages) + 1 :
              /\ IsPlaceFor(mMessages, i, m)
              /\ mMessages' = Placed(mMessages, i, m)
    /\ sender' = [sender EXCEPT ![e].at = "unlock"]
    /\ UNCHANGED <<mKey, mQueuedEvents, mEvLock, looper, ran>>

SenderUnlock(e) ==
    /\ sender[e].at = "unlock"
    /\ mEvLock' = NoThread
    /\ sender' = [sender EXCEPT ![e].at = "sent"]
    /\ UNCHANGED <<mKey, mQueuedEvents, mMessages, looper, ran>>

(* The Looper thread: a message is taken, then handleMessage. *)
Take ==
    /\ looper = Poll
    /\ IsDue(mMessages)
    /\ looper' = [at |-> "lock", key |-> Head(mMessages).what]
    /\ mMessages' = Tail(mMessages)
    /\ UNCHANGED <<mKey, mQueuedEvents, mEvLock, sender, ran>>

WorkerLock ==
    /\ looper.at = "lock"
    /\ mEvLock = NoThread
    /\ mEvLock' = Worker
    /\ looper' = [looper EXCEPT !.at = "find"]
    /\ UNCHANGED <<mKey, mQueuedEvents, mMessages, sender, ran>>

ValueFor ==
    /\ looper.at = "find"
    /\ looper' = [at |-> "remove", key |-> looper.key,
                  ev |-> mQueuedEvents[looper.key]]
    /\ UNCHANGED <<mKey, mQueuedEvents, mMessages, mEvLock, sender, ran>>

RemoveItem ==
    /\ looper.at = "remove"
    /\ mQueuedEvents' = Removed(mQueuedEvents, looper.key)
    /\ looper' = [at |-> "unlock", ev |-> looper.ev]
    /\ UNCHANGED <<mKey, mMessages, mEvLock, sender, ran>>

WorkerUnlock ==
    /\ looper.at = "unlock"
    /\ mEvLock' = NoThread
    /\ looper' = [looper EXCEPT !.at = "run"]
    /\ UNCHANGED <<mKey, mQueuedEvents, mMessages, sender, ran>>

RunEvent ==
    /\ looper.at = "run"
    /\ ran' = ran \cup {looper.ev}
    /\ looper' = Poll
    /\ UNCHANGED <<mKey, mQueuedEvents, mMessages, mEvLock, sender>>

Tick ==
    /\ SomeTimerRuns(mMessages)
    /\ mMessages' = Elapsed(mMessages)
    /\ UNCHANGED <<mKey, mQueuedEvents, mEvLock, sender, looper, ran>>

Sender(e) ==
    \/ SenderLock(e) \/ LoadKey(e) \/ StoreKey(e) \/ AddEvent(e)
    \/ SendMessageDelayed(e) \/ SenderUnlock(e)

LooperThread ==
    \/ Take \/ WorkerLock \/ ValueFor \/ RemoveItem \/ WorkerUnlock \/ RunEvent

Next == Tick \/ LooperThread \/ \E e \in Events : Sender(e)

(* A sender need not call, but leaves the critical section it has entered. *)
(* The Looper thread meets no other contender for mEvLock for ever: there  *)
(* are finitely many senders.                                              *)
Fairness ==
    /\ WF_vars(Tick)
    /\ WF_vars(LooperThread)
    /\ \A e \in Events : WF_vars(mEvLock = e /\ Sender(e))

Spec == Init /\ [][Next]_vars /\ Fairness

-----------------------------------------------------------------------------
(* Properties. *)

(* The keys are invisible: the code behaves as a queue of events.  An      *)
(* event is being run from the moment its message is taken.                *)
waitingBar ==
    [i \in 1 .. Len(mMessages) |->
        [ev |-> mQueuedEvents[mMessages[i].what], due |-> mMessages[i].due]]
ranBar ==
    ran \cup (CASE looper.at \in {"lock", "find"} ->
                     {mQueuedEvents[looper.key]}
                [] looper.at \in {"remove", "unlock", "run"} -> {looper.ev}
                [] OTHER -> {})
Channel == INSTANCE DelayQueue WITH waiting <- waitingBar, ran <- ranBar
ChannelSpec == Channel!Spec

(* An event that was sent is run. *)
SentEventsRun == \A e \in Events : sender[e].at = "key" ~> e \in ran
=============================================================================

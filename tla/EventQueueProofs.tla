-------------------------- MODULE EventQueueProofs --------------------------
(***************************************************************************)
(* PokeHandler's event queue implements DelayQueue, for any number of      *)
(* senders and any delays: the threads take turns under mEvLock, keys stay *)
(* distinct, and Looper's queue, read through mQueuedEvents, is the queue  *)
(* of the events that were sent.  So no event is lost and none runs twice. *)
(***************************************************************************)
EXTENDS EventQueue, TLAPS
LOCAL INSTANCE SequencesExt
LOCAL INSTANCE SequenceTheorems

-----------------------------------------------------------------------------
(* The inductive invariant. *)

Inside == {"key", "next", "add", "post", "unlock"}
SenderStates == [at : Inside \cup {"enter", "sent"}, key : Nat]
LooperStates ==
    {Poll} \cup [at : {"lock", "find"}, key : Nat]
           \cup [at : {"remove"}, key : Nat, ev : Events]
           \cup [at : {"unlock", "run"}, ev : Events]

Types ==
    /\ mKey \in Nat
    /\ mQueuedEvents \in [DOMAIN mQueuedEvents -> Events]
    /\ mMessages \in Seq(Message)
    /\ sender \in [Events -> SenderStates]
    /\ looper \in LooperStates
    /\ ran \subseteq Events

(* mEvLock is held by the thread that is in its critical section.          *)
Turns ==
    /\ \A e \in Events : sender[e].at \in Inside <=> mEvLock = e
    /\ looper.at \in {"find", "remove", "unlock"} <=> mEvLock = Worker

(* The keys of messages, and the one whose message was taken last, are     *)
(* distinct and stand for an event; so is the key that a sender is about   *)
(* to use, which nobody has used before.                                   *)
Key(j) == mMessages[j].what
Queued == 1 .. Len(mMessages)
HasKey == looper.at \in {"lock", "find", "remove"}
IsFree(k) == /\ \A j \in Queued : Key(j) # k
             /\ HasKey => looper.key # k

Keys ==
    /\ DOMAIN mQueuedEvents \subseteq 0 .. mKey - 1
    /\ \A j \in Queued : Key(j) \in DOMAIN mQueuedEvents
    /\ \A j, l \in Queued : j # l => Key(j) # Key(l)
    /\ HasKey => /\ looper.key \in DOMAIN mQueuedEvents
                 /\ \A j \in Queued : Key(j) # looper.key
    /\ looper.at = "remove" => looper.ev = mQueuedEvents[looper.key]

NewKeys ==
    \A e \in Events :
        /\ sender[e].at = "next" => sender[e].key = mKey
        /\ sender[e].at = "add" =>
              /\ sender[e].key + 1 = mKey
              /\ sender[e].key \notin DOMAIN mQueuedEvents
        /\ sender[e].at = "post" =>
              /\ sender[e].key \in DOMAIN mQueuedEvents
              /\ mQueuedEvents[sender[e].key] = e
              /\ IsFree(sender[e].key)

InOrder ==
    \A j, l \in Queued : j < l => mMessages[j].due <= mMessages[l].due

(* What is waiting, taken or run has been sent.                            *)
IsSent(e) == sender[e].at \in {"unlock", "sent"}
Sent ==
    /\ \A j \in Queued : IsSent(mQueuedEvents[Key(j)])
    /\ HasKey => IsSent(mQueuedEvents[looper.key])
    /\ looper.at \in {"unlock", "run"} => IsSent(looper.ev)
    /\ \A e \in ran : IsSent(e)

EInv == Types /\ Turns /\ Keys /\ NewKeys /\ InOrder /\ Sent

-----------------------------------------------------------------------------
(* What an insertion, the loss of the first element and the passing of     *)
(* time do to a queue.                                                     *)

LEMMA InsertedProperties ==
  ASSUME NEW S, NEW q \in Seq(S), NEW x \in S, NEW i \in 1 .. Len(q) + 1
  PROVE  /\ InsertAt(q, i, x) \in Seq(S)
         /\ Len(InsertAt(q, i, x)) = Len(q) + 1
         /\ \A j \in 1 .. Len(q) + 1 :
              InsertAt(q, i, x)[j] = IF j < i THEN q[j]
                                     ELSE IF j = i THEN x
                                     ELSE q[j - 1]
<1> DEFINE a == SubSeq(q, 1, i - 1)
           b == SubSeq(q, i, Len(q))
           c == a \o <<x>>
<1>1. /\ a \in Seq(S)
      /\ Len(a) = i - 1
      /\ \A j \in 1 .. i - 1 : a[j] = q[j]
  BY SMT
<1>2. /\ b \in Seq(S)
      /\ Len(b) = Len(q) - i + 1
      /\ \A j \in 1 .. Len(q) - i + 1 : b[j] = q[i + j - 1]
  BY SMT
<1> HIDE DEF a, b
<1>3. /\ c \in Seq(S)
      /\ Len(c) = i
      /\ \A j \in 1 .. i : c[j] = IF j < i THEN q[j] ELSE x
  BY <1>1, SMT
<1> HIDE DEF c
<1>4. /\ c \o b \in Seq(S)
      /\ Len(c \o b) = Len(q) + 1
      /\ \A j \in 1 .. Len(q) + 1 :
           (c \o b)[j] = IF j <= i THEN c[j] ELSE b[j - i]
  BY <1>2, <1>3, ConcatProperties
<1>5. InsertAt(q, i, x) = c \o b
  BY DEF InsertAt, a, b, c
<1>6. \A j \in 1 .. Len(q) + 1 :
         (c \o b)[j] = IF j < i THEN q[j] ELSE IF j = i THEN x ELSE q[j - 1]
  BY <1>2, <1>3, <1>4, SMT
<1>7. QED
  BY <1>4, <1>5, <1>6


(* The same of a queue of messages, and of a queue of events.              *)
Waiting == [ev : Events, due : Nat]

LEMMA InsertedMessage ==
  ASSUME NEW q \in Seq(Message), NEW x \in Message, NEW i \in 1 .. Len(q) + 1
  PROVE  /\ InsertAt(q, i, x) \in Seq(Message)
         /\ Len(InsertAt(q, i, x)) = Len(q) + 1
         /\ \A j \in 1 .. Len(q) + 1 :
              InsertAt(q, i, x)[j] = IF j < i THEN q[j]
                                     ELSE IF j = i THEN x
                                     ELSE q[j - 1]
BY InsertedProperties, SMT

LEMMA InsertedEvent ==
  ASSUME NEW q \in Seq(Waiting), NEW x \in Waiting, NEW i \in 1 .. Len(q) + 1
  PROVE  /\ InsertAt(q, i, x) \in Seq(Waiting)
         /\ Len(InsertAt(q, i, x)) = Len(q) + 1
         /\ \A j \in 1 .. Len(q) + 1 :
              InsertAt(q, i, x)[j] = IF j < i THEN q[j]
                                     ELSE IF j = i THEN x
                                     ELSE q[j - 1]
BY InsertedProperties, SMT

LEMMA TailProperties ==
  ASSUME NEW S, NEW q \in Seq(S), q # << >>
  PROVE  /\ Tail(q) \in Seq(S)
         /\ Head(q) = q[1] /\ q[1] \in S
         /\ Len(q) \in Nat /\ Len(q) >= 1 /\ Len(Tail(q)) = Len(q) - 1
         /\ \A j \in 1 .. Len(q) - 1 : Tail(q)[j] = q[j + 1]
  BY HeadTailProperties, SMT

LEMMA SameSequence ==
  ASSUME NEW S, NEW T, NEW p \in Seq(S), NEW q \in Seq(T), Len(p) = Len(q),
         \A j \in 1 .. Len(q) : p[j] = q[j]
  PROVE  p = q
  BY SMT

(* The passing of time touches no key and no order.                        *)
LEMMA ElapsedProperties ==
  ASSUME NEW q \in Seq(Message)
  PROVE  /\ Elapsed(q) \in Seq(Message)
         /\ Len(Elapsed(q)) = Len(q)
         /\ \A j \in 1 .. Len(q) :
               /\ Elapsed(q)[j].what = q[j].what
               /\ Elapsed(q)[j].due =
                     IF q[j].due = 0 THEN 0 ELSE q[j].due - 1
<1> DEFINE Less(d) == IF d = 0 THEN 0 ELSE d - 1
<1>1. ASSUME NEW j \in 1 .. Len(q)
      PROVE  /\ Elapsed(q)[j] \in Message
             /\ Elapsed(q)[j].what = q[j].what
             /\ Elapsed(q)[j].due = Less(q[j].due)
  <2>1. q[j] \in Message
    OBVIOUS
  <2>2. Elapsed(q)[j] = [q[j] EXCEPT !.due = Less(q[j].due)]
    BY DEF Elapsed
  <2>3. Less(q[j].due) \in Nat
    BY <2>1 DEF Message
  <2> HIDE DEF Less
  <2>4. QED
    BY <2>1, <2>2, <2>3 DEF Message
<1>2. Len(q) \in Nat /\ DOMAIN Elapsed(q) = 1 .. Len(q)
  BY DEF Elapsed
<1>3. Elapsed(q) = [j \in 1 .. Len(q) |-> Elapsed(q)[j]]
  BY DEF Elapsed
<1>4. Elapsed(q) \in Seq(Message)
  BY <1>1, <1>2, <1>3, IsASeq
<1>5. QED
  BY <1>1, <1>2, <1>4, LenProperties

-----------------------------------------------------------------------------
(* Steps of the threads. *)

(* A sender that gets as far as s. *)
LEMMA SenderMoves ==
  ASSUME Types, NEW e \in Events, NEW s \in SenderStates,
         sender' = [sender EXCEPT ![e] = s]
  PROVE  /\ sender' \in [Events -> SenderStates]
         /\ sender'[e] = s
         /\ \A d \in Events : d # e => sender'[d] = sender[d]
BY DEF Types

LEMMA SenderGoes ==
  ASSUME Types, NEW e \in Events, NEW a \in Inside \cup {"enter", "sent"},
         sender' = [sender EXCEPT ![e].at = a]
  PROVE  /\ sender' \in [Events -> SenderStates]
         /\ sender'[e].at = a /\ sender'[e].key = sender[e].key
         /\ \A d \in Events : d # e => sender'[d] = sender[d]
<1>1. sender[e] \in SenderStates
  BY DEF Types
<1> DEFINE s == [sender[e] EXCEPT !.at = a]
<1>2. s \in SenderStates /\ s.at = a /\ s.key = sender[e].key
  BY <1>1 DEF SenderStates
<1>3. sender' = [sender EXCEPT ![e] = s]
  OBVIOUS
<1> HIDE DEF s
<1>4. QED
  BY <1>2, <1>3, SenderMoves

LEMMA LooperFields ==
  ASSUME Types
  PROVE  /\ HasKey => looper.key \in Nat
         /\ looper.at = "remove" => looper.ev \in Events
         /\ looper.at \in {"unlock", "run"} => looper.ev \in Events
         /\ looper.at = "poll" <=> looper = Poll
         /\ looper.at \in {"poll", "lock", "find", "remove", "unlock", "run"}
BY DEF Types, LooperStates, HasKey, Poll

(* Nobody else is in the critical section.                                 *)
LEMMA Alone ==
  ASSUME EInv
  PROVE  /\ \A d, e \in Events :
               sender[d].at \in Inside /\ sender[e].at \in Inside => d = e
         /\ \A e \in Events :
               sender[e].at \in Inside =>
                  looper.at \notin {"find", "remove", "unlock"}
BY EventsAssumption DEF EInv, Turns

LEMMA InitInv == Init => EInv
<1> SUFFICES ASSUME Init PROVE EInv
  OBVIOUS
<1>1. Types
  BY DEF Init, Types, EmptyVector, SenderStates, LooperStates
<1>2. mMessages = << >> /\ Len(mMessages) = 0 /\ Queued = {}
  BY DEF Init, Queued
<1>3. looper.at = "poll" /\ \A e \in Events : sender[e].at = "enter"
  BY DEF Init, Poll
<1>4. Turns
  BY <1>3, EventsAssumption DEF Init, Turns, Inside
<1>5. Keys
  BY <1>2, <1>3 DEF Init, Keys, EmptyVector, HasKey
<1>6. NewKeys /\ InOrder /\ Sent
  BY <1>2, <1>3 DEF Init, NewKeys, InOrder, Sent, HasKey
<1>7. QED
  BY <1>1, <1>4, <1>5, <1>6 DEF EInv

(* Steps of a sender that leave the queue alone.                           *)
LEMMA PlainSenderInv ==
  ASSUME EInv, NEW e \in Events,
         SenderLock(e) \/ LoadKey(e) \/ StoreKey(e) \/ SenderUnlock(e)
  PROVE  EInv'
<1>1. UNCHANGED <<mQueuedEvents, mMessages, looper, ran>>
  BY DEF SenderLock, LoadKey, StoreKey, SenderUnlock
<1>2. mKey \in Nat /\ sender[e] \in SenderStates /\ sender[e].key \in Nat
  BY DEF EInv, Types, SenderStates
<1>3. /\ sender' \in [Events -> SenderStates]
      /\ \A d \in Events : d # e => sender'[d] = sender[d]
      /\ \/ /\ sender[e].at = "enter" /\ sender'[e].at = "key"
            /\ mEvLock = NoThread /\ mEvLock' = e /\ mKey' = mKey
         \/ /\ sender[e].at = "key" /\ sender'[e].at = "next"
            /\ sender'[e].key = mKey
            /\ UNCHANGED <<mEvLock, mKey>>
         \/ /\ sender[e].at = "next" /\ sender'[e].at = "add"
            /\ sender'[e].key = sender[e].key
            /\ mKey' = sender[e].key + 1 /\ mEvLock' = mEvLock
         \/ /\ sender[e].at = "unlock" /\ sender'[e].at = "sent"
            /\ mEvLock' = NoThread /\ mKey' = mKey
  <2>1. CASE SenderLock(e)
    BY <2>1, SenderGoes DEF SenderLock, EInv, Inside
  <2>2. CASE LoadKey(e)
    <3>1. PICK s : s = [at |-> "next", key |-> mKey]
      OBVIOUS
    <3>2. s \in SenderStates /\ s.at = "next" /\ s.key = mKey
      BY <1>2, <3>1 DEF SenderStates, Inside
    <3>3. sender' = [sender EXCEPT ![e] = s]
      BY <2>2, <3>1 DEF LoadKey
    <3>4. QED
      BY <2>2, <3>2, <3>3, SenderMoves DEF LoadKey, EInv
  <2>3. CASE StoreKey(e)
    BY <2>3, SenderGoes DEF StoreKey, EInv, Inside
  <2>4. CASE SenderUnlock(e)
    BY <2>4, SenderGoes DEF SenderUnlock, EInv, Inside
  <2>5. QED
    BY <2>1, <2>2, <2>3, <2>4
<1>4. mKey' \in Nat /\ mKey' >= mKey
  BY <1>2, <1>3 DEF EInv, NewKeys
<1>5. Types'
  BY <1>1, <1>3, <1>4 DEF EInv, Types
<1>6. Turns'
  <2>1. \A d \in Events : sender'[d].at \in Inside <=> mEvLock' = d
    BY <1>3, EventsAssumption DEF EInv, Turns, Inside
  <2>2. looper.at \in {"find", "remove", "unlock"} <=> mEvLock' = Worker
    BY <1>3, EventsAssumption DEF EInv, Turns, Inside
  <2>3. QED
    BY <1>1, <2>1, <2>2 DEF Turns
<1>7. Keys'
  <2>1. DOMAIN mQueuedEvents \subseteq 0 .. mKey' - 1
    BY <1>2, <1>4 DEF EInv, Keys
  <2>2. QED
    BY <1>1, <2>1 DEF EInv, Keys, Key, Queued, HasKey
<1>8. NewKeys'
  <2> SUFFICES ASSUME NEW d \in Events
               PROVE  /\ sender'[d].at = "next" => sender'[d].key = mKey'
                      /\ sender'[d].at = "add" =>
                            /\ sender'[d].key + 1 = mKey'
                            /\ sender'[d].key \notin DOMAIN mQueuedEvents
                      /\ sender'[d].at = "post" =>
                            /\ sender'[d].key \in DOMAIN mQueuedEvents
                            /\ mQueuedEvents[sender'[d].key] = d
                            /\ IsFree(sender'[d].key)
    BY <1>1 DEF NewKeys, IsFree, Key, Queued, HasKey
  <2>1. CASE d = e
    <3>1. sender'[e].at \in {"key", "next", "add", "sent"}
      BY <1>3
    <3>2. sender'[e].at = "next" => sender'[e].key = mKey'
      BY <1>3
    <3>3. sender'[e].at = "add" =>
             /\ sender'[e].key + 1 = mKey'
             /\ sender'[e].key \notin DOMAIN mQueuedEvents
      <4>1. sender'[e].at = "add" =>
               sender'[e].key = mKey /\ mKey' = mKey + 1
        BY <1>3 DEF EInv, NewKeys
      <4>2. mKey \notin DOMAIN mQueuedEvents
        BY <1>2 DEF EInv, Keys
      <4>3. QED
        BY <4>1, <4>2
    <3>4. QED
      BY <2>1, <3>1, <3>2, <3>3
  <2>2. CASE d # e
    <3>1. mKey' = mKey \/ sender[d].at \notin Inside
      BY <1>3, <2>2, Alone DEF Inside
    <3>2. sender'[d] = sender[d]
      BY <1>3, <2>2
    <3>3. QED
      BY <3>1, <3>2 DEF EInv, NewKeys, Inside
  <2>3. QED
    BY <2>1, <2>2
<1>9. InOrder'
  BY <1>1 DEF EInv, InOrder, Queued
<1>10. \A d \in Events : IsSent(d) => IsSent(d)'
  BY <1>3 DEF IsSent
<1>11. Sent'
  <2>1. /\ \A j \in Queued : mQueuedEvents[Key(j)] \in Events
        /\ HasKey => mQueuedEvents[looper.key] \in Events
        /\ looper.at \in {"unlock", "run"} => looper.ev \in Events
        /\ ran \subseteq Events
    BY LooperFields DEF EInv, Types, Keys
  <2>2. QED
    BY <1>1, <1>10, <2>1 DEF EInv, Sent, Key, Queued, HasKey
<1>12. QED
  BY <1>5, <1>6, <1>7, <1>8, <1>9, <1>11 DEF EInv

(* mQueuedEvents.add(key, ev): no key but the new one has another event.   *)
LEMMA AddEventInv ==
  ASSUME EInv, NEW e \in Events, AddEvent(e)
  PROVE  /\ EInv'
         /\ \A k \in DOMAIN mQueuedEvents : mQueuedEvents'[k] = mQueuedEvents[k]
<1> DEFINE key == sender[e].key
<1>1. sender[e].at = "add" /\ UNCHANGED <<mKey, mMessages, mEvLock, looper, ran>>
  BY DEF AddEvent
<1>2. /\ sender' \in [Events -> SenderStates]
      /\ sender'[e].at = "post" /\ sender'[e].key = key
      /\ \A d \in Events : d # e => sender'[d] = sender[d]
  BY SenderGoes DEF AddEvent, EInv, Inside
<1>3. /\ mKey \in Nat /\ key \in Nat /\ key + 1 = mKey
      /\ key \notin DOMAIN mQueuedEvents
  BY <1>1 DEF EInv, NewKeys, Types, SenderStates
<1>4. mQueuedEvents' = [k \in DOMAIN mQueuedEvents \cup {key} |->
                           IF k = key THEN e ELSE mQueuedEvents[k]]
  BY DEF AddEvent, Added
<1> HIDE DEF key
<1>5. /\ DOMAIN mQueuedEvents' = DOMAIN mQueuedEvents \cup {key}
      /\ mQueuedEvents'[key] = e
      /\ \A k \in DOMAIN mQueuedEvents : mQueuedEvents'[k] = mQueuedEvents[k]
  BY <1>3, <1>4
<1>6. mQueuedEvents' \in [DOMAIN mQueuedEvents' -> Events]
  BY <1>4, <1>5 DEF EInv, Types
<1>7. Types'
  BY <1>1, <1>2, <1>6 DEF EInv, Types
<1>8. Turns'
  BY <1>1, <1>2 DEF EInv, Turns, Inside
<1>9. Keys'
  <2>1. DOMAIN mQueuedEvents' \subseteq 0 .. mKey - 1
    BY <1>3, <1>5 DEF EInv, Keys
  <2>2. QED
    BY <1>1, <1>5, <2>1 DEF EInv, Keys, Key, Queued, HasKey
<1>10. NewKeys'
  <2>1. IsFree(key)
    BY <1>3 DEF EInv, Keys, IsFree
  <2>2. ASSUME NEW d \in Events, d # e
        PROVE  sender'[d] = sender[d] /\ sender[d].at \notin Inside
    BY <1>1, <1>2, <2>2, Alone DEF Inside
  <2>3. QED
    BY <1>1, <1>2, <1>5, <2>1, <2>2
       DEF NewKeys, IsFree, Key, Queued, HasKey, Inside
<1>11. InOrder'
  BY <1>1 DEF EInv, InOrder, Queued
<1>12. Sent'
  <2>1. \A d \in Events : IsSent(d) => IsSent(d)'
    BY <1>1, <1>2 DEF IsSent
  <2>2. /\ \A j \in Queued : Key(j) \in DOMAIN mQueuedEvents
        /\ HasKey => looper.key \in DOMAIN mQueuedEvents
        /\ \A k \in DOMAIN mQueuedEvents : mQueuedEvents[k] \in Events
        /\ looper.at \in {"unlock", "run"} => looper.ev \in Events
        /\ ran \subseteq Events
    BY LooperFields DEF EInv, Types, Keys
  <2>3. QED
    BY <1>1, <1>5, <2>1, <2>2 DEF EInv, Sent, Key, Queued, HasKey
<1>13. QED
  BY <1>5, <1>7, <1>8, <1>9, <1>10, <1>11, <1>12 DEF EInv

LEMMA QueueTypes ==
  ASSUME EInv
  PROVE  /\ mMessages \in Seq(Message) /\ Len(mMessages) \in Nat
         /\ \A j \in Queued : /\ mMessages[j] \in Message
                              /\ mMessages[j].due \in Nat
         /\ \A e \in Events : Delay[e] \in Nat
<1>1. mMessages \in Seq(Message) /\ Len(mMessages) \in Nat
  BY DEF EInv, Types
<1>2. \A j \in Queued : mMessages[j] \in Message
  BY <1>1 DEF Queued
<1>3. \A e \in Events : Delay[e] \in Nat
  BY EventsAssumption
<1>4. \A x \in Message : x.due \in Nat
  BY DEF Message
<1>5. QED
  BY <1>1, <1>2, <1>3, <1>4

(* sendMessageDelayed: where the message goes.                             *)
LEMMA PlaceFound ==
  ASSUME EInv, NEW e \in Events, SendMessageDelayed(e)
  PROVE  \E i \in 1 .. Len(mMessages) + 1 :
           /\ mMessages' = InsertAt(mMessages, i,
                              [what |-> sender[e].key, due |-> Delay[e]])
           /\ \A j \in Queued : mMessages[j].due <= Delay[e] <=> j < i
<1> DEFINE m == [what |-> sender[e].key, due |-> Delay[e]]
<1>1. PICK i \in 1 .. Len(mMessages) + 1 :
         IsPlaceFor(mMessages, i, m) /\ mMessages' = Placed(mMessages, i, m)
  BY DEF SendMessageDelayed
<1>2. mMessages' = InsertAt(mMessages, i, m)
  BY <1>1 DEF Placed, InsertAt
<1>3. /\ \A j \in 1 .. i - 1 : mMessages[j].due <= Delay[e]
      /\ i <= Len(mMessages) => mMessages[i].due > Delay[e]
  BY <1>1 DEF IsPlaceFor
<1>4. /\ Len(mMessages) \in Nat /\ Delay[e] \in Nat
      /\ \A j \in Queued : mMessages[j].due \in Nat
  BY QueueTypes
<1>5. ASSUME NEW j \in Queued
      PROVE  mMessages[j].due <= Delay[e] <=> j < i
  <2>1. CASE j < i
    BY <1>3, <2>1 DEF Queued
  <2>2. CASE j >= i
    <3>1. i \in Queued /\ mMessages[i].due > Delay[e]
      BY <1>3, <1>4, <2>2 DEF Queued
    <3>2. mMessages[i].due <= mMessages[j].due
      <4>1. CASE i = j
        BY <1>4, <4>1
      <4>2. CASE i # j
        BY <2>2, <3>1, <4>2 DEF EInv, InOrder, Queued
      <4>3. QED
        BY <4>1, <4>2
    <3>3. ~(mMessages[j].due <= Delay[e])
      BY <1>4, <3>1, <3>2
    <3>4. QED
      BY <2>2, <3>3 DEF Queued
  <2>3. QED
    BY <2>1, <2>2 DEF Queued
<1>6. QED
  BY <1>2, <1>5

(* What is in the queue then: Old(j) is the place that the j-th message    *)
(* had before.                                                             *)
LEMMA QueueAfterSend ==
  ASSUME EInv, NEW e \in Events, sender[e].at = "post",
         NEW i \in 1 .. Len(mMessages) + 1,
         mMessages' = InsertAt(mMessages, i,
                         [what |-> sender[e].key, due |-> Delay[e]]),
         \A j \in Queued : mMessages[j].due <= Delay[e] <=> j < i
  PROVE  /\ mMessages' \in Seq(Message)
         /\ Len(mMessages') = Len(mMessages) + 1
         /\ \A j \in Queued' :
               mMessages'[j] = IF j < i THEN mMessages[j]
                               ELSE IF j = i
                                    THEN [what |-> sender[e].key,
                                          due |-> Delay[e]]
                                    ELSE mMessages[j - 1]
         /\ \A j, l \in Queued' : j # l => mMessages'[j].what # mMessages'[l].what
         /\ InOrder'
<1> DEFINE m == [what |-> sender[e].key, due |-> Delay[e]]
           Old(j) == IF j < i THEN j ELSE j - 1
<1>1. m \in Message
  BY EventsAssumption DEF EInv, Types, SenderStates, Message
<1>2. mMessages \in Seq(Message) /\ Len(mMessages) \in Nat
  BY DEF EInv, Types
<1>3. m.what = sender[e].key /\ m.due = Delay[e]
  OBVIOUS
<1> HIDE DEF m
<1>4. /\ mMessages' \in Seq(Message)
      /\ Len(mMessages') = Len(mMessages) + 1
      /\ \A j \in 1 .. Len(mMessages) + 1 :
            mMessages'[j] = IF j < i THEN mMessages[j]
                            ELSE IF j = i THEN m ELSE mMessages[j - 1]
  <2>1. mMessages' = InsertAt(mMessages, i, m)
    BY DEF m
  <2>2. /\ InsertAt(mMessages, i, m) \in Seq(Message)
        /\ Len(InsertAt(mMessages, i, m)) = Len(mMessages) + 1
        /\ \A j \in 1 .. Len(mMessages) + 1 :
              InsertAt(mMessages, i, m)[j] =
                 IF j < i THEN mMessages[j]
                 ELSE IF j = i THEN m ELSE mMessages[j - 1]
    BY <1>1, <1>2, InsertedMessage
  <2>3. QED
    BY <2>1, <2>2, Zenon
<1>5. Queued' = 1 .. Len(mMessages) + 1
  BY <1>4 DEF Queued
<1>6. \A j \in Queued' : j # i => Old(j) \in Queued
                                  /\ mMessages'[j] = mMessages[Old(j)]
  BY <1>2, <1>4, <1>5 DEF Queued
<1>7. mMessages'[i] = m
  BY <1>2, <1>4
<1>8. \A j, l \in Queued' : j # i /\ l # i => /\ j # l => Old(j) # Old(l)
                                              /\ j < l => Old(j) < Old(l)
  BY <1>2, <1>5
<1>9. \A j \in Queued' : /\ j < i => Old(j) < i
                         /\ j > i => ~(Old(j) < i)
  BY <1>2, <1>5
<1> HIDE DEF Old
<1>10. \A j, l \in Queued' : j # l => mMessages'[j].what # mMessages'[l].what
  <2>1. \A j \in Queued : Key(j) # sender[e].key
    BY DEF EInv, NewKeys, IsFree
  <2>2. QED
    BY <1>3, <1>6, <1>7, <1>8, <2>1 DEF EInv, Keys, Key
<1>11. InOrder'
  <2> SUFFICES ASSUME NEW j \in Queued', NEW l \in Queued', j < l
               PROVE  mMessages'[j].due <= mMessages'[l].due
    BY DEF InOrder
  <2>0. j \in Nat /\ l \in Nat /\ i \in Nat
    BY <1>5
  <2>1. CASE j # i /\ l # i
    BY <1>6, <1>8, <2>1 DEF EInv, InOrder
  <2>2. CASE j = i
    <3>1. l # i /\ l > i
      BY <2>0, <2>2
    <3>2. Old(l) \in Queued /\ ~(mMessages[Old(l)].due <= Delay[e])
      BY <1>6, <1>9, <3>1
    <3>3. mMessages[Old(l)].due \in Nat /\ Delay[e] \in Nat
      BY <3>2, QueueTypes
    <3>4. QED
      BY <1>3, <1>6, <1>7, <2>2, <3>1, <3>2, <3>3
  <2>3. CASE l = i
    <3>1. j # i /\ j < i
      BY <2>0, <2>3
    <3>2. QED
      BY <1>3, <1>6, <1>7, <1>9, <2>3, <3>1
  <2>4. QED
    BY <2>1, <2>2, <2>3
<1>12. QED
  BY <1>4, <1>5, <1>10, <1>11 DEF m

LEMMA SendMessageInv ==
  ASSUME EInv, NEW e \in Events, SendMessageDelayed(e)
  PROVE  EInv'
<1>1. /\ sender[e].at = "post"
      /\ UNCHANGED <<mKey, mQueuedEvents, mEvLock, looper, ran>>
  BY DEF SendMessageDelayed
<1>2. /\ sender' \in [Events -> SenderStates]
      /\ sender'[e].at = "unlock"
      /\ \A d \in Events : d # e => sender'[d] = sender[d]
  BY SenderGoes DEF SendMessageDelayed, EInv, Inside
<1>3. PICK i \in 1 .. Len(mMessages) + 1 :
           /\ mMessages' = InsertAt(mMessages, i,
                              [what |-> sender[e].key, due |-> Delay[e]])
           /\ \A j \in Queued : mMessages[j].due <= Delay[e] <=> j < i
  BY PlaceFound
<1>4. /\ mMessages' \in Seq(Message)
      /\ Len(mMessages') = Len(mMessages) + 1
      /\ \A j \in Queued' :
            mMessages'[j] = IF j < i THEN mMessages[j]
                            ELSE IF j = i THEN [what |-> sender[e].key,
                                                due |-> Delay[e]]
                            ELSE mMessages[j - 1]
      /\ \A j, l \in Queued' : j # l => mMessages'[j].what # mMessages'[l].what
      /\ InOrder'
  BY <1>1, <1>3, QueueAfterSend
<1>5. /\ sender[e].key \in DOMAIN mQueuedEvents
      /\ mQueuedEvents[sender[e].key] = e
      /\ IsFree(sender[e].key)
  BY <1>1 DEF EInv, NewKeys
<1>6. ASSUME NEW j \in Queued'
      PROVE  mMessages'[j].what = sender[e].key \/ \E l \in Queued : mMessages'[j].what = Key(l)
  <2>1. j \in 1 .. Len(mMessages) + 1 /\ Len(mMessages) \in Nat
    BY <1>4, QueueTypes DEF Queued
  <2>2. CASE j < i
    <3>1. j \in Queued /\ mMessages'[j] = mMessages[j]
      BY <1>4, <2>1, <2>2 DEF Queued
    <3>2. QED
      BY <3>1 DEF Key
  <2>3. CASE j = i
    BY <1>4, <2>3 DEF Key
  <2>4. CASE j > i
    <3>1. j - 1 \in Queued /\ mMessages'[j] = mMessages[j - 1]
      BY <1>4, <2>1, <2>4 DEF Queued
    <3>2. QED
      BY <3>1 DEF Key
  <2>5. QED
    BY <2>1, <2>2, <2>3, <2>4
<1>7. Types'
  BY <1>1, <1>2, <1>4 DEF EInv, Types
<1>8. Turns'
  BY <1>1, <1>2 DEF EInv, Turns, Inside
<1>9. Keys'
  <2>1. \A j \in Queued' : mMessages'[j].what \in DOMAIN mQueuedEvents
    BY <1>5, <1>6 DEF EInv, Keys
  <2>2. HasKey => \A j \in Queued' : mMessages'[j].what # looper.key
    BY <1>5, <1>6 DEF EInv, Keys, IsFree
  <2>3. QED
    BY <1>1, <1>4, <2>1, <2>2 DEF EInv, Keys, Key, HasKey
<1>10. NewKeys'
  <2>1. ASSUME NEW d \in Events
        PROVE  sender'[d].at \notin {"next", "add", "post"}
    BY <1>1, <1>2, Alone DEF Inside
  <2>2. QED
    BY <2>1 DEF NewKeys
<1>11. Sent'
  <2>1. \A d \in Events : IsSent(d) => IsSent(d)'
    BY <1>1, <1>2 DEF IsSent
  <2>2. IsSent(e)'
    BY <1>2 DEF IsSent
  <2>3. /\ \A j \in Queued : Key(j) \in DOMAIN mQueuedEvents
        /\ HasKey => looper.key \in DOMAIN mQueuedEvents
        /\ \A k \in DOMAIN mQueuedEvents : mQueuedEvents[k] \in Events
        /\ looper.at \in {"unlock", "run"} => looper.ev \in Events
        /\ ran \subseteq Events
    BY LooperFields DEF EInv, Types, Keys
  <2>4. \A j \in Queued' : sender'[mQueuedEvents[mMessages'[j].what]].at \in {"unlock", "sent"}
    <3> SUFFICES ASSUME NEW j \in Queued'
                 PROVE  sender'[mQueuedEvents[mMessages'[j].what]].at \in {"unlock", "sent"}
      OBVIOUS
    <3>1. CASE mMessages'[j].what = sender[e].key
      BY <1>1, <1>5, <2>2, <3>1 DEF IsSent
    <3>2. CASE mMessages'[j].what # sender[e].key
      <4>1. PICK l \in Queued : mMessages'[j].what = Key(l)
        BY <1>6, <3>2
      <4>2. IsSent(mQueuedEvents[Key(l)]) /\ mQueuedEvents[Key(l)] \in Events
        BY <2>3 DEF EInv, Sent
      <4>3. QED
        BY <1>1, <2>1, <4>1, <4>2 DEF IsSent
    <3>3. QED
      BY <3>1, <3>2
  <2>5. QED
    BY <1>1, <2>1, <2>3, <2>4 DEF EInv, Sent, Key, HasKey, IsSent
<1>12. QED
  BY <1>4, <1>7, <1>8, <1>9, <1>10, <1>11 DEF EInv

(* A message is taken: its key goes with it. *)
LEMMA TakeInv ==
  ASSUME EInv, Take
  PROVE  /\ EInv'
         /\ looper' = [at |-> "lock", key |-> Key(1)]
         /\ 1 \in Queued /\ mMessages[1].due = 0
         /\ Len(mMessages') = Len(mMessages) - 1
         /\ \A j \in Queued' :
               j + 1 \in Queued /\ mMessages'[j] = mMessages[j + 1]
<1>1. /\ looper = Poll /\ looper.at = "poll"
      /\ mMessages # << >> /\ Head(mMessages).due = 0
      /\ looper' = [at |-> "lock", key |-> Head(mMessages).what]
      /\ mMessages' = Tail(mMessages)
      /\ UNCHANGED <<mKey, mQueuedEvents, mEvLock, sender, ran>>
  BY DEF Take, IsDue, Poll
<1>2. /\ mMessages' \in Seq(Message)
      /\ Head(mMessages) = mMessages[1] /\ Head(mMessages) \in Message
      /\ Len(mMessages) \in Nat /\ Len(mMessages) >= 1
      /\ Len(mMessages') = Len(mMessages) - 1
      /\ \A j \in 1 .. Len(mMessages) - 1 : mMessages'[j] = mMessages[j + 1]
  BY <1>1, TailProperties DEF EInv, Types
<1>3. 1 \in Queued /\ looper' = [at |-> "lock", key |-> Key(1)]
  BY <1>1, <1>2 DEF Queued, Key
<1>4. \A j \in Queued' : /\ j + 1 \in Queued /\ j + 1 # 1
                         /\ mMessages'[j] = mMessages[j + 1]
  BY <1>2 DEF Queued
<1>5. Key(1) \in Nat
  BY <1>2 DEF Key, Message
<1>6. Types'
  <2>1. looper' \in LooperStates
    BY <1>3, <1>5 DEF LooperStates
  <2>2. QED
    BY <1>1, <1>2, <2>1 DEF EInv, Types
<1>7. looper'.at = "lock" /\ looper'.key = Key(1) /\ HasKey'
  BY <1>3 DEF HasKey
<1>8. Turns'
  BY <1>1, <1>7 DEF EInv, Turns
<1>9. \A j \in Queued' : mMessages'[j].what = Key(j + 1)
  BY <1>4 DEF Key
<1>10. Keys'
  <2>1. \A j, l \in Queued' : j # l => mMessages'[j].what # mMessages'[l].what
    <3>1. \A j, l \in Queued' : j # l => j + 1 # l + 1
      BY DEF Queued
    <3>2. QED
      BY <1>4, <1>9, <3>1 DEF EInv, Keys
  <2>2. \A j \in Queued' : mMessages'[j].what # looper'.key
    BY <1>3, <1>4, <1>7, <1>9 DEF EInv, Keys
  <2>3. QED
    BY <1>1, <1>3, <1>4, <1>7, <1>9, <2>1, <2>2 DEF EInv, Keys, Key
<1>11. NewKeys'
  <2>1. \A k : IsFree(k) => IsFree(k)'
    BY <1>3, <1>4, <1>7, <1>9 DEF IsFree, Key
  <2>2. QED
    BY <1>1, <2>1 DEF EInv, NewKeys
<1>12. InOrder'
  <2>1. \A j, l \in Queued' : j < l => j + 1 < l + 1
    BY DEF Queued
  <2>2. QED
    BY <1>4, <2>1 DEF EInv, InOrder
<1>13. Sent'
  BY <1>1, <1>3, <1>4, <1>7, <1>9 DEF EInv, Sent, IsSent, Key
<1>14. QED
  BY <1>1, <1>2, <1>3, <1>4, <1>6, <1>8, <1>10, <1>11, <1>12, <1>13 DEF EInv

(* Steps of the Looper thread that leave both queues alone.                *)
LEMMA PlainLooperInv ==
  ASSUME EInv, WorkerLock \/ ValueFor \/ WorkerUnlock \/ RunEvent
  PROVE  EInv'
<1>1. UNCHANGED <<mKey, mQueuedEvents, mMessages, sender>>
  BY DEF WorkerLock, ValueFor, WorkerUnlock, RunEvent
<1>2. Queued' = Queued /\ \A e : IsSent(e)' <=> IsSent(e)
  BY <1>1 DEF Queued, IsSent
<1>3. CASE WorkerLock
  <2>1. /\ looper.at = "lock" /\ looper' = [looper EXCEPT !.at = "find"]
        /\ mEvLock = NoThread /\ mEvLock' = Worker /\ ran' = ran
    BY <1>3 DEF WorkerLock
  <2>2. /\ looper' \in LooperStates /\ looper'.at = "find"
        /\ looper'.key = looper.key
    BY <2>1 DEF EInv, Types, LooperStates, Poll
  <2>3. Types'
    BY <1>1, <2>1, <2>2 DEF EInv, Types
  <2>4. Turns'
    BY <1>1, <2>1, <2>2, EventsAssumption DEF EInv, Turns
  <2>5. Keys' /\ NewKeys' /\ Sent'
    BY <1>1, <1>2, <2>1, <2>2
       DEF EInv, Keys, NewKeys, Sent, Key, HasKey, IsFree
  <2>6. QED
    BY <1>1, <1>2, <2>3, <2>4, <2>5 DEF EInv, InOrder
<1>4. CASE ValueFor
  <2>1. /\ looper.at = "find"
        /\ looper' = [at |-> "remove", key |-> looper.key,
                      ev |-> mQueuedEvents[looper.key]]
        /\ UNCHANGED <<mEvLock, ran>>
    BY <1>4 DEF ValueFor
  <2>2. looper' \in LooperStates
    BY <2>1, LooperFields DEF EInv, Types, Keys, HasKey, LooperStates
  <2>3. Types'
    BY <1>1, <2>1, <2>2 DEF EInv, Types
  <2>4. Turns'
    BY <1>1, <2>1 DEF EInv, Turns
  <2>5. Keys' /\ NewKeys' /\ Sent'
    BY <1>1, <1>2, <2>1 DEF EInv, Keys, NewKeys, Sent, Key, HasKey, IsFree
  <2>6. QED
    BY <1>1, <1>2, <2>3, <2>4, <2>5 DEF EInv, InOrder
<1>5. CASE WorkerUnlock
  <2>1. /\ looper.at = "unlock" /\ looper' = [looper EXCEPT !.at = "run"]
        /\ mEvLock' = NoThread /\ ran' = ran
    BY <1>5 DEF WorkerUnlock
  <2>2. /\ looper' \in LooperStates /\ looper'.at = "run"
        /\ looper'.ev = looper.ev
    BY <2>1 DEF EInv, Types, LooperStates, Poll
  <2>3. Types'
    BY <1>1, <2>1, <2>2 DEF EInv, Types
  <2>4. Turns'
    BY <1>1, <2>1, <2>2, EventsAssumption DEF EInv, Turns
  <2>5. Keys' /\ NewKeys' /\ Sent'
    BY <1>1, <1>2, <2>1, <2>2
       DEF EInv, Keys, NewKeys, Sent, Key, HasKey, IsFree
  <2>6. QED
    BY <1>1, <1>2, <2>3, <2>4, <2>5 DEF EInv, InOrder
<1>6. CASE RunEvent
  <2>1. /\ looper.at = "run" /\ looper' = Poll
        /\ ran' = ran \cup {looper.ev} /\ mEvLock' = mEvLock
    BY <1>6 DEF RunEvent
  <2>2. looper'.at = "poll" /\ looper' \in LooperStates
    BY <2>1 DEF Poll, LooperStates
  <2>3. Types'
    BY <1>1, <2>1, <2>2, LooperFields DEF EInv, Types
  <2>4. Turns'
    BY <1>1, <2>1, <2>2 DEF EInv, Turns
  <2>5. Keys' /\ NewKeys' /\ Sent'
    BY <1>1, <1>2, <2>1, <2>2
       DEF EInv, Keys, NewKeys, Sent, Key, HasKey, IsFree
  <2>6. QED
    BY <1>1, <1>2, <2>3, <2>4, <2>5 DEF EInv, InOrder
<1>7. QED
  BY <1>3, <1>4, <1>5, <1>6

(* removeItem: no other key loses its event.                               *)
LEMMA RemoveItemInv ==
  ASSUME EInv, RemoveItem
  PROVE  /\ EInv'
         /\ \A k \in DOMAIN mQueuedEvents :
               k # looper.key => mQueuedEvents'[k] = mQueuedEvents[k]
<1>1. /\ looper.at = "remove"
      /\ mQueuedEvents' = [k \in DOMAIN mQueuedEvents \ {looper.key} |->
                              mQueuedEvents[k]]
      /\ looper' = [at |-> "unlock", ev |-> looper.ev]
      /\ UNCHANGED <<mKey, mMessages, mEvLock, sender, ran>>
  BY DEF RemoveItem, Removed
<1>2. /\ DOMAIN mQueuedEvents' = DOMAIN mQueuedEvents \ {looper.key}
      /\ \A k \in DOMAIN mQueuedEvents :
            k # looper.key => mQueuedEvents'[k] = mQueuedEvents[k]
  BY <1>1
<1>3. mQueuedEvents' \in [DOMAIN mQueuedEvents' -> Events]
  BY <1>1, <1>2 DEF EInv, Types
<1>4. Queued' = Queued /\ \A e : IsSent(e)' <=> IsSent(e)
  BY <1>1 DEF Queued, IsSent
<1>5. looper.ev = mQueuedEvents[looper.key] /\ looper.ev \in Events
      /\ \A j \in Queued : Key(j) # looper.key
  BY <1>1, LooperFields DEF EInv, Keys, HasKey
<1>6. Types'
  BY <1>1, <1>3, <1>5 DEF EInv, Types, LooperStates
<1>7. Turns'
  BY <1>1 DEF EInv, Turns
<1>8. Keys'
  <2>1. \A j \in Queued : Key(j) \in DOMAIN mQueuedEvents'
    BY <1>2, <1>5 DEF EInv, Keys
  <2>2. DOMAIN mQueuedEvents' \subseteq 0 .. mKey - 1
    BY <1>2 DEF EInv, Keys
  <2>3. QED
    BY <1>1, <1>4, <2>1, <2>2 DEF EInv, Keys, Key, HasKey
<1>9. NewKeys'
  <2>1. \A e \in Events : sender[e].at \notin Inside
    BY <1>1, Alone
  <2>2. QED
    BY <1>1, <2>1 DEF NewKeys, Inside
<1>10. InOrder'
  BY <1>1, <1>4 DEF EInv, InOrder
<1>11. Sent'
  <2>1. \A j \in Queued : mQueuedEvents'[Key(j)] = mQueuedEvents[Key(j)]
    BY <1>2, <1>5 DEF EInv, Keys
  <2>2. IsSent(looper.ev)
    BY <1>1, <1>5 DEF EInv, Sent, HasKey
  <2>3. QED
    BY <1>1, <1>4, <2>1, <2>2 DEF EInv, Sent, Key, HasKey, IsSent
<1>12. QED
  BY <1>2, <1>6, <1>7, <1>8, <1>9, <1>10, <1>11 DEF EInv

(* Time passes for all messages alike: a message due later stays later.    *)
LEMMA TickInv ==
  ASSUME EInv, Tick
  PROVE  EInv'
<1>1. /\ mMessages' = Elapsed(mMessages)
      /\ UNCHANGED <<mKey, mQueuedEvents, mEvLock, sender, looper, ran>>
  BY DEF Tick
<1>2. /\ mMessages' \in Seq(Message)
      /\ Queued' = Queued
      /\ \A j \in Queued :
            /\ mMessages'[j].what = mMessages[j].what
            /\ mMessages'[j].due =
                  IF mMessages[j].due = 0 THEN 0 ELSE mMessages[j].due - 1
  BY <1>1, ElapsedProperties DEF EInv, Types, Queued
<1>3. Types'
  BY <1>1, <1>2 DEF EInv, Types
<1>4. Turns' /\ Keys' /\ NewKeys' /\ Sent'
  BY <1>1, <1>2
     DEF EInv, Turns, Keys, NewKeys, Sent, Key, HasKey, IsFree, IsSent
<1>5. InOrder'
  <2>1. \A j \in Queued : mMessages[j].due \in Nat
    BY QueueTypes
  <2>2. QED
    BY <1>2, <2>1 DEF EInv, InOrder
<1>6. QED
  BY <1>3, <1>4, <1>5 DEF EInv

LEMMA NextInv == EInv /\ [Next]_vars => EInv'
<1> SUFFICES ASSUME EInv, [Next]_vars PROVE EInv'
  OBVIOUS
<1>1. CASE Tick
  BY <1>1, TickInv
<1>2. CASE LooperThread
  BY <1>2, TakeInv, PlainLooperInv, RemoveItemInv DEF LooperThread
<1>3. ASSUME NEW e \in Events, Sender(e) PROVE EInv'
  BY <1>3, PlainSenderInv, AddEventInv, SendMessageInv DEF Sender
<1>4. CASE UNCHANGED vars
  BY <1>4
     DEF vars, EInv, Types, Turns, Keys, NewKeys, InOrder, Sent, Key, Queued,
         HasKey, IsFree, IsSent
<1>5. QED
  BY <1>1, <1>2, <1>3, <1>4 DEF Next

LEMMA Invariant == Spec => []EInv
<1>1. Init => EInv
  BY InitInv
<1>2. EInv /\ [Next]_vars => EInv'
  BY NextInv
<1>3. QED
  BY <1>1, <1>2, PTL DEF Spec

-----------------------------------------------------------------------------
(* The refinement. *)

Bar(j) == [ev |-> mQueuedEvents[Key(j)], due |-> mMessages[j].due]

LEMMA BarFields ==
  \A j : Bar(j).ev = mQueuedEvents[Key(j)] /\ Bar(j).due = mMessages[j].due
BY DEF Bar

LEMMA BarIsQueue ==
  ASSUME EInv
  PROVE  /\ waitingBar \in Seq(Waiting)
         /\ Len(waitingBar) = Len(mMessages)
         /\ \A j \in Queued : waitingBar[j] = Bar(j) /\ Bar(j) \in Waiting
<1>1. \A j \in Queued : waitingBar[j] = Bar(j)
  BY DEF waitingBar, Bar, Queued, Key
<1>2. ASSUME NEW j \in Queued PROVE Bar(j) \in Waiting
  <2>1. mQueuedEvents[Key(j)] \in Events
    BY DEF EInv, Keys, Types
  <2>2. mMessages[j].due \in Nat
    BY QueueTypes
  <2>3. QED
    BY <2>1, <2>2 DEF Bar, Waiting
<1>3. Len(mMessages) \in Nat
  BY QueueTypes
<1>4. waitingBar = [j \in 1 .. Len(mMessages) |-> waitingBar[j]]
  BY DEF waitingBar
<1>5. waitingBar \in Seq(Waiting)
  BY <1>1, <1>2, <1>3, <1>4, IsASeq DEF Queued
<1>6. DOMAIN waitingBar = 1 .. Len(mMessages)
  BY DEF waitingBar
<1>7. Len(waitingBar) = Len(mMessages)
  BY <1>3, <1>5, <1>6, LenProperties
<1>8. QED
  BY <1>1, <1>2, <1>5, <1>7

(* Steps that the callers of the queue cannot see.                         *)
LEMMA SameBar ==
  ASSUME EInv, EInv', UNCHANGED mMessages,
         \A j \in Queued : mQueuedEvents'[Key(j)] = mQueuedEvents[Key(j)]
  PROVE  waitingBar' = waitingBar
<1>1. /\ Len(mMessages') = Len(mMessages)
      /\ \A j \in 1 .. Len(mMessages) :
            [ev |-> mQueuedEvents'[mMessages'[j].what],
             due |-> mMessages'[j].due] =
            [ev |-> mQueuedEvents[mMessages[j].what],
             due |-> mMessages[j].due]
  BY DEF Key, Queued
<1>2. QED
  BY <1>1, Zenon DEF waitingBar

LEMMA HiddenSteps ==
  ASSUME EInv, EInv',
         \/ \E e \in Events : \/ SenderLock(e) \/ LoadKey(e) \/ StoreKey(e)
                              \/ AddEvent(e) \/ SenderUnlock(e)
         \/ WorkerLock \/ ValueFor \/ RemoveItem \/ WorkerUnlock \/ RunEvent
         \/ UNCHANGED vars
  PROVE  UNCHANGED <<waitingBar, ranBar>>
<1>1. UNCHANGED mMessages
  BY DEF SenderLock, LoadKey, StoreKey, AddEvent, SenderUnlock, WorkerLock,
         ValueFor, RemoveItem, WorkerUnlock, RunEvent, vars
<1>2. \/ UNCHANGED mQueuedEvents
      \/ \E e \in Events : AddEvent(e)
      \/ RemoveItem
  BY DEF SenderLock, LoadKey, StoreKey, SenderUnlock, WorkerLock,
         ValueFor, WorkerUnlock, RunEvent, vars
<1>3. \A j \in Queued : mQueuedEvents'[Key(j)] = mQueuedEvents[Key(j)]
  <2>1. CASE \E e \in Events : AddEvent(e)
    BY <2>1, AddEventInv DEF EInv, Keys
  <2>2. CASE RemoveItem
    <3>1. HasKey
      BY <2>2 DEF RemoveItem, HasKey
    <3>2. QED
      BY <2>2, <3>1, RemoveItemInv DEF EInv, Keys
  <2>3. QED
    BY <1>2, <2>1, <2>2
<1>4. waitingBar' = waitingBar
  BY <1>1, <1>3, SameBar
<1>5. ranBar' = ranBar
  <2>1. CASE UNCHANGED <<looper, ran>>
    <3>1. looper.at \in {"lock", "find"} =>
             mQueuedEvents'[looper.key] = mQueuedEvents[looper.key]
      <4>1. CASE \E e \in Events : AddEvent(e)
        BY <4>1, AddEventInv DEF EInv, Keys, HasKey
      <4>2. CASE RemoveItem
        BY <4>2 DEF RemoveItem
      <4>3. QED
        BY <1>2, <4>1, <4>2
    <3>2. QED
      BY <2>1, <3>1 DEF ranBar
  <2>2. CASE ~UNCHANGED <<looper, ran>>
    <3>1. WorkerLock \/ ValueFor \/ RemoveItem \/ WorkerUnlock \/ RunEvent
      BY <2>2 DEF SenderLock, LoadKey, StoreKey, AddEvent, SenderUnlock, vars
    <3>2. CASE WorkerLock
      <4>1. /\ looper.at = "lock" /\ looper'.at = "find"
            /\ looper'.key = looper.key
        BY <3>2 DEF WorkerLock, EInv, Types, LooperStates, Poll
      <4>2. QED
        BY <3>2, <4>1 DEF WorkerLock, ranBar
    <3>3. CASE ValueFor
      BY <3>3 DEF ValueFor, ranBar
    <3>4. CASE RemoveItem
      BY <3>4 DEF RemoveItem, ranBar
    <3>5. CASE WorkerUnlock
      <4>1. looper.at = "unlock" /\ looper'.at = "run" /\ looper'.ev = looper.ev
        BY <3>5 DEF WorkerUnlock, EInv, Types, LooperStates, Poll
      <4>2. QED
        BY <3>5, <4>1 DEF WorkerUnlock, ranBar
    <3>6. CASE RunEvent
      BY <3>6 DEF RunEvent, ranBar, Poll
    <3>7. QED
      BY <3>1, <3>2, <3>3, <3>4, <3>5, <3>6
  <2>3. QED
    BY <2>1, <2>2
<1>6. QED
  BY <1>4, <1>5

(* What waits, and what was run, was sent.                                 *)
LEMMA BarIsSent ==
  ASSUME EInv, NEW e \in Events, ~IsSent(e)
  PROVE  Channel!Unsent(e)
<1>1. e \notin ranBar
  <2>1. CASE looper.at \in {"lock", "find"}
    BY <2>1 DEF ranBar, EInv, Sent, HasKey
  <2>2. CASE looper.at = "remove"
    BY <2>2 DEF ranBar, EInv, Sent, Keys, HasKey
  <2>3. CASE looper.at \in {"unlock", "run"}
    BY <2>3 DEF ranBar, EInv, Sent
  <2>4. CASE looper.at = "poll"
    BY <2>4 DEF ranBar, EInv, Sent
  <2>5. QED
    BY <2>1, <2>2, <2>3, <2>4, LooperFields DEF EInv
<1>2. \A j \in 1 .. Len(waitingBar) : waitingBar[j].ev # e
  <2>1. /\ Len(waitingBar) = Len(mMessages)
        /\ \A j \in Queued : waitingBar[j].ev = mQueuedEvents[Key(j)]
    BY BarIsQueue, BarFields
  <2>2. \A j \in Queued : mQueuedEvents[Key(j)] # e
    BY DEF EInv, Sent
  <2>3. QED
    BY <2>1, <2>2 DEF Queued
<1>3. QED
  BY <1>1, <1>2 DEF Channel!Unsent

LEMMA SendStep ==
  ASSUME EInv, EInv', NEW e \in Events, SendMessageDelayed(e)
  PROVE  Channel!Send(e)
<1> DEFINE x == [ev |-> e, due |-> Delay[e]]
<1>1. /\ sender[e].at = "post"
      /\ UNCHANGED <<mQueuedEvents, looper, ran>>
  BY DEF SendMessageDelayed
<1>2. mQueuedEvents[sender[e].key] = e
  BY <1>1 DEF EInv, NewKeys
<1>3. Channel!Unsent(e)
  BY <1>1, BarIsSent DEF IsSent
<1>4. PICK i \in 1 .. Len(mMessages) + 1 :
           /\ mMessages' = InsertAt(mMessages, i,
                              [what |-> sender[e].key, due |-> Delay[e]])
           /\ \A j \in Queued : mMessages[j].due <= Delay[e] <=> j < i
  BY PlaceFound
<1>5. /\ Len(mMessages') = Len(mMessages) + 1
      /\ \A j \in Queued' :
            mMessages'[j] = IF j < i THEN mMessages[j]
                            ELSE IF j = i THEN [what |-> sender[e].key,
                                                due |-> Delay[e]]
                            ELSE mMessages[j - 1]
  BY <1>1, <1>4, QueueAfterSend
<1>6. /\ waitingBar \in Seq(Waiting) /\ Len(waitingBar) = Len(mMessages)
      /\ \A j \in Queued : waitingBar[j] = Bar(j)
      /\ Len(mMessages) \in Nat
  BY BarIsQueue, QueueTypes
<1>7. x \in Waiting /\ i \in 1 .. Len(waitingBar) + 1
  BY <1>6, QueueTypes DEF Waiting
<1>8. \A j \in 1 .. Len(waitingBar) : waitingBar[j].due <= Delay[e] <=> j < i
  <2>1. \A j \in Queued : waitingBar[j].due = mMessages[j].due
    BY <1>6, BarFields
  <2>2. QED
    BY <1>4, <1>6, <2>1 DEF Queued
<1>9. waitingBar' = InsertAt(waitingBar, i, x)
  <2>1. /\ InsertAt(waitingBar, i, x) \in Seq(Waiting)
        /\ Len(InsertAt(waitingBar, i, x)) = Len(waitingBar) + 1
        /\ \A j \in 1 .. Len(waitingBar) + 1 :
              InsertAt(waitingBar, i, x)[j] =
                 IF j < i THEN waitingBar[j]
                 ELSE IF j = i THEN x ELSE waitingBar[j - 1]
    <3> HIDE DEF x
    <3>1. waitingBar \in Seq(Waiting)
      BY <1>6
    <3>2. QED
      BY ONLY <1>7, <3>1, InsertedEvent
  <2>2. /\ waitingBar' \in Seq(Waiting)
        /\ Len(waitingBar') = Len(mMessages')
        /\ \A j \in Queued' :
              waitingBar'[j] = [ev |-> mQueuedEvents[mMessages'[j].what],
                                due |-> mMessages'[j].due]
    <3>1. (EInv => /\ waitingBar \in Seq(Waiting)
                   /\ Len(waitingBar) = Len(mMessages))'
      BY BarIsQueue, PTL
    <3>2. \A j \in Queued' :
              waitingBar'[j] = [ev |-> mQueuedEvents[mMessages'[j].what],
                                due |-> mMessages'[j].due]
      BY <1>1 DEF waitingBar, Queued
    <3>3. QED
      BY <3>1, <3>2
  <2>3. ASSUME NEW j \in 1 .. Len(mMessages) + 1
        PROVE  waitingBar'[j] = InsertAt(waitingBar, i, x)[j]
    <3>1. j \in Queued'
      BY <1>5 DEF Queued
    <3>2. CASE j < i
      <4>1. j \in Queued /\ mMessages'[j] = mMessages[j]
        BY <1>5, <1>6, <3>1, <3>2 DEF Queued
      <4>2. waitingBar'[j] = Bar(j)
        BY <2>2, <3>1, <4>1 DEF Bar, Key
      <4>3. QED
        BY <1>6, <2>1, <3>2, <4>1, <4>2
    <3>3. CASE j = i
      <4>1. mMessages'[j].what = sender[e].key /\ mMessages'[j].due = Delay[e]
        BY <1>5, <3>1, <3>3
      <4>2. waitingBar'[j] = x
        BY <1>2, <2>2, <3>1, <4>1
      <4>3. QED
        BY <1>6, <2>1, <3>3, <4>2
    <3>4. CASE j > i
      <4>1. j - 1 \in Queued /\ mMessages'[j] = mMessages[j - 1]
        BY <1>5, <1>6, <3>1, <3>4 DEF Queued
      <4>2. waitingBar'[j] = Bar(j - 1)
        BY <2>2, <3>1, <4>1 DEF Bar, Key
      <4>3. QED
        BY <1>6, <2>1, <3>4, <4>1, <4>2
    <3>5. QED
      BY <1>6, <3>2, <3>3, <3>4
  <2>4. QED
    BY <1>5, <1>6, <2>1, <2>2, <2>3, SameSequence
<1>10. ranBar' = ranBar
  BY <1>1 DEF ranBar
<1>11. waitingBar' = Channel!InsertAt(waitingBar, i, x)
  BY <1>9 DEF InsertAt, Channel!InsertAt
<1>12. QED
  BY <1>3, <1>7, <1>8, <1>10, <1>11 DEF Channel!Send

LEMMA RunStep ==
  ASSUME EInv, EInv', Take
  PROVE  Channel!Run
<1>1. /\ looper' = [at |-> "lock", key |-> Key(1)]
      /\ 1 \in Queued /\ mMessages[1].due = 0
      /\ Len(mMessages') = Len(mMessages) - 1
      /\ \A j \in Queued' :
            j + 1 \in Queued /\ mMessages'[j] = mMessages[j + 1]
  BY TakeInv
<1>2. looper = Poll /\ UNCHANGED <<mQueuedEvents, ran>>
  BY DEF Take
<1>3. /\ waitingBar \in Seq(Waiting) /\ Len(waitingBar) = Len(mMessages)
      /\ \A j \in Queued : waitingBar[j] = Bar(j)
      /\ Len(mMessages) \in Nat
  BY BarIsQueue, QueueTypes
<1>4. waitingBar # << >>
  BY <1>1, <1>3 DEF Queued
<1>5. /\ Head(waitingBar) = Bar(1)
      /\ Tail(waitingBar) \in Seq(Waiting)
      /\ Len(Tail(waitingBar)) = Len(mMessages) - 1
      /\ \A j \in 1 .. Len(mMessages) - 1 :
            Tail(waitingBar)[j] = waitingBar[j + 1]
  <2>1. /\ Tail(waitingBar) \in Seq(Waiting)
        /\ Head(waitingBar) = waitingBar[1]
        /\ Len(Tail(waitingBar)) = Len(waitingBar) - 1
        /\ \A j \in 1 .. Len(waitingBar) - 1 :
              Tail(waitingBar)[j] = waitingBar[j + 1]
    BY <1>3, <1>4, TailProperties
  <2>2. QED
    BY <1>1, <1>3, <2>1
<1>6. Head(waitingBar).due = 0 /\ Head(waitingBar).ev = mQueuedEvents[Key(1)]
  BY <1>1, <1>5 DEF Bar
<1>7. ranBar' = ranBar \cup {Head(waitingBar).ev}
  <2>1. ranBar = ran
    BY <1>2 DEF ranBar, Poll
  <2>2. ranBar' = ran \cup {mQueuedEvents[Key(1)]}
    BY <1>1, <1>2 DEF ranBar
  <2>3. QED
    BY <1>6, <2>1, <2>2
<1>8. waitingBar' = Tail(waitingBar)
  <2>1. /\ waitingBar' \in Seq(Waiting)
        /\ Len(waitingBar') = Len(mMessages')
    <3>1. (EInv => /\ waitingBar \in Seq(Waiting)
                   /\ Len(waitingBar) = Len(mMessages))'
      BY BarIsQueue, PTL
    <3>2. QED
      BY <3>1
  <2>2. ASSUME NEW j \in 1 .. Len(mMessages) - 1
        PROVE  waitingBar'[j] = Tail(waitingBar)[j]
    <3>1. j \in Queued' /\ j + 1 \in Queued /\ mMessages'[j] = mMessages[j + 1]
      BY <1>1 DEF Queued
    <3>2. waitingBar'[j] = [ev |-> mQueuedEvents[mMessages'[j].what],
                            due |-> mMessages'[j].due]
      BY <1>2, <3>1 DEF waitingBar, Queued
    <3>3. waitingBar'[j] = Bar(j + 1)
      BY <3>1, <3>2 DEF Bar, Key
    <3>4. QED
      BY <1>3, <1>5, <3>1, <3>3
  <2>3. QED
    BY <1>1, <1>5, <2>1, <2>2, SameSequence
<1>9. QED
  BY <1>4, <1>6, <1>7, <1>8 DEF Channel!Run

LEMMA TickStep ==
  ASSUME EInv, Tick
  PROVE  Channel!Tick
<1>1. /\ mMessages' = Elapsed(mMessages)
      /\ UNCHANGED <<mQueuedEvents, looper, ran>>
  BY DEF Tick
<1>2. /\ Len(mMessages') = Len(mMessages)
      /\ \A j \in Queued :
            /\ mMessages'[j].what = mMessages[j].what
            /\ mMessages'[j].due =
                  IF mMessages[j].due = 0 THEN 0 ELSE mMessages[j].due - 1
  BY <1>1, ElapsedProperties DEF EInv, Types, Queued
<1>3. /\ Len(waitingBar) = Len(mMessages)
      /\ \A j \in Queued : waitingBar[j] = Bar(j)
  BY BarIsQueue
<1>4. \A j \in Queued :
         [ev |-> mQueuedEvents'[mMessages'[j].what],
          due |-> mMessages'[j].due] =
         [waitingBar[j] EXCEPT !.due =
             IF waitingBar[j].due = 0 THEN 0 ELSE waitingBar[j].due - 1]
  <2> SUFFICES ASSUME NEW j \in Queued
               PROVE  [ev |-> mQueuedEvents'[mMessages'[j].what],
                       due |-> mMessages'[j].due] =
                      [waitingBar[j] EXCEPT !.due =
                          IF waitingBar[j].due = 0 THEN 0
                          ELSE waitingBar[j].due - 1]
    OBVIOUS
  <2>1. waitingBar[j] = [ev |-> mQueuedEvents[mMessages[j].what],
                         due |-> mMessages[j].due]
    BY <1>3 DEF Bar, Key
  <2>2. waitingBar[j].due = mMessages[j].due
    BY <2>1
  <2>3. QED
    BY <1>1, <1>2, <2>1, <2>2
<1>5. waitingBar' =
        [j \in 1 .. Len(waitingBar) |->
            [waitingBar[j] EXCEPT !.due =
                IF waitingBar[j].due = 0 THEN 0 ELSE waitingBar[j].due - 1]]
  <2>1. waitingBar' =
          [j \in 1 .. Len(mMessages') |->
              [ev |-> mQueuedEvents'[mMessages'[j].what],
               due |-> mMessages'[j].due]]
    BY DEF waitingBar
  <2>2. QED
    BY <1>2, <1>3, <1>4, <2>1 DEF Queued
<1>6. ranBar' = ranBar
  BY <1>1 DEF ranBar
<1>7. QED
  BY <1>5, <1>6 DEF Channel!Tick

(* The threads of PokeHandler, statement by statement, behave as a queue   *)
(* of events: each is run once, in order of due time and of sending, never *)
(* before its delay has passed (timeoutpoker.cpp:165-215).                 *)
THEOREM QueueIsDelayQueue == Spec => ChannelSpec
<1>1. Init => Channel!Init
  <2> SUFFICES ASSUME Init PROVE Channel!Init
    OBVIOUS
  <2>1. mMessages = << >> /\ looper = Poll /\ ran = {}
    BY DEF Init
  <2>2. waitingBar = << >>
    BY <2>1 DEF waitingBar
  <2>3. ranBar = {}
    BY <2>1 DEF ranBar, Poll
  <2>4. QED
    BY <2>2, <2>3 DEF Channel!Init
<1>2. EInv /\ EInv' /\ [Next]_vars => [Channel!Next]_Channel!vars
  <2> SUFFICES ASSUME EInv, EInv', [Next]_vars
               PROVE  Channel!Next \/ UNCHANGED Channel!vars
    BY DEF Channel!vars
  <2>1. CASE Tick
    BY <2>1, TickStep DEF Channel!Next
  <2>2. CASE Take
    BY <2>2, RunStep DEF Channel!Next
  <2>3. ASSUME NEW e \in Events, SendMessageDelayed(e)
        PROVE  Channel!Next
    BY <2>3, SendStep DEF Channel!Next
  <2>4. CASE \/ \E e \in Events : \/ SenderLock(e) \/ LoadKey(e)
                                  \/ StoreKey(e) \/ AddEvent(e)
                                  \/ SenderUnlock(e)
             \/ WorkerLock \/ ValueFor \/ RemoveItem \/ WorkerUnlock
             \/ RunEvent
             \/ UNCHANGED vars
    BY <2>4, HiddenSteps DEF Channel!vars
  <2>5. QED
    BY <2>1, <2>2, <2>3, <2>4 DEF Next, LooperThread, Sender
<1>3. QED
  BY <1>1, <1>2, Invariant, PTL DEF Spec, ChannelSpec, Channel!Spec
-----------------------------------------------------------------------------
(* Nothing is lost and nothing runs twice: the safety half of              *)
(* SentEventsRun.  An event that is stored is in one place, under one key  *)
(* or with the Looper thread or run; and each key has the one message that *)
(* will look it up, or a sender that is about to post it.                  *)

IsStored(e) == sender[e].at \in {"post", "unlock", "sent"}
HasWorker(e) == looper.at \in {"unlock", "run"} /\ looper.ev = e

OnePlace ==
    /\ \A k, l \in DOMAIN mQueuedEvents :
          mQueuedEvents[k] = mQueuedEvents[l] => k = l
    /\ \A k \in DOMAIN mQueuedEvents :
          /\ IsStored(mQueuedEvents[k])
          /\ mQueuedEvents[k] \notin ran
          /\ ~HasWorker(mQueuedEvents[k])
    /\ looper.at \in {"unlock", "run"} => looper.ev \notin ran

SomePlace ==
    \A e \in Events :
        IsStored(e) => \/ \E k \in DOMAIN mQueuedEvents : mQueuedEvents[k] = e
                       \/ HasWorker(e)
                       \/ e \in ran

HasMessage(k) ==
    \/ \E j \in Queued : Key(j) = k
    \/ HasKey /\ looper.key = k
    \/ \E e \in Events : sender[e].at = "post" /\ sender[e].key = k

Messages == \A k \in DOMAIN mQueuedEvents : HasMessage(k)

Places == OnePlace /\ SomePlace /\ Messages

(* Steps that leave the events alone.                                      *)
LEMMA SamePlaces ==
  ASSUME EInv, Places, UNCHANGED <<mQueuedEvents, ran>>,
         \A e \in Events : IsStored(e)' <=> IsStored(e),
         \A e \in Events : HasWorker(e)' <=> HasWorker(e),
         looper'.at \in {"unlock", "run"} => HasWorker(looper'.ev),
         \A k \in DOMAIN mQueuedEvents : HasMessage(k)'
  PROVE  Places'
<1>1. \A k \in DOMAIN mQueuedEvents : mQueuedEvents[k] \in Events
  BY DEF EInv, Types
<1>2. OnePlace'
  BY <1>1 DEF Places, OnePlace, HasWorker
<1>3. SomePlace' /\ Messages'
  BY DEF Places, SomePlace, Messages
<1>4. QED
  BY <1>2, <1>3 DEF Places

LEMMA PlainSenderPlaces ==
  ASSUME EInv, Places, NEW e \in Events,
         SenderLock(e) \/ LoadKey(e) \/ StoreKey(e) \/ SenderUnlock(e)
  PROVE  Places'
<1>1. UNCHANGED <<mQueuedEvents, mMessages, looper, ran>>
  BY DEF SenderLock, LoadKey, StoreKey, SenderUnlock
<1>2. /\ \A d \in Events : d # e => sender'[d] = sender[d]
      /\ sender[e].at # "post" /\ sender'[e].at # "post"
      /\ IsStored(e)' <=> IsStored(e)
  <2>1. Types /\ sender[e].key \in Nat /\ mKey \in Nat
    BY DEF EInv, Types, SenderStates
  <2>2. CASE SenderLock(e)
    BY <2>1, <2>2, SenderGoes DEF SenderLock, IsStored, Inside
  <2>3. CASE LoadKey(e)
    <3>1. [at |-> "next", key |-> mKey] \in SenderStates
      BY <2>1 DEF SenderStates, Inside
    <3>2. QED
      BY <2>1, <2>3, <3>1, SenderMoves DEF LoadKey, IsStored
  <2>4. CASE StoreKey(e)
    BY <2>1, <2>4, SenderGoes DEF StoreKey, IsStored, Inside
  <2>5. CASE SenderUnlock(e)
    BY <2>1, <2>5, SenderGoes DEF SenderUnlock, IsStored, Inside
  <2>6. QED
    BY <2>2, <2>3, <2>4, <2>5
<1>3. \A d \in Events : IsStored(d)' <=> IsStored(d)
  BY <1>2 DEF IsStored
<1>4. \A k \in DOMAIN mQueuedEvents : HasMessage(k)'
  BY <1>1, <1>2 DEF Places, Messages, HasMessage, Key, Queued, HasKey
<1>5. QED
  BY <1>1, <1>3, <1>4, SamePlaces DEF HasWorker

LEMMA AddEventPlaces ==
  ASSUME EInv, Places, NEW e \in Events, AddEvent(e)
  PROVE  Places'
<1>0. PICK key : key = sender[e].key
  OBVIOUS
<1>1. sender[e].at = "add" /\ UNCHANGED <<mMessages, looper, ran>>
  BY DEF AddEvent
<1>2. /\ sender'[e].at = "post" /\ sender'[e].key = key
      /\ \A d \in Events : d # e => sender'[d] = sender[d]
  BY <1>0, SenderGoes DEF AddEvent, EInv, Inside
<1>3. key \notin DOMAIN mQueuedEvents
  BY <1>0, <1>1 DEF EInv, NewKeys
<1>4. /\ DOMAIN mQueuedEvents' = DOMAIN mQueuedEvents \cup {key}
      /\ mQueuedEvents'[key] = e
      /\ \A k \in DOMAIN mQueuedEvents : mQueuedEvents'[k] = mQueuedEvents[k]
  BY <1>0, <1>3 DEF AddEvent, Added
<1>5. /\ ~IsStored(e) /\ IsStored(e)'
      /\ \A d \in Events : d # e => (IsStored(d)' <=> IsStored(d))
  BY <1>1, <1>2 DEF IsStored
<1>6. e \notin ran /\ ~HasWorker(e)
  BY <1>1 DEF EInv, Sent, IsSent, HasWorker
<1>7. \A k \in DOMAIN mQueuedEvents :
         mQueuedEvents[k] \in Events /\ mQueuedEvents[k] # e
  BY <1>5 DEF EInv, Types, Places, OnePlace
<1>8. OnePlace'
  BY <1>1, <1>3, <1>4, <1>5, <1>6, <1>7 DEF Places, OnePlace, HasWorker
<1>9. SomePlace'
  BY <1>1, <1>4, <1>5 DEF Places, SomePlace, HasWorker
<1>10. Messages'
  <2>1. HasMessage(key)'
    BY <1>2 DEF HasMessage
  <2>2. ASSUME NEW k \in DOMAIN mQueuedEvents PROVE HasMessage(k)'
    BY <1>1, <1>2 DEF Places, Messages, HasMessage, Key, Queued, HasKey
  <2>3. QED
    BY <1>4, <2>1, <2>2 DEF Messages
<1>11. QED
  BY <1>8, <1>9, <1>10 DEF Places

LEMMA SendMessagePlaces ==
  ASSUME EInv, Places, NEW e \in Events, SendMessageDelayed(e)
  PROVE  Places'
<1>1. /\ sender[e].at = "post"
      /\ UNCHANGED <<mQueuedEvents, looper, ran>>
  BY DEF SendMessageDelayed
<1>2. /\ sender'[e].at = "unlock"
      /\ \A d \in Events : d # e => sender'[d] = sender[d]
  BY SenderGoes DEF SendMessageDelayed, EInv, Inside
<1>3. PICK i \in 1 .. Len(mMessages) + 1 :
           /\ mMessages' = InsertAt(mMessages, i,
                              [what |-> sender[e].key, due |-> Delay[e]])
           /\ \A j \in Queued : mMessages[j].due <= Delay[e] <=> j < i
  BY PlaceFound
<1>4. /\ Len(mMessages') = Len(mMessages) + 1
      /\ \A j \in Queued' :
            mMessages'[j] = IF j < i THEN mMessages[j]
                            ELSE IF j = i THEN [what |-> sender[e].key,
                                                due |-> Delay[e]]
                            ELSE mMessages[j - 1]
  BY <1>1, <1>3, QueueAfterSend
<1>5. Len(mMessages) \in Nat /\ Queued' = 1 .. Len(mMessages) + 1
  BY <1>4, QueueTypes DEF Queued
<1>6. i \in Queued' /\ mMessages'[i].what = sender[e].key
  BY <1>4, <1>5
<1>7. ASSUME NEW j \in Queued
      PROVE  \E l \in Queued' : mMessages'[l].what = Key(j)
  <2>1. CASE j < i
    <3>1. j \in Queued' /\ mMessages'[j] = mMessages[j]
      BY <1>4, <1>5, <2>1 DEF Queued
    <3>2. QED
      BY <3>1 DEF Key
  <2>2. CASE j >= i
    <3>1. /\ j + 1 \in Queued' /\ ~(j + 1 < i) /\ j + 1 # i
          /\ (j + 1) - 1 = j
      BY <1>5, <2>2 DEF Queued
    <3>2. mMessages'[j + 1] = mMessages[j]
      BY <1>4, <3>1
    <3>3. QED
      BY <3>1, <3>2 DEF Key
  <2>3. QED
    BY <1>5, <2>1, <2>2 DEF Queued
<1>8. ASSUME NEW k \in DOMAIN mQueuedEvents PROVE HasMessage(k)'
  <2>1. HasMessage(k)
    BY DEF Places, Messages
  <2>2. CASE \E j \in Queued : Key(j) = k
    BY <1>7, <2>2 DEF HasMessage, Key
  <2>3. CASE HasKey /\ looper.key = k
    BY <1>1, <2>3 DEF HasMessage, HasKey
  <2>4. CASE \E d \in Events : sender[d].at = "post" /\ sender[d].key = k
    BY <1>2, <1>6, <2>4 DEF HasMessage, Key
  <2>5. QED
    BY <2>1, <2>2, <2>3, <2>4 DEF HasMessage
<1>9. \A d \in Events : IsStored(d)' <=> IsStored(d)
  BY <1>1, <1>2 DEF IsStored
<1>10. QED
  BY <1>1, <1>8, <1>9, SamePlaces DEF HasWorker

LEMMA LooperPlaces ==
  ASSUME EInv, Places, Take \/ WorkerLock \/ ValueFor \/ WorkerUnlock
  PROVE  Places'
<1>1. UNCHANGED <<mQueuedEvents, sender, ran>>
  BY DEF Take, WorkerLock, ValueFor, WorkerUnlock
<1>2. \A e : HasWorker(e)' <=> HasWorker(e)
  <2>1. CASE Take \/ WorkerLock \/ ValueFor
    <3>1. looper.at \notin {"unlock", "run"}
      BY <2>1 DEF Take, WorkerLock, ValueFor, Poll
    <3>2. looper'.at \notin {"unlock", "run"}
      BY <2>1 DEF Take, WorkerLock, ValueFor, EInv, Types, LooperStates, Poll
    <3>3. QED
      BY <3>1, <3>2 DEF HasWorker
  <2>2. CASE WorkerUnlock
    <3>1. looper.at = "unlock" /\ looper'.at = "run" /\ looper'.ev = looper.ev
      BY <2>2 DEF WorkerUnlock, EInv, Types, LooperStates, Poll
    <3>2. QED
      BY <3>1 DEF HasWorker
  <2>3. QED
    BY <2>1, <2>2
<1>3. looper'.at \in {"unlock", "run"} => HasWorker(looper'.ev)
  BY <1>2 DEF HasWorker
<1>4. ASSUME NEW k \in DOMAIN mQueuedEvents PROVE HasMessage(k)'
  <2>1. HasMessage(k)
    BY DEF Places, Messages
  <2>2. CASE Take
    <3>1. /\ looper' = [at |-> "lock", key |-> Key(1)] /\ ~HasKey
          /\ mMessages # << >> /\ mMessages' = Tail(mMessages)
      BY <2>2, TakeInv DEF Take, HasKey, Poll
    <3>2. /\ Len(mMessages) \in Nat /\ Len(mMessages') = Len(mMessages) - 1
          /\ \A j \in 1 .. Len(mMessages) - 1 : mMessages'[j] = mMessages[j + 1]
      BY <3>1, TailProperties DEF EInv, Types
    <3>3. ASSUME NEW j \in Queued, Key(j) = k PROVE HasMessage(k)'
      <4>1. CASE j = 1
        BY <3>1, <3>3, <4>1 DEF HasMessage, HasKey
      <4>2. CASE j # 1
        <5>1. /\ j - 1 \in 1 .. Len(mMessages) - 1 /\ (j - 1) + 1 = j
          BY <3>2, <4>2 DEF Queued
        <5>2. j - 1 \in Queued' /\ mMessages'[j - 1] = mMessages[j]
          BY <3>2, <5>1 DEF Queued
        <5>3. QED
          BY <3>3, <5>2 DEF HasMessage, Key
      <4>3. QED
        BY <4>1, <4>2
    <3>4. QED
      BY <1>1, <2>1, <3>1, <3>3 DEF HasMessage
  <2>3. CASE WorkerLock \/ ValueFor
    <3>1. HasKey /\ HasKey' /\ looper'.key = looper.key /\ mMessages' = mMessages
      <4>1. CASE WorkerLock
        <5>1. looper.at = "lock" /\ looper' = [looper EXCEPT !.at = "find"]
              /\ mMessages' = mMessages
          BY <4>1 DEF WorkerLock
        <5>2. looper'.at = "find" /\ looper'.key = looper.key
          BY <5>1 DEF EInv, Types, LooperStates, Poll
        <5>3. QED
          BY <5>1, <5>2 DEF HasKey
      <4>2. CASE ValueFor
        BY <4>2 DEF ValueFor, HasKey
      <4>3. QED
        BY <2>3, <4>1, <4>2
    <3>2. QED
      BY <1>1, <2>1, <3>1 DEF HasMessage, Key, Queued
  <2>4. CASE WorkerUnlock
    <3>1. ~HasKey /\ mMessages' = mMessages
      BY <2>4 DEF WorkerUnlock, HasKey
    <3>2. QED
      BY <1>1, <2>1, <3>1 DEF HasMessage, Key, Queued
  <2>5. QED
    BY <2>2, <2>3, <2>4
<1>5. QED
  BY <1>1, <1>2, <1>3, <1>4, SamePlaces DEF IsStored

LEMMA RemoveItemPlaces ==
  ASSUME EInv, Places, RemoveItem
  PROVE  Places'
<1>1. /\ looper.at = "remove" /\ looper.key \in DOMAIN mQueuedEvents
      /\ looper.ev = mQueuedEvents[looper.key]
      /\ looper'.at = "unlock" /\ looper'.ev = looper.ev
      /\ UNCHANGED <<mMessages, sender, ran>>
  BY DEF RemoveItem, EInv, Keys, HasKey
<1>2. /\ DOMAIN mQueuedEvents' = DOMAIN mQueuedEvents \ {looper.key}
      /\ \A k \in DOMAIN mQueuedEvents :
            k # looper.key => mQueuedEvents'[k] = mQueuedEvents[k]
  BY DEF RemoveItem, Removed
<1>3. OnePlace'
  BY <1>1, <1>2 DEF Places, OnePlace, HasWorker, IsStored
<1>4. SomePlace'
  BY <1>1, <1>2 DEF Places, SomePlace, HasWorker, IsStored
<1>5. Messages'
  BY <1>1, <1>2 DEF Places, Messages, HasMessage, Key, Queued, HasKey
<1>6. QED
  BY <1>3, <1>4, <1>5 DEF Places

LEMMA RunEventPlaces ==
  ASSUME EInv, Places, RunEvent
  PROVE  Places'
<1>1. /\ looper.at = "run" /\ looper'.at = "poll"
      /\ ran' = ran \cup {looper.ev}
      /\ UNCHANGED <<mQueuedEvents, mMessages, sender>>
  BY DEF RunEvent, Poll
<1>2. OnePlace'
  BY <1>1 DEF Places, OnePlace, HasWorker, IsStored
<1>3. SomePlace'
  BY <1>1 DEF Places, SomePlace, HasWorker, IsStored
<1>4. Messages'
  BY <1>1 DEF Places, Messages, HasMessage, Key, Queued, HasKey
<1>5. QED
  BY <1>2, <1>3, <1>4 DEF Places

LEMMA TickPlaces ==
  ASSUME EInv, Places, Tick
  PROVE  Places'
<1>1. /\ mMessages' = Elapsed(mMessages)
      /\ UNCHANGED <<mQueuedEvents, sender, looper, ran>>
  BY DEF Tick
<1>2. /\ Queued' = Queued
      /\ \A j \in Queued : mMessages'[j].what = mMessages[j].what
  BY <1>1, ElapsedProperties DEF EInv, Types, Queued
<1>3. \A k \in DOMAIN mQueuedEvents : HasMessage(k)'
  BY <1>1, <1>2 DEF Places, Messages, HasMessage, Key, HasKey
<1>4. QED
  BY <1>1, <1>3, SamePlaces DEF IsStored, HasWorker

LEMMA NextPlaces == EInv /\ Places /\ [Next]_vars => Places'
<1> SUFFICES ASSUME EInv, Places, [Next]_vars PROVE Places'
  OBVIOUS
<1>1. CASE Tick
  BY <1>1, TickPlaces
<1>2. CASE LooperThread
  BY <1>2, LooperPlaces, RemoveItemPlaces, RunEventPlaces DEF LooperThread
<1>3. ASSUME NEW e \in Events, Sender(e) PROVE Places'
  BY <1>3, PlainSenderPlaces, AddEventPlaces, SendMessagePlaces DEF Sender
<1>4. CASE UNCHANGED vars
  <2>1. \A k \in DOMAIN mQueuedEvents : HasMessage(k)'
    BY <1>4 DEF vars, Places, Messages, HasMessage, Key, Queued, HasKey
  <2>2. QED
    BY <1>4, <2>1, SamePlaces DEF vars, IsStored, HasWorker
<1>5. QED
  BY <1>1, <1>2, <1>3, <1>4 DEF Next

LEMMA PlacesHold == Spec => [](EInv /\ Places)
<1>1. Init => Places
  BY DEF Init, Places, OnePlace, SomePlace, Messages, EmptyVector, IsStored,
         HasWorker, Poll
<1>2. EInv /\ Places /\ [Next]_vars => Places'
  BY NextPlaces
<1>3. QED
  BY <1>1, <1>2, Invariant, PTL DEF Spec

IsEvent(k, e) == k \in DOMAIN mQueuedEvents /\ mQueuedEvents[k] = e

(* An event whose sendEventDelayed is over is never lost: a message with   *)
(* its key is queued and the key leads to it, or the Looper thread has its *)
(* key or the event itself, or it was run (timeoutpoker.cpp:165-190).      *)
InHand ==
    \A e \in Events : sender[e].at = "sent" =>
        \/ \E j \in Queued : IsEvent(Key(j), e)
        \/ HasKey /\ IsEvent(looper.key, e)
        \/ HasWorker(e)
        \/ e \in ran

(* In every behaviour each event that was sent is in hand until it has     *)
(* run: whatever the order of senders, deadlines and the Looper thread.    *)
THEOREM NoEventIsLost == Spec => []InHand
<1>1. EInv /\ Places => InHand
  <2> SUFFICES ASSUME EInv, Places, NEW e \in Events, sender[e].at = "sent",
                      ~HasWorker(e), e \notin ran
               PROVE  \/ \E j \in Queued : IsEvent(Key(j), e)
                      \/ HasKey /\ IsEvent(looper.key, e)
    BY DEF InHand
  <2>1. PICK k \in DOMAIN mQueuedEvents : mQueuedEvents[k] = e
    BY DEF Places, SomePlace, IsStored
  <2>2. ASSUME NEW d \in Events, sender[d].at = "post" PROVE sender[d].key # k
    BY <2>1, <2>2 DEF EInv, NewKeys
  <2>3. QED
    BY <2>1, <2>2 DEF Places, Messages, HasMessage, IsEvent
<1>2. QED
  BY <1>1, PlacesHold, PTL

(* The Looper thread runs only an event that it has not run before: what   *)
(* it took out of mQueuedEvents was there under one key                    *)
(* (timeoutpoker.cpp:175-190, 213-215).                                    *)
RunsNewEvent == RunEvent => looper.ev \notin ran

(* No step of any behaviour runs an event a second time.                   *)
THEOREM NoEventRunsTwice == Spec => [][RunsNewEvent]_vars
<1>1. EInv /\ Places /\ [Next]_vars => [RunsNewEvent]_vars
  BY DEF Places, OnePlace, RunsNewEvent, RunEvent
<1>2. QED
  BY <1>1, PlacesHold, PTL DEF Spec
=============================================================================

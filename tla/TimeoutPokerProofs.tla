------------------------- MODULE TimeoutPokerProofs -------------------------
(***************************************************************************)
(* Safety of TimeoutPoker for any set of requests, any timeouts and any    *)
(* number of descriptors.  In this order: the types and the event queue,   *)
(* the order of service, who owns which descriptor and which stack frame,  *)
(* that no descriptor leaks, that handles are watched and callers are not  *)
(* forgotten, and the refinement of PmQosService.                          *)
(***************************************************************************)
EXTENDS TimeoutPokerRefines, TLAPS
LOCAL INSTANCE SequencesExt
LOCAL INSTANCE SequenceTheorems

-----------------------------------------------------------------------------
(* What the operators of LooperQueue do to a queue, for every queue.       *)

(* Placing a message adds it, and keeps the others in their order          *)
(* (Looper::sendMessageAtTime, as sendEventDelayed uses it).               *)
LEMMA PlacedProperties ==
  ASSUME NEW q \in Seq(Message), NEW m \in Message, NEW i \in 1 .. Len(q) + 1
  PROVE  /\ Placed(q, i, m) \in Seq(Message)
         /\ Len(Placed(q, i, m)) = Len(q) + 1
         /\ \A j \in 1 .. Len(q) + 1 :
              Placed(q, i, m)[j] = IF j < i THEN q[j]
                                   ELSE IF j = i THEN m
                                   ELSE q[j - 1]
<1> DEFINE a == SubSeq(q, 1, i - 1)
           b == SubSeq(q, i, Len(q))
           c == a \o <<m>>
<1>1. /\ a \in Seq(Message)
      /\ Len(a) = i - 1
      /\ \A j \in 1 .. i - 1 : a[j] = q[j]
  BY SMT
<1>2. /\ b \in Seq(Message)
      /\ Len(b) = Len(q) - i + 1
      /\ \A j \in 1 .. Len(q) - i + 1 : b[j] = q[i + j - 1]
  BY SMT
<1> HIDE DEF a, b
<1>3. /\ c \in Seq(Message)
      /\ Len(c) = i
      /\ \A j \in 1 .. i : c[j] = IF j < i THEN q[j] ELSE m
  BY <1>1, SMT
<1> HIDE DEF c
<1>4. /\ c \o b \in Seq(Message)
      /\ Len(c \o b) = Len(q) + 1
      /\ \A j \in 1 .. Len(q) + 1 :
           (c \o b)[j] = IF j <= i THEN c[j] ELSE b[j - i]
  BY <1>2, <1>3, ConcatProperties
<1>5. Placed(q, i, m) = c \o b
  BY DEF Placed, InsertAt, a, b, c
<1>6. \A j \in 1 .. Len(q) + 1 :
         (c \o b)[j] = IF j < i THEN q[j] ELSE IF j = i THEN m ELSE q[j - 1]
  BY <1>2, <1>3, <1>4, SMT
<1>7. QED
  BY <1>4, <1>5, <1>6

(* Seen as a set of keys: exactly the placed one is new.                   *)
LEMMA PlacedKeys ==
  ASSUME NEW q \in Seq(Message), NEW m \in Message, NEW i \in 1 .. Len(q) + 1
  PROVE  \A k : (\E j \in 1 .. Len(Placed(q, i, m)) :
                    Placed(q, i, m)[j].what = k)
                  <=> (k = m.what \/ \E j \in 1 .. Len(q) : q[j].what = k)
<1>0. PICK p : p = Placed(q, i, m)
  OBVIOUS
<1>1. /\ Len(p) = Len(q) + 1
      /\ \A j \in 1 .. Len(q) + 1 :
            p[j] = IF j < i THEN q[j] ELSE IF j = i THEN m ELSE q[j - 1]
  <2>1. /\ Len(Placed(q, i, m)) = Len(q) + 1
        /\ \A j \in 1 .. Len(q) + 1 :
              Placed(q, i, m)[j] = IF j < i THEN q[j]
                                   ELSE IF j = i THEN m ELSE q[j - 1]
    BY PlacedProperties
  <2>2. QED
    BY <1>0, <2>1, Zenon
<1>2. Len(q) \in Nat
  OBVIOUS
<1> SUFFICES ASSUME NEW k
             PROVE  (\E j \in 1 .. Len(p) : p[j].what = k)
                      <=> (k = m.what \/ \E j \in 1 .. Len(q) : q[j].what = k)
  BY <1>0
<1>3. ASSUME NEW j \in 1 .. Len(p), p[j].what = k
      PROVE  k = m.what \/ \E l \in 1 .. Len(q) : q[l].what = k
  <2>1. CASE j < i
    BY <1>1, <1>2, <1>3, <2>1
  <2>2. CASE j = i
    BY <1>1, <1>2, <1>3, <2>2
  <2>3. CASE j > i
    <3>1. j - 1 \in 1 .. Len(q) /\ p[j] = q[j - 1]
      BY <1>1, <1>2, <2>3
    <3>2. QED
      BY <3>1, <1>3
  <2>4. QED
    BY <2>1, <2>2, <2>3, <1>1, <1>2
<1>4. ASSUME k = m.what
      PROVE  \E j \in 1 .. Len(p) : p[j].what = k
  BY <1>1, <1>2, <1>4
<1>5. ASSUME NEW l \in 1 .. Len(q), q[l].what = k
      PROVE  \E j \in 1 .. Len(p) : p[j].what = k
  <2>1. CASE l < i
    BY <1>1, <1>2, <1>5, <2>1
  <2>2. CASE l >= i
    <3>1. l + 1 \in 1 .. Len(p) /\ p[l + 1] = q[l]
      BY <1>1, <1>2, <2>2
    <3>2. QED
      BY <3>1, <1>5
  <2>3. QED
    BY <2>1, <2>2, <1>2
<1>6. QED
  BY <1>3, <1>4, <1>5

(* A new key stays distinct from the others.                               *)
LEMMA PlacedDistinct ==
  ASSUME NEW q \in Seq(Message), NEW m \in Message, NEW i \in 1 .. Len(q) + 1,
         \A j \in 1 .. Len(q) : q[j].what # m.what,
         \A j, l \in 1 .. Len(q) : j # l => q[j].what # q[l].what
  PROVE  \A j, l \in 1 .. Len(Placed(q, i, m)) :
            j # l => Placed(q, i, m)[j].what # Placed(q, i, m)[l].what
<1> DEFINE p == Placed(q, i, m)
           Old(j) == IF j < i THEN j ELSE j - 1
<1>1. /\ Len(p) = Len(q) + 1
      /\ \A j \in 1 .. Len(q) + 1 :
            p[j] = IF j < i THEN q[j] ELSE IF j = i THEN m ELSE q[j - 1]
      /\ Len(q) \in Nat
  BY PlacedProperties
<1> HIDE DEF p
<1>2. \A j \in 1 .. Len(p) :
         j # i => Old(j) \in 1 .. Len(q) /\ p[j] = q[Old(j)]
  BY <1>1
<1>3. p[i] = m
  BY <1>1
<1>4. \A j, l \in 1 .. Len(p) :
         j # l /\ j # i /\ l # i => Old(j) # Old(l)
  BY <1>1
<1> HIDE DEF Old
<1>5. \A j, l \in 1 .. Len(p) : j # l => p[j].what # p[l].what
  BY <1>2, <1>3, <1>4
<1>6. QED
  BY <1>5 DEF p

(* The passing of time touches no key and no place in the queue.           *)
LEMMA ElapsedProperties ==
  ASSUME NEW q \in Seq(Message)
  PROVE  /\ Elapsed(q) \in Seq(Message)
         /\ Len(Elapsed(q)) = Len(q)
         /\ \A j \in 1 .. Len(q) :
               /\ q[j].due \in Nat
               /\ Elapsed(q)[j].what = q[j].what
               /\ Elapsed(q)[j].due = IF q[j].due = 0 THEN 0
                                      ELSE q[j].due - 1
<1>1. \A j \in 1 .. Len(q) : q[j] \in Message
  OBVIOUS
<1>2. \A j \in 1 .. Len(q) :
         /\ Elapsed(q)[j] \in Message
         /\ q[j].due \in Nat
         /\ Elapsed(q)[j].what = q[j].what
         /\ Elapsed(q)[j].due = IF q[j].due = 0 THEN 0 ELSE q[j].due - 1
  <2> SUFFICES ASSUME NEW j \in 1 .. Len(q)
               PROVE  /\ Elapsed(q)[j] \in Message
                      /\ q[j].due \in Nat
                      /\ Elapsed(q)[j].what = q[j].what
                      /\ Elapsed(q)[j].due = IF q[j].due = 0 THEN 0
                                             ELSE q[j].due - 1
    OBVIOUS
  <2>1. Elapsed(q)[j] =
           [q[j] EXCEPT !.due = IF q[j].due = 0 THEN 0 ELSE q[j].due - 1]
    BY DEF Elapsed
  <2>2. q[j] \in Message
    BY <1>1
  <2>3. q[j] = [what |-> q[j].what, due |-> q[j].due]
        /\ q[j].what \in Nat /\ q[j].due \in Nat
    BY <2>2 DEF Message
  <2>4. Elapsed(q)[j] =
           [what |-> q[j].what,
            due |-> IF q[j].due = 0 THEN 0 ELSE q[j].due - 1]
    BY <2>1, <2>3
  <2>5. QED
    BY <2>3, <2>4 DEF Message
<1>3. Len(q) \in Nat /\ DOMAIN Elapsed(q) = 1 .. Len(q)
  BY DEF Elapsed
<1>4. Elapsed(q) = [j \in 1 .. Len(q) |-> Elapsed(q)[j]]
  BY DEF Elapsed
<1>5. Elapsed(q) \in Seq(Message)
  BY <1>2, <1>3, <1>4, IsASeq
<1>6. QED
  BY <1>2, <1>3, <1>5, LenProperties

(* Taking the first message off a queue.                                   *)
LEMMA TailMessages ==
  ASSUME NEW q \in Seq(Message), q # << >>
  PROVE  /\ Tail(q) \in Seq(Message)
         /\ Head(q) = q[1] /\ Head(q) \in Message
         /\ Len(q) \in Nat /\ Len(q) >= 1 /\ Len(Tail(q)) = Len(q) - 1
         /\ \A j \in 1 .. Len(q) - 1 : Tail(q)[j] = q[j + 1]
  BY HeadTailProperties, SMT

-----------------------------------------------------------------------------
(* Types, and an event for every message.                                  *)

(* The type invariant of the queue after an event was sent.                *)
LEMMA SendTypes ==
  ASSUME TypeOK, NEW delay \in Nat, NEW e \in Events,
         SendEventDelayed(delay, e)
  PROVE  /\ mKey' \in Nat
         /\ DOMAIN mQueuedEvents' = DOMAIN mQueuedEvents \cup {mKey}
         /\ DOMAIN mQueuedEvents' \subseteq 0 .. mKey' - 1
         /\ mQueuedEvents' \in [DOMAIN mQueuedEvents' -> Events]
         /\ mMessages' \in Seq(Message)
         /\ mQueuedEvents'[mKey] = e
         /\ \A k \in DOMAIN mQueuedEvents :
               k # mKey /\ mQueuedEvents'[k] = mQueuedEvents[k]
<1>1. mKey \in Nat /\ mKey' = mKey + 1
  BY DEF TypeOK, SendEventDelayed
<1>2. DOMAIN mQueuedEvents \subseteq 0 .. mKey - 1
  BY DEF TypeOK
<1>3. mQueuedEvents' =
        [k \in DOMAIN mQueuedEvents \cup {mKey} |->
            IF k = mKey THEN e ELSE mQueuedEvents[k]]
  BY DEF SendEventDelayed, GeneratedKey, Added
<1>4. [what |-> mKey, due |-> delay] \in Message
  BY <1>1 DEF Message
<1>5. mMessages' \in Seq(Message)
  BY <1>4, PlacedProperties DEF SendEventDelayed, GeneratedKey, TypeOK
<1>6. \A k \in DOMAIN mQueuedEvents : k # mKey
  BY <1>1, <1>2
<1>7. mQueuedEvents \in [DOMAIN mQueuedEvents -> Events]
  BY DEF TypeOK
<1>8. /\ DOMAIN mQueuedEvents' = DOMAIN mQueuedEvents \cup {mKey}
      /\ mQueuedEvents' \in [DOMAIN mQueuedEvents' -> Events]
  BY <1>3, <1>7
<1>9. DOMAIN mQueuedEvents' \subseteq 0 .. mKey' - 1
  BY <1>1, <1>2, <1>8
<1>10. QED
  BY <1>1, <1>3, <1>5, <1>6, <1>8, <1>9

LEMMA InitTypes == Init => TypeOK /\ EventForEveryMessage
<1> SUFFICES ASSUME Init PROVE TypeOK /\ EventForEveryMessage
  OBVIOUS
<1>1. mQueuedEvents \in [DOMAIN mQueuedEvents -> Events]
  BY DEF Init, EmptyVector
<1>2. DOMAIN mQueuedEvents \subseteq 0 .. mKey - 1
  BY DEF Init, EmptyVector
<1>3. TypeOK
  BY <1>1, <1>2, FdAssumption
     DEF Init, TypeOK, LooperStates, Poll, Fd, Garbage, Failed
<1>4. EventForEveryMessage
  BY DEF Init, EventForEveryMessage, EmptyVector, Poll
<1>5. QED
  BY <1>3, <1>4

(* What the live locals of the Looper thread are, wherever it is.          *)
LEMMA LooperFields ==
  ASSUME TypeOK
  PROVE  /\ looper.at = "remove" => looper.key \in Nat
         /\ looper.at = "run" => looper.ev \in Events
         /\ looper.at = "arm" =>
               looper.req \in TimedRequests /\ looper.fd \in Fd
         /\ looper.at \in {"pipe", "closeFd"} =>
               looper.req \in HandleRequests /\ looper.fd \in Fd
         /\ looper.at = "listen" =>
               /\ looper.req \in HandleRequests /\ looper.fd \in Fd
               /\ looper.server \in Fd /\ looper.client \in Fd
         /\ looper.at = "reply" =>
               /\ looper.req \in HandleRequests
               /\ looper.val \in Fd \cup {Failed}
         /\ looper.at = "signal" => looper.req \in HandleRequests
         /\ looper.at = "closeHandle" =>
               /\ looper.req \in HandleRequests
               /\ looper.handle \in Fd /\ looper.fd \in Fd
BY DEF TypeOK, LooperStates, Poll

(* Every place the Looper thread is sent to is one of its states.          *)
LEMMA LooperPlaces ==
  /\ Poll \in LooperStates
  /\ \A k \in Nat : AtRemove(k) \in LooperStates
  /\ \A e \in Events : AtRun(e) \in LooperStates
  /\ \A r \in TimedRequests, f \in Fd : AtArm(r, f) \in LooperStates
  /\ \A r \in HandleRequests, f \in Fd :
        AtPipe(r, f) \in LooperStates /\ AtCloseFd(r, f) \in LooperStates
  /\ \A r \in HandleRequests, f, s, c \in Fd :
        AtListen(r, f, s, c) \in LooperStates
  /\ \A r \in HandleRequests, v \in Fd \cup {Failed} :
        AtReply(r, v) \in LooperStates
  /\ \A r \in HandleRequests : AtSignal(r) \in LooperStates
  /\ \A w \in Watch : AtCloseHandle(w) \in LooperStates
BY DEF LooperStates, Poll, AtRemove, AtRun, AtArm, AtPipe, AtCloseFd,
       AtListen, AtReply, AtSignal, AtCloseHandle, Watch

LEMMA EventFields ==
  ASSUME NEW e \in Events
  PROVE  /\ e.type \in {"timed", "handle", "timeout"}
         /\ e.type = "timed" => e.req \in TimedRequests
         /\ e.type = "handle" => e.req \in HandleRequests
         /\ e.type = "timeout" => e.req \in TimedRequests /\ e.fd \in Fd
BY DEF Events

(* Storing a file, or none, under a descriptor keeps the table's type.     *)
LEMMA FileStored ==
  ASSUME NEW t \in [Fd -> Files \cup {NoFile}], NEW f \in Fd,
         NEW x \in Files \cup {NoFile}
  PROVE  [t EXCEPT ![f] = x] \in [Fd -> Files \cup {NoFile}]
OBVIOUS

(* The same of the two ends of a pipe.                                     *)
LEMMA PipeStored ==
  ASSUME NEW t \in [Fd -> Files \cup {NoFile}], NEW c \in Fd, NEW s \in Fd,
         NEW x \in Files, NEW y \in Files
  PROVE  [t EXCEPT ![c] = x, ![s] = y] \in [Fd -> Files \cup {NoFile}]
OBVIOUS

(* The type invariant is inductive, given that keys are found.             *)
LEMMA NextTypes == TypeOK /\ EventForEveryMessage /\ [Next]_vars => TypeOK'
<1> SUFFICES ASSUME TypeOK, EventForEveryMessage, [Next]_vars PROVE TypeOK'
  OBVIOUS
<1> USE LooperPlaces DEF Requests
<1>0. \A r \in Requests :
         QosNode(r) \in Files /\ ReadEnd(r) \in Files /\ WriteEnd(r) \in Files
  BY DEF QosNode, ReadEnd, WriteEnd, Files
<1>1. ASSUME NEW r \in TimedRequests, RequestPmQosTimed(r)
      PROVE  TypeOK'
  <2>1. TimedEvent(r) \in Events
    BY DEF TimedEvent, Events
  <2>2. SendEventDelayed(0, TimedEvent(r))
    BY <1>1 DEF RequestPmQosTimed
  <2>3. QED
    BY <1>1, <2>1, <2>2, SendTypes DEF RequestPmQosTimed, TypeOK
<1>2. ASSUME NEW r \in HandleRequests, CreatePmQosHandle(r)
      PROVE  TypeOK'
  <2>1. HandleEvent(r) \in Events
    BY DEF HandleEvent, Events
  <2>2. SendEventDelayed(0, HandleEvent(r))
    BY <1>2 DEF CreatePmQosHandle
  <2>3. QED
    BY <1>2, <2>1, <2>2, SendTypes DEF CreatePmQosHandle, TypeOK
<1>3. ASSUME NEW r \in HandleRequests, WaitReturns(r)
      PROVE  TypeOK'
  BY <1>3 DEF WaitReturns, TypeOK, queue
<1>4. ASSUME NEW r \in DirectRequests, RequestPmQos(r)
      PROVE  TypeOK'
  BY <1>0, <1>4 DEF RequestPmQos, TypeOK, queue
<1>5. ASSUME NEW r \in HandleRequests \cup DirectRequests, ClientClose(r)
      PROVE  TypeOK'
  BY <1>5 DEF ClientClose, TypeOK, queue
<1>6. CASE Receive
  <2>1. /\ Tail(mMessages) \in Seq(Message)
        /\ Head(mMessages).what \in Nat
    BY <1>6, TailMessages DEF Receive, IsDue, TypeOK, Message
  <2>2. QED
    BY <1>6, <2>1 DEF Receive, TypeOK
<1>7. CASE RemoveEventByKey
  <2>1. mQueuedEvents[looper.key] \in Events
    BY <1>7 DEF RemoveEventByKey, EventForEveryMessage, TypeOK
  <2>2. /\ DOMAIN mQueuedEvents' \subseteq 0 .. mKey - 1
        /\ mQueuedEvents' \in [DOMAIN mQueuedEvents' -> Events]
    BY <1>7 DEF RemoveEventByKey, Removed, TypeOK
  <2>3. QED
    BY <1>7, <2>1, <2>2 DEF RemoveEventByKey, TypeOK
<1>8. CASE OpenPmQosNode
  <2>1. /\ looper.ev \in Events
        /\ looper.ev.type = "timed" => looper.ev.req \in TimedRequests
        /\ looper.ev.type = "handle" => looper.ev.req \in HandleRequests
        /\ looper.ev.type \in {"timed", "handle"}
    BY <1>8, LooperFields, EventFields DEF OpenPmQosNode
  <2>2. looper' \in LooperStates
    BY <1>8, <2>1 DEF OpenPmQosNode, AfterOpen, AfterFailedOpen
  <2>3. files' \in [Fd -> Files \cup {NoFile}]
    <3>1. files \in [Fd -> Files \cup {NoFile}]
      BY DEF TypeOK
    <3>2. QosNode(looper.ev.req) \in Files
      BY <1>0, <2>1
    <3>3. \/ \E f \in Fd :
               files' = [files EXCEPT ![f] = QosNode(looper.ev.req)]
          \/ files' = files
      BY <1>8 DEF OpenPmQosNode
    <3>4. CASE files' = files
      BY <3>1, <3>4
    <3>5. ASSUME NEW f \in Fd,
                 files' = [files EXCEPT ![f] = QosNode(looper.ev.req)]
          PROVE  files' \in [Fd -> Files \cup {NoFile}]
      BY <3>1, <3>2, <3>5, FileStored
    <3>6. QED
      BY <3>3, <3>4, <3>5
  <2>4. QED
    BY <1>8, <2>2, <2>3 DEF OpenPmQosNode, TypeOK, queue
<1>9. CASE ArmTimeout
  <2>1. looper.req \in TimedRequests /\ looper.fd \in Fd
    BY <1>9, LooperFields DEF ArmTimeout
  <2>2. TimeoutEvent(looper.req, looper.fd) \in Events
    BY <2>1 DEF TimeoutEvent, Events
  <2>3. Timeout[looper.req] \in Nat
    BY <2>1, TimeoutAssumption
  <2>4. QED
    BY <1>9, <2>2, <2>3, SendTypes DEF ArmTimeout, TypeOK
<1>10. CASE TimeoutRequest
  BY <1>10 DEF TimeoutRequest, TypeOK, queue
<1>11. CASE MakePipe
  <2>1. looper.req \in HandleRequests /\ looper.fd \in Fd
    BY <1>11, LooperFields DEF MakePipe
  <2>2. looper' \in LooperStates
    BY <1>11, <2>1 DEF MakePipe
  <2>3. files' \in [Fd -> Files \cup {NoFile}]
    <3>1. files \in [Fd -> Files \cup {NoFile}]
      BY DEF TypeOK
    <3>2. /\ ReadEnd(looper.req) \in Files
          /\ WriteEnd(looper.req) \in Files
      BY <1>0, <2>1
    <3>3. \/ \E c, s \in Fd :
               files' = [files EXCEPT ![c] = ReadEnd(looper.req),
                                      ![s] = WriteEnd(looper.req)]
          \/ files' = [files EXCEPT ![looper.fd] = NoFile]
      BY <1>11 DEF MakePipe
    <3>4. CASE files' = [files EXCEPT ![looper.fd] = NoFile]
      BY <2>1, <3>1, <3>4, FileStored
    <3>5. ASSUME NEW c \in Fd, NEW s \in Fd,
                 files' = [files EXCEPT ![c] = ReadEnd(looper.req),
                                        ![s] = WriteEnd(looper.req)]
          PROVE  files' \in [Fd -> Files \cup {NoFile}]
      BY <3>1, <3>2, <3>5, PipeStored
    <3>6. QED
      BY <3>3, <3>4, <3>5
  <2>4. QED
    BY <1>11, <2>2, <2>3 DEF MakePipe, TypeOK, queue
<1>12. CASE ListenForHandleToCloseFd
  <2>1. /\ looper.req \in HandleRequests /\ looper.fd \in Fd
        /\ looper.server \in Fd /\ looper.client \in Fd
    BY <1>12, LooperFields DEF ListenForHandleToCloseFd
  <2>2. mRequests' \subseteq Watch
    BY <1>12, <2>1 DEF ListenForHandleToCloseFd, TypeOK, Watch
  <2>3. QED
    BY <1>12, <2>1, <2>2 DEF ListenForHandleToCloseFd, TypeOK, queue
<1>13. CASE Reply
  BY <1>13, LooperFields DEF Reply, TypeOK, queue
<1>14. CASE Signal
  BY <1>14 DEF Signal, TypeOK, queue
<1>15. CASE PipeCloseCb
  BY <1>15 DEF PipeCloseCb, TypeOK, queue
<1>16. CASE CloseHandle
  BY <1>16, LooperFields DEF CloseHandle, TypeOK, queue
<1>17. CASE CloseFd
  BY <1>17 DEF CloseFd, TypeOK, queue
<1>18. CASE Tick
  BY <1>18, ElapsedProperties DEF Tick, TypeOK
<1>19. CASE UNCHANGED vars
  BY <1>19 DEF vars, queue, TypeOK
<1>20. QED
  BY <1>1, <1>2, <1>3, <1>4, <1>5, <1>6, <1>7, <1>8, <1>9, <1>10, <1>11,
     <1>12, <1>13, <1>14, <1>15, <1>16, <1>17, <1>18, <1>19
     DEF Next, Callers, LooperThread

(* Sending an event keeps events and messages in step.                     *)
LEMMA SendKeepsEvents ==
  ASSUME TypeOK, EventForEveryMessage, NEW delay \in Nat, NEW e \in Events,
         SendEventDelayed(delay, e),
         looper.at = "remove" => looper' = looper,
         looper'.at = "remove" => looper' = looper
  PROVE  EventForEveryMessage'
<1> DEFINE m == [what |-> mKey, due |-> delay]
<1>1. m \in Message /\ m.what = mKey
  BY DEF TypeOK, Message
<1>2. \A k \in DOMAIN mQueuedEvents : k # mKey
  BY SendTypes
<1>3. DOMAIN mQueuedEvents' = DOMAIN mQueuedEvents \cup {mKey}
  BY SendTypes
<1>4. PICK i \in 1 .. Len(mMessages) + 1 : mMessages' = Placed(mMessages, i, m)
  BY DEF SendEventDelayed, GeneratedKey
<1>5. mMessages \in Seq(Message)
  BY DEF TypeOK
<1> HIDE DEF m
<1>6. \A k : (\E j \in 1 .. Len(mMessages') : mMessages'[j].what = k)
                <=> (k = mKey \/ \E j \in 1 .. Len(mMessages) :
                                    mMessages[j].what = k)
  <2>1. \A k : (\E j \in 1 .. Len(Placed(mMessages, i, m)) :
                    Placed(mMessages, i, m)[j].what = k)
                 <=> (k = m.what \/ \E j \in 1 .. Len(mMessages) :
                                       mMessages[j].what = k)
    BY <1>1, <1>5, PlacedKeys
  <2>2. QED
    BY <1>1, <1>4, <2>1
<1>7. \A j, l \in 1 .. Len(mMessages') :
         j # l => mMessages'[j].what # mMessages'[l].what
  <2>1. \A j \in 1 .. Len(mMessages) : mMessages[j].what # m.what
    BY <1>1, <1>2 DEF EventForEveryMessage
  <2>2. \A j, l \in 1 .. Len(mMessages) :
           j # l => mMessages[j].what # mMessages[l].what
    BY DEF EventForEveryMessage
  <2>3. \A j, l \in 1 .. Len(Placed(mMessages, i, m)) :
           j # l => Placed(mMessages, i, m)[j].what
                      # Placed(mMessages, i, m)[l].what
    BY <1>1, <1>5, <2>1, <2>2, PlacedDistinct
  <2>4. QED
    BY <1>4, <2>3
<1>8. \A j \in 1 .. Len(mMessages') :
         mMessages'[j].what \in DOMAIN mQueuedEvents'
  BY <1>3, <1>6 DEF EventForEveryMessage
<1>9. \A k \in DOMAIN mQueuedEvents' :
         \/ looper.at = "remove" /\ looper.key = k
         \/ \E j \in 1 .. Len(mMessages') : mMessages'[j].what = k
  BY <1>3, <1>6 DEF EventForEveryMessage
<1>10. looper.at = "remove" =>
          /\ looper.key \in DOMAIN mQueuedEvents'
          /\ \A j \in 1 .. Len(mMessages') : mMessages'[j].what # looper.key
  BY <1>2, <1>3, <1>6 DEF EventForEveryMessage
<1>11. CASE looper.at = "remove"
  <2>1. looper' = looper
    BY <1>11
  <2>2. QED
    BY <1>7, <1>8, <1>9, <1>10, <1>11, <2>1 DEF EventForEveryMessage
<1>12. CASE looper.at # "remove"
  <2>1. looper'.at # "remove"
    BY <1>12
  <2>2. QED
    BY <1>7, <1>8, <1>9, <1>12, <2>1 DEF EventForEveryMessage
<1>13. QED
  BY <1>11, <1>12

LEMMA NextEvents ==
  TypeOK /\ EventForEveryMessage /\ [Next]_vars => EventForEveryMessage'
<1> SUFFICES ASSUME TypeOK, EventForEveryMessage, [Next]_vars
             PROVE  EventForEveryMessage'
  OBVIOUS
<1> USE DEF Requests
<1>1. ASSUME NEW r \in TimedRequests, RequestPmQosTimed(r)
      PROVE  EventForEveryMessage'
  <2>1. TimedEvent(r) \in Events
    BY DEF TimedEvent, Events
  <2>2. QED
    BY <1>1, <2>1, SendKeepsEvents DEF RequestPmQosTimed
<1>2. ASSUME NEW r \in HandleRequests, CreatePmQosHandle(r)
      PROVE  EventForEveryMessage'
  <2>1. HandleEvent(r) \in Events
    BY DEF HandleEvent, Events
  <2>2. QED
    BY <1>2, <2>1, SendKeepsEvents DEF CreatePmQosHandle
<1>3. CASE ArmTimeout
  <2>1. looper.req \in TimedRequests /\ looper.fd \in Fd
    BY <1>3, LooperFields DEF ArmTimeout
  <2>2. TimeoutEvent(looper.req, looper.fd) \in Events
    BY <2>1 DEF TimeoutEvent, Events
  <2>3. Timeout[looper.req] \in Nat
    BY <2>1, TimeoutAssumption
  <2>4. looper.at # "remove" /\ looper'.at # "remove"
    BY <1>3 DEF ArmTimeout, Poll
  <2>5. QED
    BY <1>3, <2>2, <2>3, <2>4, SendKeepsEvents DEF ArmTimeout
<1>4. CASE Receive
  <2> DEFINE q == mMessages
             t == Tail(mMessages)
  <2>1. q \in Seq(Message) /\ q # << >>
    BY <1>4 DEF Receive, IsDue, TypeOK
  <2>2. /\ Head(q) = q[1]
        /\ Len(q) \in Nat /\ Len(q) >= 1 /\ Len(t) = Len(q) - 1
        /\ \A j \in 1 .. Len(q) - 1 : t[j] = q[j + 1]
    BY <2>1, TailMessages
  <2>3. /\ mMessages' = t /\ mQueuedEvents' = mQueuedEvents
        /\ looper'.at = "remove" /\ looper'.key = q[1].what
        /\ looper.at # "remove"
    BY <1>4, <2>2 DEF Receive, AtRemove, Poll
  <2> HIDE DEF t
  <2>4. \A i, j \in 1 .. Len(t) : i # j => t[i].what # t[j].what
    <3> SUFFICES ASSUME NEW i \in 1 .. Len(t), NEW j \in 1 .. Len(t), i # j
                 PROVE  t[i].what # t[j].what
      OBVIOUS
    <3>1. /\ i + 1 \in 1 .. Len(q) /\ j + 1 \in 1 .. Len(q)
          /\ i + 1 # j + 1
      BY <2>2
    <3>2. t[i] = q[i + 1] /\ t[j] = q[j + 1]
      BY <2>2
    <3>3. q[i + 1].what # q[j + 1].what
      BY <3>1 DEF EventForEveryMessage
    <3>4. QED
      BY <3>2, <3>3
  <2>5. \A i \in 1 .. Len(t) :
           t[i].what \in DOMAIN mQueuedEvents /\ t[i].what # q[1].what
    <3> SUFFICES ASSUME NEW i \in 1 .. Len(t)
                 PROVE  /\ t[i].what \in DOMAIN mQueuedEvents
                        /\ t[i].what # q[1].what
      OBVIOUS
    <3>1. i + 1 \in 1 .. Len(q) /\ 1 \in 1 .. Len(q) /\ i + 1 # 1
      BY <2>2
    <3>2. t[i] = q[i + 1]
      BY <2>2
    <3>3. /\ q[i + 1].what \in DOMAIN mQueuedEvents
          /\ q[i + 1].what # q[1].what
      BY <3>1 DEF EventForEveryMessage
    <3>4. QED
      BY <3>2, <3>3
  <2>6. q[1].what \in DOMAIN mQueuedEvents
    BY <2>2 DEF EventForEveryMessage
  <2>7. \A k \in DOMAIN mQueuedEvents :
           k = q[1].what \/ \E i \in 1 .. Len(t) : t[i].what = k
    <3> SUFFICES ASSUME NEW k \in DOMAIN mQueuedEvents, k # q[1].what
                 PROVE  \E i \in 1 .. Len(t) : t[i].what = k
      OBVIOUS
    <3>1. PICK i \in 1 .. Len(q) : q[i].what = k
      BY <2>3 DEF EventForEveryMessage
    <3>2. i - 1 \in 1 .. Len(t) /\ t[i - 1] = q[i]
      BY <2>2, <3>1
    <3>3. QED
      BY <3>1, <3>2
  <2>8. QED
    BY <2>3, <2>4, <2>5, <2>6, <2>7 DEF EventForEveryMessage
<1>5. CASE RemoveEventByKey
  <2>1. /\ looper.at = "remove" /\ looper'.at = "run"
        /\ mMessages' = mMessages
        /\ DOMAIN mQueuedEvents' = DOMAIN mQueuedEvents \ {looper.key}
    BY <1>5 DEF RemoveEventByKey, AtRun, Removed
  <2>2. QED
    BY <2>1 DEF EventForEveryMessage
<1>6. CASE Tick
  <2>1. /\ Len(mMessages') = Len(mMessages)
        /\ \A j \in 1 .. Len(mMessages) :
              mMessages'[j].what = mMessages[j].what
    BY <1>6, ElapsedProperties DEF Tick, TypeOK
  <2>2. looper' = looper /\ mQueuedEvents' = mQueuedEvents
    BY <1>6 DEF Tick
  <2>3. QED
    BY <2>1, <2>2 DEF EventForEveryMessage
<1>7. ASSUME UNCHANGED queue, looper'.at # "remove", looper.at # "remove"
      PROVE  EventForEveryMessage'
  BY <1>7 DEF EventForEveryMessage, queue
<1>8. ASSUME UNCHANGED <<queue, looper>>
      PROVE  EventForEveryMessage'
  BY <1>8 DEF EventForEveryMessage, queue
<1>9. ASSUME NEW r \in HandleRequests \cup DirectRequests,
             ClientClose(r) \/ WaitReturns(r) \/ RequestPmQos(r)
      PROVE  EventForEveryMessage'
  BY <1>8, <1>9 DEF ClientClose, WaitReturns, RequestPmQos
<1>10. CASE OpenPmQosNode
  BY <1>7, <1>10 DEF OpenPmQosNode, AfterOpen, AfterFailedOpen, Poll, AtArm,
                      AtPipe, AtReply
<1>11. CASE TimeoutRequest \/ CloseFd \/ Signal
  BY <1>7, <1>11 DEF TimeoutRequest, CloseFd, Signal, Poll
<1>12. CASE MakePipe \/ ListenForHandleToCloseFd \/ Reply
  BY <1>7, <1>12 DEF MakePipe, ListenForHandleToCloseFd, Reply, AtListen,
                     AtReply, AtSignal
<1>13. CASE PipeCloseCb \/ CloseHandle
  BY <1>7, <1>13 DEF PipeCloseCb, CloseHandle, Poll, AtCloseHandle, AtCloseFd
<1>14. CASE UNCHANGED vars
  BY <1>8, <1>14 DEF vars
<1>15. QED
  BY <1>1, <1>2, <1>3, <1>4, <1>5, <1>6, <1>9, <1>10, <1>11, <1>12, <1>13,
     <1>14 DEF Next, Callers, LooperThread

(* Every variable of the service keeps its type, for any set of requests.  *)
THEOREM TypeCorrect == Spec => []TypeOK
<1> DEFINE Inv == TypeOK /\ EventForEveryMessage
<1>1. Init => Inv
  BY InitTypes
<1>2. Inv /\ [Next]_vars => Inv'
  BY NextTypes, NextEvents
<1>3. Spec => []Inv
  <2> HIDE DEF Inv
  <2>1. QED
    BY <1>1, <1>2, PTL DEF Spec
<1>4. QED
  BY <1>3, PTL

(* removeEventByKey finds the event of every message it is called for, and *)
(* no queued event is without a message: valueFor never aborts the process *)
(* and no event is forgotten (timeoutpoker.cpp:165-215).                   *)
THEOREM EventsMatchMessages == Spec => []EventForEveryMessage
<1> DEFINE Inv == TypeOK /\ EventForEveryMessage
<1>1. Init => Inv
  BY InitTypes
<1>2. Inv /\ [Next]_vars => Inv'
  BY NextTypes, NextEvents
<1>3. Spec => []Inv
  <2> HIDE DEF Inv
  <2>1. QED
    BY <1>1, <1>2, PTL DEF Spec
<1>4. QED
  BY <1>3, PTL

-----------------------------------------------------------------------------
(* The order of service.  Requests are posted without a delay, so the      *)
(* queue, which is kept by due time, has the undue messages of timeouts    *)
(* behind them; and since a new message goes behind those due at the same  *)
(* time, requests stay in the order of their keys.                         *)

IsRequest(j) == IsRequestEvent(mQueuedEvents[mMessages[j].what])

Ordered ==
    /\ \A j, l \in 1 .. Len(mMessages) :
          j < l => mMessages[j].due <= mMessages[l].due
    /\ \A j \in 1 .. Len(mMessages) : IsRequest(j) => mMessages[j].due = 0
    /\ \A j, l \in 1 .. Len(mMessages) :
          j < l /\ IsRequest(j) /\ IsRequest(l) =>
              mMessages[j].what < mMessages[l].what

(* Placing a message leaves a queue sorted by due time.                    *)
LEMMA PlacedSorted ==
  ASSUME NEW q \in Seq(Message), NEW m \in Message, NEW i \in 1 .. Len(q) + 1,
         IsPlaceFor(q, i, m),
         \A j, l \in 1 .. Len(q) : j < l => q[j].due <= q[l].due
  PROVE  /\ \A j, l \in 1 .. Len(Placed(q, i, m)) :
               j < l => Placed(q, i, m)[j].due <= Placed(q, i, m)[l].due
         /\ \A j \in 1 .. Len(q) : j >= i => q[j].due > m.due
<1> DEFINE p == Placed(q, i, m)
<1>1. /\ Len(p) = Len(q) + 1
      /\ \A j \in 1 .. Len(q) + 1 :
            p[j] = IF j < i THEN q[j] ELSE IF j = i THEN m ELSE q[j - 1]
      /\ Len(q) \in Nat
  BY PlacedProperties
<1>2. \A j \in 1 .. Len(q) : q[j].due \in Nat
  <2>1. \A j \in 1 .. Len(q) : q[j] \in Message
    OBVIOUS
  <2>2. QED
    BY <2>1 DEF Message
<1>3. m.due \in Nat
  BY DEF Message
<1>4. \A j \in 1 .. Len(q) : j >= i => q[j].due > m.due
  BY <1>1, <1>2, <1>3 DEF IsPlaceFor
<1>5. \A j \in 1 .. Len(q) : j < i => q[j].due <= m.due
  BY <1>1 DEF IsPlaceFor
<1> HIDE DEF p
<1>6. ASSUME NEW j \in 1 .. Len(p), NEW l \in 1 .. Len(p), j < l
      PROVE  p[j].due <= p[l].due
  <2>1. CASE l < i
    BY <1>1, <1>6, <2>1
  <2>2. CASE l = i
    <3>1. p[l] = m /\ p[j] = q[j] /\ j \in 1 .. Len(q) /\ j < i
      BY <1>1, <1>6, <2>2
    <3>2. QED
      BY <1>5, <3>1
  <2>3. CASE l > i /\ j = i
    <3>1. /\ p[l] = q[l - 1] /\ p[j] = m
          /\ l - 1 \in 1 .. Len(q) /\ l - 1 >= i
      BY <1>1, <2>3
    <3>2. q[l - 1].due > m.due /\ q[l - 1].due \in Nat
      BY <1>2, <1>4, <3>1
    <3>3. QED
      BY <1>3, <3>1, <3>2
  <2>4. CASE l > i /\ j < i
    <3>1. /\ p[l] = q[l - 1] /\ p[j] = q[j] /\ j < l - 1
          /\ j \in 1 .. Len(q) /\ l - 1 \in 1 .. Len(q)
      BY <1>1, <2>4
    <3>2. QED
      BY <3>1
  <2>5. CASE l > i /\ j > i
    <3>1. /\ p[l] = q[l - 1] /\ p[j] = q[j - 1] /\ j - 1 < l - 1
          /\ j - 1 \in 1 .. Len(q) /\ l - 1 \in 1 .. Len(q)
      BY <1>1, <1>6, <2>5
    <3>2. QED
      BY <3>1
  <2>6. QED
    BY <1>1, <2>1, <2>2, <2>3, <2>4, <2>5
<1>7. QED
  BY <1>4, <1>6 DEF p

(* A new message comes with the highest key, and the events of the others  *)
(* stay what they were.                                                    *)
LEMMA SendOrdered ==
  ASSUME TypeOK, EventForEveryMessage, Ordered,
         NEW delay \in Nat, NEW e \in Events, SendEventDelayed(delay, e),
         IsRequestEvent(e) => delay = 0
  PROVE  Ordered'
<1> DEFINE m == [what |-> mKey, due |-> delay]
           q == mMessages
           p == mMessages'
<1>1. m \in Message /\ m.what = mKey /\ m.due = delay /\ mKey \in Nat
  BY DEF TypeOK, Message
<1>2. q \in Seq(Message) /\ DOMAIN mQueuedEvents \subseteq 0 .. mKey - 1
  BY DEF TypeOK
<1>3. PICK i \in 1 .. Len(q) + 1 : IsPlaceFor(q, i, m) /\ p = Placed(q, i, m)
  BY DEF SendEventDelayed, GeneratedKey
<1>4. /\ mQueuedEvents'[mKey] = e
      /\ \A k \in DOMAIN mQueuedEvents : mQueuedEvents'[k] = mQueuedEvents[k]
  BY SendTypes
<1> HIDE DEF m
<1>5. /\ Len(p) = Len(q) + 1
      /\ \A j \in 1 .. Len(q) + 1 :
            p[j] = IF j < i THEN q[j] ELSE IF j = i THEN m ELSE q[j - 1]
      /\ Len(q) \in Nat
  BY <1>1, <1>2, <1>3, PlacedProperties
<1>6. \A j, l \in 1 .. Len(q) : j < l => q[j].due <= q[l].due
  BY DEF Ordered
<1>7. /\ \A j, l \in 1 .. Len(p) : j < l => p[j].due <= p[l].due
      /\ \A j \in 1 .. Len(q) : j >= i => q[j].due > m.due
  BY <1>1, <1>2, <1>3, <1>6, PlacedSorted
<1> DEFINE Old(j) == IF j < i THEN j ELSE j - 1
           Asks(j) == IsRequestEvent(mQueuedEvents'[p[j].what])
<1>8. \A j \in 1 .. Len(p) :
         j # i => Old(j) \in 1 .. Len(q) /\ p[j] = q[Old(j)]
  BY <1>5
<1>9. \A j \in 1 .. Len(q) :
         /\ q[j].what \in DOMAIN mQueuedEvents
         /\ q[j].what \in Nat /\ q[j].what < mKey
  BY <1>1, <1>2 DEF EventForEveryMessage
<1>10. p[i] = m
  BY <1>5
<1>11. \A j, l \in 1 .. Len(p) :
          j < l /\ j # i /\ l # i => Old(j) < Old(l)
  BY <1>5
<1>12. \A j \in 1 .. Len(p) :
          j > i => Old(j) \in 1 .. Len(q) /\ Old(j) >= i /\ p[j] = q[Old(j)]
  BY <1>5
<1> HIDE DEF Old
<1>13. \A j \in 1 .. Len(p) : j # i => (Asks(j) <=> IsRequest(Old(j)))
  BY <1>4, <1>8, <1>9 DEF IsRequest
<1>14. Asks(i) <=> IsRequestEvent(e)
  BY <1>1, <1>4, <1>10
<1> HIDE DEF p, q, Asks
<1>15. ASSUME NEW j \in 1 .. Len(p), Asks(j) PROVE p[j].due = 0
  <2>1. CASE j = i
    BY <1>1, <1>10, <1>14, <1>15, <2>1
  <2>2. CASE j # i
    <3>1. Old(j) \in 1 .. Len(q) /\ p[j] = q[Old(j)] /\ IsRequest(Old(j))
      BY <1>8, <1>13, <1>15, <2>2
    <3>2. QED
      BY <3>1 DEF Ordered, q
  <2>3. QED
    BY <2>1, <2>2
<1>16. ASSUME NEW j \in 1 .. Len(p), NEW l \in 1 .. Len(p), j < l,
              Asks(j), Asks(l)
       PROVE  p[j].what < p[l].what
  <2>1. CASE l = i
    <3>1. Old(j) \in 1 .. Len(q) /\ p[j] = q[Old(j)]
      BY <1>8, <1>16, <2>1
    <3>2. QED
      BY <1>1, <1>9, <1>10, <2>1, <3>1
  <2>2. CASE j = i
    <3>1. m.due = 0 /\ p[l].due = 0
      BY <1>1, <1>14, <1>15, <1>16, <2>2
    <3>2. l > i
      BY <1>16, <2>2
    <3>3. p[l].due > m.due
      BY <1>7, <1>12, <3>2
    <3>4. QED
      BY <3>1, <3>3
  <2>3. CASE j # i /\ l # i
    <3>1. /\ Old(j) \in 1 .. Len(q) /\ p[j] = q[Old(j)] /\ IsRequest(Old(j))
          /\ Old(l) \in 1 .. Len(q) /\ p[l] = q[Old(l)] /\ IsRequest(Old(l))
          /\ Old(j) < Old(l)
      BY <1>8, <1>11, <1>13, <1>16, <2>3
    <3>2. QED
      BY <3>1 DEF Ordered, q
  <2>4. QED
    BY <2>1, <2>2, <2>3
<1>17. QED
  BY <1>7, <1>15, <1>16 DEF Ordered, IsRequest, Asks, p

(* Nothing posted, taken or looked up: nothing changes in the queue.       *)
LEMMA NextOrdered ==
  TypeOK /\ EventForEveryMessage /\ Ordered /\ [Next]_vars => Ordered'
<1> SUFFICES ASSUME TypeOK, EventForEveryMessage, Ordered, [Next]_vars
             PROVE  Ordered'
  OBVIOUS
<1>1. ASSUME NEW r \in TimedRequests, RequestPmQosTimed(r)
      PROVE  Ordered'
  <2>1. TimedEvent(r) \in Events
    BY DEF TimedEvent, Events
  <2>2. QED
    BY <1>1, <2>1, SendOrdered DEF RequestPmQosTimed
<1>2. ASSUME NEW r \in HandleRequests, CreatePmQosHandle(r)
      PROVE  Ordered'
  <2>1. HandleEvent(r) \in Events
    BY DEF HandleEvent, Events
  <2>2. QED
    BY <1>2, <2>1, SendOrdered DEF CreatePmQosHandle
<1>3. CASE ArmTimeout
  <2>1. looper.req \in TimedRequests /\ looper.fd \in Fd
    BY <1>3, LooperFields DEF ArmTimeout
  <2>2. /\ TimeoutEvent(looper.req, looper.fd) \in Events
        /\ ~IsRequestEvent(TimeoutEvent(looper.req, looper.fd))
    BY <2>1 DEF TimeoutEvent, Events, IsRequestEvent
  <2>3. Timeout[looper.req] \in Nat
    BY <2>1, TimeoutAssumption
  <2>4. QED
    BY <1>3, <2>2, <2>3, SendOrdered DEF ArmTimeout
<1>4. CASE Receive
  <2> DEFINE t == mMessages'
  <2>1. /\ Len(mMessages) \in Nat /\ Len(t) = Len(mMessages) - 1
        /\ \A j \in 1 .. Len(mMessages) - 1 : t[j] = mMessages[j + 1]
    BY <1>4, TailMessages DEF Receive, IsDue, TypeOK
  <2>2. mQueuedEvents' = mQueuedEvents
    BY <1>4 DEF Receive
  <2>3. \A j \in 1 .. Len(t) :
           /\ j + 1 \in 1 .. Len(mMessages)
           /\ t[j] = mMessages[j + 1]
    BY <2>1
  <2>4. \A j, l \in 1 .. Len(t) : j < l => j + 1 < l + 1
    BY <2>1
  <2> HIDE DEF t
  <2>5. /\ \A j, l \in 1 .. Len(t) : j < l => t[j].due <= t[l].due
        /\ \A j \in 1 .. Len(t) :
              IsRequestEvent(mQueuedEvents[t[j].what]) => t[j].due = 0
        /\ \A j, l \in 1 .. Len(t) :
              /\ j < l
              /\ IsRequestEvent(mQueuedEvents[t[j].what])
              /\ IsRequestEvent(mQueuedEvents[t[l].what])
              => t[j].what < t[l].what
    BY <2>3, <2>4 DEF Ordered, IsRequest
  <2>6. QED
    BY <2>2, <2>5 DEF Ordered, IsRequest, t
<1>5. CASE RemoveEventByKey
  <2>1. /\ looper.at = "remove" /\ mMessages' = mMessages
        /\ \A k \in DOMAIN mQueuedEvents :
              k # looper.key => mQueuedEvents'[k] = mQueuedEvents[k]
    BY <1>5 DEF RemoveEventByKey, Removed
  <2>2. \A j \in 1 .. Len(mMessages) :
           mQueuedEvents'[mMessages[j].what]
              = mQueuedEvents[mMessages[j].what]
    BY <2>1 DEF EventForEveryMessage
  <2>3. QED
    BY <2>1, <2>2 DEF Ordered, IsRequest
<1>6. CASE Tick
  <2> DEFINE t == mMessages'
  <2>1. \A j \in 1 .. Len(mMessages) :
           /\ mMessages[j].due \in Nat
           /\ t[j].what = mMessages[j].what
           /\ t[j].due = IF mMessages[j].due = 0 THEN 0
                         ELSE mMessages[j].due - 1
    BY <1>6, ElapsedProperties DEF Tick, TypeOK
  <2>2. Len(t) = Len(mMessages) /\ mQueuedEvents' = mQueuedEvents
    BY <1>6, ElapsedProperties DEF Tick, TypeOK
  <2> HIDE DEF t
  <2>3. \A j, l \in 1 .. Len(t) : j < l => t[j].due <= t[l].due
    BY <2>1, <2>2 DEF Ordered
  <2>4. \A j \in 1 .. Len(t) :
           IsRequestEvent(mQueuedEvents[t[j].what]) => t[j].due = 0
    BY <2>1, <2>2 DEF Ordered, IsRequest
  <2>5. \A j, l \in 1 .. Len(t) :
              /\ j < l
              /\ IsRequestEvent(mQueuedEvents[t[j].what])
              /\ IsRequestEvent(mQueuedEvents[t[l].what])
              => t[j].what < t[l].what
    BY <2>1, <2>2 DEF Ordered, IsRequest
  <2>6. QED
    BY <2>2, <2>3, <2>4, <2>5 DEF Ordered, IsRequest, t
<1>7. ASSUME UNCHANGED queue PROVE Ordered'
  BY <1>7 DEF Ordered, IsRequest, queue
<1>8. QED
  BY <1>1, <1>2, <1>3, <1>4, <1>5, <1>6, <1>7
     DEF Next, Callers, LooperThread, WaitReturns, RequestPmQos, ClientClose,
         OpenPmQosNode, TimeoutRequest, MakePipe, ListenForHandleToCloseFd,
         Reply, Signal, PipeCloseCb, CloseHandle, CloseFd, vars

(* Requests are served in the order in which they were made, whatever      *)
(* timeouts expire in between (timeoutpoker.cpp:85-108, 165-215).          *)
THEOREM ServedInOrder == Spec => RequestsInOrder
<1> DEFINE Inv == TypeOK /\ EventForEveryMessage /\ Ordered
           InOrder == Receive /\ IsRequestEvent(mQueuedEvents[looper'.key]) =>
                        \A k \in DOMAIN mQueuedEvents :
                           IsRequestEvent(mQueuedEvents[k]) => looper'.key <= k
<1>1. Init => Inv
  <2>1. Init => Ordered
    BY DEF Init, Ordered
  <2>2. QED
    BY <2>1, InitTypes
<1>2. Inv /\ [Next]_vars => Inv'
  BY NextTypes, NextEvents, NextOrdered
<1>3. Inv => InOrder
  <2> SUFFICES ASSUME TypeOK, EventForEveryMessage, Ordered, Receive,
                      IsRequestEvent(mQueuedEvents[looper'.key]),
                      NEW k \in DOMAIN mQueuedEvents,
                      IsRequestEvent(mQueuedEvents[k])
               PROVE  looper'.key <= k
    OBVIOUS
  <2>1. /\ looper.at = "poll" /\ looper'.key = mMessages[1].what
        /\ Len(mMessages) \in Nat /\ Len(mMessages) >= 1
    BY TailMessages DEF Receive, IsDue, TypeOK, Poll, AtRemove
  <2>2. PICK j \in 1 .. Len(mMessages) : mMessages[j].what = k
    BY <2>1 DEF EventForEveryMessage
  <2>3. k \in Nat
    BY DEF TypeOK
  <2>4. CASE j = 1
    BY <2>1, <2>2, <2>3, <2>4
  <2>5. CASE j # 1
    <3>1. 1 < j /\ 1 \in 1 .. Len(mMessages)
      BY <2>1, <2>5
    <3>2. mMessages[1].what < k
      BY <2>1, <2>2, <3>1 DEF Ordered, IsRequest
    <3>3. mMessages[1].what \in Nat
      <4>1. mMessages[1] \in Message
        BY <3>1 DEF TypeOK
      <4>2. QED
        BY <4>1 DEF Message
    <3>4. QED
      BY <2>1, <2>3, <3>2, <3>3
  <2>6. QED
    BY <2>4, <2>5
<1>4. Spec => RequestsInOrder
  <2> HIDE DEF Inv
  <2>1. Inv /\ [Next]_vars => [InOrder]_vars
    BY <1>3
  <2>2. QED
    BY <1>1, <1>2, <2>1, PTL DEF Spec, RequestsInOrder
<1>5. QED
  BY <1>4

-----------------------------------------------------------------------------
(* Descriptors and stack frames: whoever is going to close a descriptor    *)
(* owns it, and the Looper thread touches a caller's frame only while the  *)
(* caller waits.                                                           *)
(*                                                                         *)
(* Two parties can only hold claims on one descriptor if the claims name   *)
(* the same file, thus the same request.  So the argument is that each     *)
(* request is in one place at a time: its event is queued, or the Looper   *)
(* thread works on it, or its pipe is watched.  Tokens says that; Frames   *)
(* follows a handle request through its stages; Owned is ClaimsHold,       *)
(* holder by holder.                                                       *)

HasEvent(r) == \E k \in DOMAIN mQueuedEvents : mQueuedEvents[k].req = r

LooperOn(r) ==
    \/ looper.at = "run" /\ looper.ev.req = r
    \/ /\ looper.at \in {"arm", "pipe", "listen", "reply", "signal",
                         "closeHandle", "closeFd"}
       /\ looper.req = r

(* A request is in at most one place, and an idle one nowhere.  While the  *)
(* Looper thread replies and signals, the pipe is already watched.         *)
Tokens ==
    /\ \A k, l \in DOMAIN mQueuedEvents :
          mQueuedEvents[k].req = mQueuedEvents[l].req => k = l
    /\ \A k \in DOMAIN mQueuedEvents :
          /\ ~LooperOn(mQueuedEvents[k].req)
          /\ call[mQueuedEvents[k].req] # "idle"
    /\ \A r \in Requests : LooperOn(r) => call[r] # "idle"
    /\ \A w \in mRequests :
          /\ call[w.req] # "idle"
          /\ ~HasEvent(w.req)
          /\ LooperOn(w.req) => looper.at \in {"reply", "signal"}
    /\ \A v, w \in mRequests : v.req = w.req => v = w

(* The event of a handle request, or the Looper thread on its behalf, is   *)
(* on the way to the reply.                                                *)
Unanswered(r) ==
    \/ \E k \in DOMAIN mQueuedEvents :
          mQueuedEvents[k].type = "handle" /\ mQueuedEvents[k].req = r
    \/ looper.at = "run" /\ looper.ev.type = "handle" /\ looper.ev.req = r
    \/ looper.at \in {"pipe", "listen", "reply"} /\ looper.req = r

Frames ==
    \A r \in HandleRequests :
        /\ Unanswered(r) =>
              /\ call[r] = "waiting"
              /\ done[r] = "CLOSED"
              /\ ret[r] = Garbage
        /\ looper.at = "signal" /\ looper.req = r =>
              /\ call[r] = "waiting"
              /\ done[r] = "CLOSED"
              /\ ret[r] # Garbage
        /\ done[r] = "OPENED" => ret[r] # Garbage
        /\ call[r] \in {"returned", "closed"} => done[r] = "OPENED"
        /\ call[r] = "idle" => done[r] = "CLOSED" /\ ret[r] = Garbage

(* A claim on a descriptor number holds: it refers to the file meant.      *)
Is(f, file) == files[f] = file

QueueOwns ==
    \A k \in DOMAIN mQueuedEvents :
        mQueuedEvents[k].type = "timeout" =>
            Is(mQueuedEvents[k].fd, QosNode(mQueuedEvents[k].req))

LooperOwns ==
    /\ looper.at = "run" /\ looper.ev.type = "timeout" =>
          Is(looper.ev.fd, QosNode(looper.ev.req))
    /\ looper.at \in {"arm", "pipe", "closeFd", "listen", "closeHandle"} =>
          Is(looper.fd, QosNode(looper.req))
    /\ looper.at = "listen" =>
          /\ Is(looper.server, WriteEnd(looper.req))
          /\ Is(looper.client, ReadEnd(looper.req))
    /\ looper.at = "closeHandle" => Is(looper.handle, WriteEnd(looper.req))
    /\ looper.at = "reply" /\ looper.val # Failed =>
          Is(looper.val, ReadEnd(looper.req))

WatchesOwn ==
    \A w \in mRequests :
        Is(w.handle, WriteEnd(w.req)) /\ Is(w.fd, QosNode(w.req))

ClientsOwn ==
    /\ \A r \in HandleRequests :
          call[r] \in {"waiting", "returned"} /\ ret[r] >= 0 =>
              Is(ret[r], ReadEnd(r))
    /\ \A r \in DirectRequests :
          call[r] = "returned" /\ ret[r] >= 0 => Is(ret[r], QosNode(r))

Owned == QueueOwns /\ LooperOwns /\ WatchesOwn /\ ClientsOwn

IInv == TypeOK /\ EventForEveryMessage /\ Tokens /\ Frames /\ Owned

LEMMA InitOwned == Init => Tokens /\ Frames /\ Owned
BY DEF Init, Tokens, Frames, Owned, QueueOwns, LooperOwns, WatchesOwn,
       ClientsOwn, EmptyVector, Poll, Is, Unanswered, HasEvent,
       LooperOn, Garbage, Requests

(* What sending an event does to the map of events.                        *)
LEMMA SendAdds ==
  ASSUME TypeOK, NEW delay \in Nat, NEW e \in Events,
         SendEventDelayed(delay, e)
  PROVE  /\ mKey \notin DOMAIN mQueuedEvents
         /\ DOMAIN mQueuedEvents' = DOMAIN mQueuedEvents \cup {mKey}
         /\ mQueuedEvents'[mKey] = e
         /\ \A k \in DOMAIN mQueuedEvents :
               mQueuedEvents'[k] = mQueuedEvents[k]
BY SendTypes

(* Each request stays in at most one place.                                *)
LEMMA NextTokens == IInv /\ [Next]_vars => Tokens'
<1> SUFFICES ASSUME IInv, [Next]_vars PROVE Tokens'
  OBVIOUS
<1> USE DEF Requests
<1>t. TypeOK /\ EventForEveryMessage /\ Tokens
  BY DEF IInv
<1>1. ASSUME NEW r \in TimedRequests, RequestPmQosTimed(r)
      PROVE  Tokens'
  <2>1. TimedEvent(r) \in Events /\ TimedEvent(r).req = r
    BY DEF TimedEvent, Events
  <2>2. /\ mKey \notin DOMAIN mQueuedEvents
        /\ DOMAIN mQueuedEvents' = DOMAIN mQueuedEvents \cup {mKey}
        /\ mQueuedEvents'[mKey].req = r
        /\ \A k \in DOMAIN mQueuedEvents :
              mQueuedEvents'[k] = mQueuedEvents[k]
    BY <1>t, <1>1, <2>1, SendAdds DEF RequestPmQosTimed
  <2>3. /\ call[r] = "idle" /\ call' = [call EXCEPT ![r] = "returned"]
        /\ UNCHANGED <<looper, mRequests>>
    BY <1>1 DEF RequestPmQosTimed
  <2>4. call \in [Requests -> {"idle", "waiting", "returned", "closed"}]
    BY <1>t DEF TypeOK
  <2>5. QED
    BY <1>t, <2>2, <2>3, <2>4 DEF Tokens, HasEvent, LooperOn
<1>2. ASSUME NEW r \in HandleRequests, CreatePmQosHandle(r)
      PROVE  Tokens'
  <2>1. HandleEvent(r) \in Events /\ HandleEvent(r).req = r
    BY DEF HandleEvent, Events
  <2>2. /\ mKey \notin DOMAIN mQueuedEvents
        /\ DOMAIN mQueuedEvents' = DOMAIN mQueuedEvents \cup {mKey}
        /\ mQueuedEvents'[mKey].req = r
        /\ \A k \in DOMAIN mQueuedEvents :
              mQueuedEvents'[k] = mQueuedEvents[k]
    BY <1>t, <1>2, <2>1, SendAdds DEF CreatePmQosHandle
  <2>3. /\ call[r] = "idle" /\ call' = [call EXCEPT ![r] = "waiting"]
        /\ UNCHANGED <<looper, mRequests>>
    BY <1>2 DEF CreatePmQosHandle
  <2>4. call \in [Requests -> {"idle", "waiting", "returned", "closed"}]
    BY <1>t DEF TypeOK
  <2>5. QED
    BY <1>t, <2>2, <2>3, <2>4 DEF Tokens, HasEvent, LooperOn
<1>3. ASSUME NEW r \in HandleRequests \cup DirectRequests,
             ClientClose(r) \/ WaitReturns(r) \/ RequestPmQos(r)
      PROVE  Tokens'
  <2>1. /\ UNCHANGED <<mQueuedEvents, looper, mRequests>>
        /\ \A s \in Requests : call'[s] = "idle" => call[s] = "idle"
    BY <1>t, <1>3 DEF ClientClose, WaitReturns, RequestPmQos, queue, TypeOK
  <2>2. \A k \in DOMAIN mQueuedEvents : mQueuedEvents[k].req \in Requests
    BY <1>t DEF TypeOK, Events
  <2>3. \A w \in mRequests : w.req \in Requests
    BY <1>t DEF TypeOK, Watch
  <2>4. QED
    BY <1>t, <2>1, <2>2, <2>3 DEF Tokens, HasEvent, LooperOn
<1>4. CASE Receive
  BY <1>t, <1>4 DEF Receive, AtRemove, Poll, Tokens, HasEvent, LooperOn
<1>5. CASE RemoveEventByKey
  <2>1. looper.key \in DOMAIN mQueuedEvents /\ looper.at = "remove"
    BY <1>t, <1>5 DEF RemoveEventByKey, EventForEveryMessage
  <2>2. /\ DOMAIN mQueuedEvents' \subseteq DOMAIN mQueuedEvents
        /\ looper.key \notin DOMAIN mQueuedEvents'
        /\ \A k \in DOMAIN mQueuedEvents' :
              mQueuedEvents'[k] = mQueuedEvents[k]
        /\ looper' = [at |-> "run", ev |-> mQueuedEvents[looper.key]]
        /\ UNCHANGED <<call, mRequests>>
    BY <1>5 DEF RemoveEventByKey, Removed, AtRun
  <2>3. \A w \in mRequests : w.req # mQueuedEvents[looper.key].req
    BY <1>t, <2>1 DEF Tokens, HasEvent
  <2>4. \A k \in DOMAIN mQueuedEvents' :
           mQueuedEvents[k].req # mQueuedEvents[looper.key].req
    BY <1>t, <2>1, <2>2 DEF Tokens
  <2>5. QED
    BY <1>t, <2>1, <2>2, <2>3, <2>4 DEF Tokens, HasEvent, LooperOn
<1>6. CASE ArmTimeout
  <2>1. looper.req \in TimedRequests /\ looper.fd \in Fd
    BY <1>t, <1>6, LooperFields DEF ArmTimeout
  <2> DEFINE e == TimeoutEvent(looper.req, looper.fd)
  <2>2. e \in Events /\ e.req = looper.req /\ Timeout[looper.req] \in Nat
    BY <2>1, TimeoutAssumption DEF TimeoutEvent, Events
  <2>3. /\ mKey \notin DOMAIN mQueuedEvents
        /\ DOMAIN mQueuedEvents' = DOMAIN mQueuedEvents \cup {mKey}
        /\ mQueuedEvents'[mKey].req = looper.req
        /\ \A k \in DOMAIN mQueuedEvents :
              mQueuedEvents'[k] = mQueuedEvents[k]
    BY <1>t, <1>6, <2>2, SendAdds DEF ArmTimeout
  <2>4. /\ looper.at = "arm" /\ looper' = [at |-> "poll"]
        /\ UNCHANGED <<call, mRequests>>
    BY <1>6 DEF ArmTimeout, Poll
  <2>5. LooperOn(looper.req)
    BY <2>4 DEF LooperOn
  <2>6. \A w \in mRequests : w.req # looper.req
    BY <1>t, <2>4, <2>5 DEF Tokens
  <2>7. \A k \in DOMAIN mQueuedEvents : mQueuedEvents[k].req # looper.req
    BY <1>t, <2>5 DEF Tokens
  <2>8. call[looper.req] # "idle"
    BY <1>t, <2>1, <2>5 DEF Tokens
  <2> HIDE DEF e
  <2>9. QED
    BY <1>t, <2>3, <2>4, <2>6, <2>7, <2>8 DEF Tokens, HasEvent, LooperOn
<1>7. ASSUME UNCHANGED <<mQueuedEvents, mRequests, call>>,
             \A r : LooperOn(r)' => LooperOn(r),
             looper.at \in {"reply", "signal"} =>
                looper'.at \in {"poll", "reply", "signal"}
      PROVE  Tokens'
  <2>1. \A r : LooperOn(r)' => looper'.at # "poll"
    BY DEF LooperOn
  <2>2. QED
    BY <1>t, <1>7, <2>1 DEF Tokens, HasEvent
<1>8. CASE OpenPmQosNode
  BY <1>7, <1>8 DEF OpenPmQosNode, AfterOpen, AfterFailedOpen, Poll, AtArm,
                    AtPipe, AtReply, LooperOn, queue
<1>9. CASE TimeoutRequest \/ CloseFd \/ Signal \/ CloseHandle
  BY <1>7, <1>9 DEF TimeoutRequest, CloseFd, Signal, CloseHandle, Poll,
                    AtCloseFd, LooperOn, queue
<1>10. CASE MakePipe \/ Reply
  BY <1>7, <1>10 DEF MakePipe, Reply, AtListen, AtReply, AtSignal, LooperOn,
                     queue
<1>11. CASE ListenForHandleToCloseFd
  <2>1. /\ looper.at = "listen" /\ looper'.at = "reply"
        /\ looper'.req = looper.req
        /\ UNCHANGED <<mQueuedEvents, call>>
    BY <1>11 DEF ListenForHandleToCloseFd, AtReply, queue
  <2>2. /\ LooperOn(looper.req)
        /\ looper.req \in HandleRequests
        /\ \A r : LooperOn(r)' => LooperOn(r)
    BY <1>t, <2>1, LooperFields DEF LooperOn
  <2>3. \A w \in mRequests' : w \in mRequests \/ w.req = looper.req
    BY <1>11 DEF ListenForHandleToCloseFd
  <2>4. \A v, w \in mRequests' :
           v.req = looper.req /\ w.req = looper.req => v = w
    <3>1. \A w \in mRequests : w.req # looper.req
      BY <1>t, <2>1, <2>2 DEF Tokens
    <3>2. QED
      BY <1>11, <3>1 DEF ListenForHandleToCloseFd
  <2>5. \A v, w \in mRequests' : v.req = w.req => v = w
    BY <1>t, <2>3, <2>4 DEF Tokens
  <2>6. call[looper.req] # "idle" /\ ~HasEvent(looper.req)
    BY <1>t, <2>2 DEF Tokens, HasEvent
  <2>7. QED
    BY <1>t, <2>1, <2>2, <2>3, <2>5, <2>6 DEF Tokens, HasEvent
<1>12. CASE PipeCloseCb
  <2>1. PICK w \in mRequests : /\ mRequests' = mRequests \ {w}
                               /\ looper' = AtCloseHandle(w)
    BY <1>12 DEF PipeCloseCb
  <2>2. UNCHANGED <<mQueuedEvents, call>> /\ \A r : LooperOn(r)' <=> w.req = r
    BY <1>12, <2>1 DEF PipeCloseCb, AtCloseHandle, LooperOn, queue
  <2>3. QED
    BY <1>t, <2>1, <2>2 DEF Tokens, HasEvent
<1>13. CASE Tick
  BY <1>7, <1>13 DEF Tick, LooperOn
<1>14. CASE UNCHANGED vars
  BY <1>7, <1>14 DEF vars, queue, LooperOn
<1>15. QED
  BY <1>1, <1>2, <1>3, <1>4, <1>5, <1>6, <1>8, <1>9, <1>10, <1>11, <1>12,
     <1>13, <1>14 DEF Next, Callers, LooperThread

(* Nothing a handle request's caller sees is disturbed by a step that      *)
(* leaves its event, its stage, its barrier and its frame alone.           *)
LEMMA FramesKept ==
  ASSUME IInv, UNCHANGED <<call, done, ret>>,
         \A r \in HandleRequests :
            /\ Unanswered(r)' => Unanswered(r)
            /\ (looper.at = "signal" /\ looper.req = r)'
                  => looper.at = "signal" /\ looper.req = r
  PROVE  Frames'
BY DEF IInv, Frames

(* Each handle request goes through its stages in order.                   *)
LEMMA NextFrames == IInv /\ [Next]_vars => Frames'
<1> SUFFICES ASSUME IInv, [Next]_vars PROVE Frames'
  OBVIOUS
<1>t. TypeOK /\ EventForEveryMessage /\ Tokens /\ Frames
  BY DEF IInv
<1>c. /\ call \in [Requests -> {"idle", "waiting", "returned", "closed"}]
      /\ done \in [HandleRequests -> {"CLOSED", "OPENED"}]
      /\ ret \in [HandleRequests \cup DirectRequests
                      -> Fd \cup {Failed, Garbage}]
  BY <1>t DEF TypeOK
<1>1. ASSUME NEW r \in TimedRequests, RequestPmQosTimed(r)
      PROVE  Frames'
  <2>1. TimedEvent(r) \in Events /\ TimedEvent(r).type = "timed"
    BY DEF TimedEvent, Events
  <2>2. /\ DOMAIN mQueuedEvents' = DOMAIN mQueuedEvents \cup {mKey}
        /\ mQueuedEvents'[mKey].type = "timed"
        /\ \A k \in DOMAIN mQueuedEvents :
              mQueuedEvents'[k] = mQueuedEvents[k]
    BY <1>t, <1>1, <2>1, SendAdds DEF RequestPmQosTimed
  <2>3. /\ call' = [call EXCEPT ![r] = "returned"]
        /\ UNCHANGED <<looper, done, ret>>
    BY <1>1 DEF RequestPmQosTimed
  <2>4. \A h \in HandleRequests : h # r /\ call'[h] = call[h]
    BY <1>c, <2>3, RequestsAssumption DEF Requests
  <2>5. QED
    BY <1>t, <2>2, <2>3, <2>4 DEF Frames, Unanswered
<1>2. ASSUME NEW r \in HandleRequests, CreatePmQosHandle(r)
      PROVE  Frames'
  <2>1. /\ HandleEvent(r) \in Events /\ HandleEvent(r).type = "handle"
        /\ HandleEvent(r).req = r
    BY DEF HandleEvent, Events
  <2>2. /\ DOMAIN mQueuedEvents' = DOMAIN mQueuedEvents \cup {mKey}
        /\ mQueuedEvents'[mKey].req = r
        /\ \A k \in DOMAIN mQueuedEvents :
              mQueuedEvents'[k] = mQueuedEvents[k]
    BY <1>t, <1>2, <2>1, SendAdds DEF CreatePmQosHandle
  <2>3. /\ call[r] = "idle" /\ call' = [call EXCEPT ![r] = "waiting"]
        /\ UNCHANGED <<looper, done, ret>>
    BY <1>2 DEF CreatePmQosHandle
  <2>4. call'[r] = "waiting" /\ \A h \in HandleRequests \ {r} : call'[h] = call[h]
    BY <1>c, <2>3 DEF Requests
  <2>5. looper.at = "signal" => looper.req # r
    BY <1>t, <2>3 DEF Frames
  <2>6. QED
    BY <1>t, <2>2, <2>3, <2>4, <2>5 DEF Frames, Unanswered
<1>3. ASSUME NEW r \in HandleRequests, WaitReturns(r)
      PROVE  Frames'
  <2>1. /\ done[r] = "OPENED" /\ call' = [call EXCEPT ![r] = "returned"]
        /\ UNCHANGED <<mQueuedEvents, looper, done, ret>>
    BY <1>3 DEF WaitReturns, queue
  <2>2. call'[r] = "returned" /\ \A h \in HandleRequests \ {r} : call'[h] = call[h]
    BY <1>c, <2>1 DEF Requests
  <2>3. QED
    BY <1>t, <2>1, <2>2 DEF Frames, Unanswered
<1>4. ASSUME NEW r \in DirectRequests, RequestPmQos(r)
      PROVE  Frames'
  <2>1. /\ call' = [call EXCEPT ![r] = "returned"]
        /\ \E v : ret' = [ret EXCEPT ![r] = v]
        /\ UNCHANGED <<mQueuedEvents, looper, done>>
    BY <1>4 DEF RequestPmQos, queue
  <2>2. \A h \in HandleRequests : call'[h] = call[h] /\ ret'[h] = ret[h]
    BY <1>c, <2>1, RequestsAssumption DEF Requests
  <2>3. QED
    BY <1>t, <2>1, <2>2 DEF Frames, Unanswered
<1>5. ASSUME NEW r \in HandleRequests \cup DirectRequests, ClientClose(r)
      PROVE  Frames'
  <2>1. /\ call[r] = "returned" /\ call' = [call EXCEPT ![r] = "closed"]
        /\ UNCHANGED <<mQueuedEvents, looper, done, ret>>
    BY <1>5 DEF ClientClose, queue
  <2>2. call'[r] = "closed" /\ \A h \in HandleRequests \ {r} : call'[h] = call[h]
    BY <1>c, <2>1 DEF Requests
  <2>3. QED
    BY <1>t, <2>1, <2>2 DEF Frames, Unanswered
<1>6. CASE Receive
  <2>1. UNCHANGED <<mQueuedEvents, call, done, ret>> /\ looper'.at = "remove"
    BY <1>6 DEF Receive, AtRemove
  <2>2. QED
    BY <2>1, FramesKept DEF Unanswered
<1>7. CASE RemoveEventByKey
  <2>1. looper.key \in DOMAIN mQueuedEvents
    BY <1>t, <1>7 DEF RemoveEventByKey, EventForEveryMessage
  <2>2. /\ UNCHANGED <<call, done, ret>>
        /\ looper' = [at |-> "run", ev |-> mQueuedEvents[looper.key]]
        /\ DOMAIN mQueuedEvents' \subseteq DOMAIN mQueuedEvents
        /\ \A k \in DOMAIN mQueuedEvents' :
              mQueuedEvents'[k] = mQueuedEvents[k]
    BY <1>7 DEF RemoveEventByKey, Removed, AtRun
  <2>3. \A r : Unanswered(r)' => Unanswered(r)
    BY <2>1, <2>2 DEF Unanswered
  <2>4. QED
    BY <2>2, <2>3, FramesKept
<1>8. CASE OpenPmQosNode
  <2>1. /\ UNCHANGED <<mQueuedEvents, call, done, ret>>
        /\ looper.at = "run" /\ looper.ev.type \in {"timed", "handle"}
        /\ \/ looper'.at \in {"poll", "arm"}
           \/ /\ looper.ev.type = "handle" /\ looper'.at \in {"pipe", "reply"}
              /\ looper'.req = looper.ev.req
    BY <1>8 DEF OpenPmQosNode, AfterOpen, AfterFailedOpen, Poll, AtArm, AtPipe,
                AtReply, queue
  <2>2. \A r : Unanswered(r)' => Unanswered(r)
    BY <2>1 DEF Unanswered
  <2>3. QED
    BY <2>1, <2>2, FramesKept
<1>9. CASE ArmTimeout
  <2>1. looper.req \in TimedRequests /\ looper.fd \in Fd
    BY <1>t, <1>9, LooperFields DEF ArmTimeout
  <2> DEFINE e == TimeoutEvent(looper.req, looper.fd)
  <2>2. e \in Events /\ e.type = "timeout" /\ Timeout[looper.req] \in Nat
    BY <2>1, TimeoutAssumption DEF TimeoutEvent, Events
  <2>3. /\ DOMAIN mQueuedEvents' = DOMAIN mQueuedEvents \cup {mKey}
        /\ mQueuedEvents'[mKey].type = "timeout"
        /\ \A k \in DOMAIN mQueuedEvents :
              mQueuedEvents'[k] = mQueuedEvents[k]
    BY <1>t, <1>9, <2>2, SendAdds DEF ArmTimeout
  <2>4. UNCHANGED <<call, done, ret>> /\ looper'.at = "poll"
    BY <1>9 DEF ArmTimeout, Poll
  <2> HIDE DEF e
  <2>5. \A r : Unanswered(r)' => Unanswered(r)
    BY <2>3, <2>4 DEF Unanswered
  <2>6. QED
    BY <2>4, <2>5, FramesKept
<1>10. CASE TimeoutRequest \/ CloseHandle \/ CloseFd \/ PipeCloseCb
  <2>1. /\ UNCHANGED <<mQueuedEvents, call, done, ret>>
        /\ looper'.at \in {"poll", "closeHandle", "closeFd"}
    BY <1>10 DEF TimeoutRequest, CloseHandle, CloseFd, PipeCloseCb, Poll,
                 AtCloseHandle, AtCloseFd, queue
  <2>2. QED
    BY <2>1, FramesKept DEF Unanswered
<1>11. CASE MakePipe \/ ListenForHandleToCloseFd
  <2>1. /\ UNCHANGED <<mQueuedEvents, call, done, ret>>
        /\ looper.at \in {"pipe", "listen"}
        /\ looper'.at \in {"listen", "reply"} /\ looper'.req = looper.req
    BY <1>11 DEF MakePipe, ListenForHandleToCloseFd, AtListen, AtReply, queue
  <2>2. \A r : Unanswered(r)' => Unanswered(r)
    BY <2>1 DEF Unanswered
  <2>3. QED
    BY <2>1, <2>2, FramesKept
<1>12. CASE Reply
  <2>1. /\ looper.at = "reply" /\ looper.req \in HandleRequests
        /\ looper.val \in Fd \cup {Failed}
    BY <1>t, <1>12, LooperFields DEF Reply
  <2>2. /\ ret' = [ret EXCEPT ![looper.req] = looper.val]
        /\ looper' = [at |-> "signal", req |-> looper.req]
        /\ UNCHANGED <<mQueuedEvents, call, done>>
    BY <1>12 DEF Reply, AtSignal, queue
  <2>3. looper.val # Garbage
    BY <2>1 DEF Fd, Failed, Garbage
  <2>4. /\ ret'[looper.req] # Garbage
        /\ \A h \in HandleRequests \ {looper.req} : ret'[h] = ret[h]
    BY <1>c, <2>1, <2>2, <2>3
  <2>5. Unanswered(looper.req)
    BY <2>1 DEF Unanswered
  <2>6. \A k \in DOMAIN mQueuedEvents : mQueuedEvents[k].req # looper.req
    BY <1>t, <2>1 DEF Tokens, LooperOn
  <2>7. QED
    BY <1>t, <2>1, <2>2, <2>4, <2>5, <2>6 DEF Frames, Unanswered
<1>13. CASE Signal
  <2>1. looper.at = "signal" /\ looper.req \in HandleRequests
    BY <1>t, <1>13, LooperFields DEF Signal
  <2>2. /\ done' = [done EXCEPT ![looper.req] = "OPENED"]
        /\ looper' = [at |-> "poll"]
        /\ UNCHANGED <<mQueuedEvents, call, ret>>
    BY <1>13 DEF Signal, Poll, queue
  <2>3. \A k \in DOMAIN mQueuedEvents : mQueuedEvents[k].req # looper.req
    BY <1>t, <2>1 DEF Tokens, LooperOn
  <2>4. \A h \in HandleRequests \ {looper.req} : done'[h] = done[h]
    BY <1>c, <2>2
  <2>5. call[looper.req] = "waiting" /\ ret[looper.req] # Garbage
    BY <1>t, <2>1 DEF Frames
  <2>6. done'[looper.req] = "OPENED"
    BY <1>c, <2>1, <2>2
  <2>7. QED
    BY <1>t, <2>2, <2>3, <2>4, <2>5, <2>6 DEF Frames, Unanswered
<1>14. CASE Tick
  BY <1>14, FramesKept DEF Tick, Unanswered
<1>15. CASE UNCHANGED vars
  BY <1>15, FramesKept DEF vars, queue, Unanswered
<1>16. QED
  BY <1>1, <1>2, <1>3, <1>4, <1>5, <1>6, <1>7, <1>8, <1>9, <1>10, <1>11,
     <1>12, <1>13, <1>14, <1>15 DEF Next, Callers, LooperThread

(* Files of different requests, or different ends, are different.          *)
LEMMA FileNames ==
  /\ \A r, s :
        /\ QosNode(r) = QosNode(s) => r = s
        /\ ReadEnd(r) = ReadEnd(s) => r = s
        /\ WriteEnd(r) = WriteEnd(s) => r = s
        /\ QosNode(r) # ReadEnd(s)
        /\ QosNode(r) # WriteEnd(s)
        /\ ReadEnd(r) # WriteEnd(s)
  /\ \A r \in Requests :
        QosNode(r) # NoFile /\ ReadEnd(r) # NoFile /\ WriteEnd(r) # NoFile
<1>1. \A r \in Requests :
         QosNode(r) \in Files /\ ReadEnd(r) \in Files /\ WriteEnd(r) \in Files
  BY DEF QosNode, ReadEnd, WriteEnd, Files
<1>2. \A r, s :
         /\ QosNode(r) = QosNode(s) => r = s
         /\ ReadEnd(r) = ReadEnd(s) => r = s
         /\ WriteEnd(r) = WriteEnd(s) => r = s
  <2> SUFFICES ASSUME NEW r, NEW s
               PROVE  /\ QosNode(r) = QosNode(s) => r = s
                      /\ ReadEnd(r) = ReadEnd(s) => r = s
                      /\ WriteEnd(r) = WriteEnd(s) => r = s
    OBVIOUS
  <2>1. QosNode(r).req = r /\ QosNode(s).req = s
    BY DEF QosNode
  <2>2. ReadEnd(r).req = r /\ ReadEnd(s).req = s
    BY DEF ReadEnd
  <2>3. WriteEnd(r).req = r /\ WriteEnd(s).req = s
    BY DEF WriteEnd
  <2>4. QED
    BY <2>1, <2>2, <2>3
<1>3. \A r, s :
         /\ QosNode(r) # ReadEnd(s)
         /\ QosNode(r) # WriteEnd(s)
         /\ ReadEnd(r) # WriteEnd(s)
  <2> SUFFICES ASSUME NEW r, NEW s
               PROVE  /\ QosNode(r) # ReadEnd(s)
                      /\ QosNode(r) # WriteEnd(s)
                      /\ ReadEnd(r) # WriteEnd(s)
    OBVIOUS
  <2>1. /\ QosNode(r).end = "qos" /\ ReadEnd(r).end = "read"
        /\ ReadEnd(s).end = "read" /\ WriteEnd(s).end = "write"
    BY DEF QosNode, ReadEnd, WriteEnd
  <2>2. QED
    BY <2>1
<1>4. QED
  BY <1>1, <1>2, <1>3, FdAssumption

(* Which requests the holders of claims work for, and on which numbers.    *)
LEMMA Holders ==
  ASSUME TypeOK
  PROVE  /\ \A k \in DOMAIN mQueuedEvents :
               mQueuedEvents[k].type = "timeout" =>
                   /\ mQueuedEvents[k].req \in TimedRequests
                   /\ mQueuedEvents[k].fd \in Fd
         /\ \A w \in mRequests :
               w.req \in HandleRequests /\ w.handle \in Fd /\ w.fd \in Fd
         /\ \A r \in HandleRequests \cup DirectRequests :
               ret[r] >= 0 => ret[r] \in Fd
<1>1. \A k \in DOMAIN mQueuedEvents : mQueuedEvents[k] \in Events
  BY DEF TypeOK
<1>2. \A r \in HandleRequests \cup DirectRequests :
         ret[r] \in Fd \cup {Failed, Garbage}
  BY DEF TypeOK
<1>3. QED
  BY <1>1, <1>2, EventFields DEF TypeOK, Watch, Failed, Garbage

(* A step that gives out unused numbers disturbs no claim.                 *)
LEMMA OpeningSpares ==
  ASSUME IInv,
         \A f \in Fd : files[f] # NoFile => files'[f] = files[f]
  PROVE  /\ UNCHANGED mQueuedEvents => QueueOwns'
         /\ UNCHANGED mRequests => WatchesOwn'
         /\ UNCHANGED <<call, ret>> => ClientsOwn'
<1> USE DEF Requests
<1>1. TypeOK /\ Owned
  BY DEF IInv
<1>2. ASSUME UNCHANGED mQueuedEvents PROVE QueueOwns'
  BY <1>1, <1>2, Holders, FileNames DEF Owned, QueueOwns, Is
<1>3. ASSUME UNCHANGED mRequests PROVE WatchesOwn'
  BY <1>1, <1>3, Holders, FileNames DEF Owned, WatchesOwn, Is
<1>4. ASSUME UNCHANGED <<call, ret>> PROVE ClientsOwn'
  BY <1>1, <1>4, Holders, FileNames DEF Owned, ClientsOwn, Is
<1>5. QED
  BY <1>2, <1>3, <1>4

(* A step that closes a number disturbs no claim on another file.          *)
LEMMA ClosingSpares ==
  ASSUME IInv, NEW f \in Fd, NEW r \in Requests,
         files' = [files EXCEPT ![f] = NoFile],
         files[f] \in {QosNode(r), ReadEnd(r), WriteEnd(r)}
  PROVE  /\ UNCHANGED mQueuedEvents /\ ~HasEvent(r) => QueueOwns'
         /\ UNCHANGED mQueuedEvents /\ r \notin TimedRequests => QueueOwns'
         /\ /\ UNCHANGED mRequests
            /\ files[f] # ReadEnd(r) => \A w \in mRequests : w.req # r
            => WatchesOwn'
         /\ /\ UNCHANGED <<call, ret>>
            /\ r \notin DirectRequests /\ files[f] # ReadEnd(r)
            => ClientsOwn'
<1> USE DEF Requests
<1>1. TypeOK /\ Owned
  BY DEF IInv
<1>2. \A g \in Fd : g # f => files'[g] = files[g]
  BY <1>1 DEF TypeOK
<1>3. ASSUME UNCHANGED mQueuedEvents, ~HasEvent(r) \/ r \notin TimedRequests
      PROVE  QueueOwns'
  <2>1. ASSUME NEW k \in DOMAIN mQueuedEvents,
               mQueuedEvents[k].type = "timeout", mQueuedEvents[k].fd = f
        PROVE  FALSE
    <3>1. files[f] = QosNode(mQueuedEvents[k].req)
      BY <1>1, <2>1 DEF Owned, QueueOwns, Is
    <3>2. mQueuedEvents[k].req = r
      BY <3>1 DEF QosNode, ReadEnd, WriteEnd
    <3>3. HasEvent(r) /\ r \in TimedRequests
      BY <1>1, <2>1, <3>2, Holders DEF HasEvent
    <3>4. QED
      BY <1>3, <3>3
  <2>2. QED
    BY <1>1, <1>2, <1>3, <2>1, Holders DEF Owned, QueueOwns, Is
<1>4. ASSUME UNCHANGED mRequests,
             files[f] # ReadEnd(r) => \A w \in mRequests : w.req # r
      PROVE  WatchesOwn'
  <2>1. ASSUME NEW w \in mRequests, w.handle = f \/ w.fd = f
        PROVE  FALSE
    <3>1. files[f] = WriteEnd(w.req) \/ files[f] = QosNode(w.req)
      BY <1>1, <2>1 DEF Owned, WatchesOwn, Is
    <3>2. w.req = r /\ files[f] # ReadEnd(r)
      BY <3>1 DEF QosNode, ReadEnd, WriteEnd
    <3>3. QED
      BY <1>4, <3>2
  <2>2. QED
    BY <1>1, <1>2, <1>4, <2>1, Holders DEF Owned, WatchesOwn, Is
<1>5. ASSUME UNCHANGED <<call, ret>>,
             r \notin DirectRequests, files[f] # ReadEnd(r)
      PROVE  ClientsOwn'
  <2>1. ASSUME NEW h \in HandleRequests,
               call[h] \in {"waiting", "returned"}, ret[h] = f, ret[h] >= 0
        PROVE  FALSE
    <3>1. files[f] = ReadEnd(h)
      BY <1>1, <2>1 DEF Owned, ClientsOwn, Is
    <3>2. QED
      BY <1>5, <3>1 DEF QosNode, ReadEnd, WriteEnd
  <2>2. ASSUME NEW d \in DirectRequests,
               call[d] = "returned", ret[d] = f, ret[d] >= 0
        PROVE  FALSE
    <3>1. files[f] = QosNode(d)
      BY <1>1, <2>2 DEF Owned, ClientsOwn, Is
    <3>2. QED
      BY <1>5, <3>1 DEF QosNode, ReadEnd, WriteEnd
  <2>3. QED
    BY <1>1, <1>2, <1>5, <2>1, <2>2, Holders DEF Owned, ClientsOwn, Is
<1>6. QED
  BY <1>3, <1>4, <1>5

(* A step of the queue, the caller or the clock moves no descriptor.       *)
LEMMA FilesKept ==
  ASSUME IInv, UNCHANGED files
  PROVE  /\ UNCHANGED mQueuedEvents => QueueOwns'
         /\ UNCHANGED looper => LooperOwns'
         /\ UNCHANGED mRequests => WatchesOwn'
         /\ UNCHANGED <<call, ret>> => ClientsOwn'
BY DEF IInv, Owned, QueueOwns, LooperOwns, WatchesOwn, ClientsOwn, Is

(* An event that is sent brings its own claim with it, if any.             *)
LEMMA SendOwns ==
  ASSUME IInv, NEW delay \in Nat, NEW e \in Events,
         SendEventDelayed(delay, e), UNCHANGED files,
         e.type = "timeout" => Is(e.fd, QosNode(e.req))
  PROVE  QueueOwns'
<1>1. /\ DOMAIN mQueuedEvents' = DOMAIN mQueuedEvents \cup {mKey}
      /\ mQueuedEvents'[mKey] = e
      /\ \A k \in DOMAIN mQueuedEvents : mQueuedEvents'[k] = mQueuedEvents[k]
  BY SendAdds DEF IInv
<1>2. QED
  BY <1>1 DEF IInv, Owned, QueueOwns, Is

(* Every claim goes on holding.                                            *)
LEMMA NextOwned == IInv /\ [Next]_vars => Owned'
<1> SUFFICES ASSUME IInv, [Next]_vars PROVE Owned'
  OBVIOUS
<1> USE DEF Requests
<1>t. TypeOK /\ EventForEveryMessage /\ Tokens /\ Frames /\ Owned
  BY DEF IInv
<1>c. /\ call \in [Requests -> {"idle", "waiting", "returned", "closed"}]
      /\ files \in [Fd -> Files \cup {NoFile}]
      /\ ret \in [HandleRequests \cup DirectRequests
                      -> Fd \cup {Failed, Garbage}]
  BY <1>t DEF TypeOK
<1>1. ASSUME NEW r \in TimedRequests, RequestPmQosTimed(r)
      PROVE  Owned'
  <2>1. TimedEvent(r) \in Events /\ TimedEvent(r).type = "timed"
    BY DEF TimedEvent, Events
  <2>2. QueueOwns'
    BY <1>1, <2>1, SendOwns DEF RequestPmQosTimed
  <2>3. LooperOwns' /\ WatchesOwn'
    BY <1>1, FilesKept DEF RequestPmQosTimed
  <2>4. \A s \in HandleRequests \cup DirectRequests : call'[s] = call[s]
    BY <1>1, <1>c, RequestsAssumption DEF RequestPmQosTimed
  <2>5. ClientsOwn'
    BY <1>1, <1>t, <2>4 DEF RequestPmQosTimed, Owned, ClientsOwn, Is
  <2>6. QED
    BY <2>2, <2>3, <2>5 DEF Owned
<1>2. ASSUME NEW r \in HandleRequests, CreatePmQosHandle(r)
      PROVE  Owned'
  <2>1. HandleEvent(r) \in Events /\ HandleEvent(r).type = "handle"
    BY DEF HandleEvent, Events
  <2>2. QueueOwns'
    BY <1>2, <2>1, SendOwns DEF CreatePmQosHandle
  <2>3. LooperOwns' /\ WatchesOwn'
    BY <1>2, FilesKept DEF CreatePmQosHandle
  <2>4. /\ ret[r] = Garbage /\ r \notin DirectRequests
        /\ \A s \in (HandleRequests \cup DirectRequests) \ {r} :
              call'[s] = call[s]
    BY <1>2, <1>c, <1>t, RequestsAssumption DEF CreatePmQosHandle, Frames
  <2>5. ClientsOwn'
    BY <1>2, <1>t, <2>4 DEF CreatePmQosHandle, Owned, ClientsOwn, Is, Garbage
  <2>6. QED
    BY <2>2, <2>3, <2>5 DEF Owned
<1>3. ASSUME NEW r \in HandleRequests, WaitReturns(r)
      PROVE  Owned'
  <2>1. QueueOwns' /\ LooperOwns' /\ WatchesOwn'
    BY <1>3, FilesKept DEF WaitReturns, queue
  <2>2. \A s \in (HandleRequests \cup DirectRequests) \ {r} : call'[s] = call[s]
    BY <1>3, <1>c DEF WaitReturns
  <2>3. ClientsOwn'
    BY <1>3, <1>t, <2>2, RequestsAssumption
       DEF WaitReturns, Owned, ClientsOwn, Is
  <2>4. QED
    BY <2>1, <2>3 DEF Owned
<1>4. ASSUME NEW r \in DirectRequests, RequestPmQos(r)
      PROVE  Owned'
  <2>1. /\ UNCHANGED <<mQueuedEvents, mRequests, looper>>
        /\ \A f \in Fd : files[f] # NoFile => files'[f] = files[f]
    BY <1>4, <1>c DEF RequestPmQos, queue, LowestUnused
  <2>2. QueueOwns' /\ WatchesOwn'
    BY <2>1, OpeningSpares
  <2>3. LooperOwns'
    BY <1>t, <2>1, LooperFields, EventFields, FileNames
       DEF Owned, LooperOwns, Is
  <2>4. /\ \A s \in HandleRequests \cup DirectRequests :
              s # r => call'[s] = call[s] /\ ret'[s] = ret[s]
        /\ ret'[r] >= 0 => ret'[r] \in Fd /\ files'[ret'[r]] = QosNode(r)
    BY <1>4, <1>c DEF RequestPmQos, Failed
  <2>5. r \notin HandleRequests
    BY RequestsAssumption
  <2>6. ClientsOwn'
    <3>1. \A s \in HandleRequests :
             call'[s] \in {"waiting", "returned"} /\ ret'[s] >= 0 =>
                files'[ret'[s]] = ReadEnd(s)
      BY <1>t, <2>1, <2>4, <2>5, Holders, FileNames DEF Owned, ClientsOwn, Is
    <3>2. \A s \in DirectRequests :
             call'[s] = "returned" /\ ret'[s] >= 0 =>
                files'[ret'[s]] = QosNode(s)
      BY <1>t, <2>1, <2>4, Holders, FileNames DEF Owned, ClientsOwn, Is
    <3>3. QED
      BY <3>1, <3>2 DEF ClientsOwn, Is
  <2>7. QED
    BY <2>2, <2>3, <2>6 DEF Owned
<1>5. ASSUME NEW r \in HandleRequests \cup DirectRequests, ClientClose(r)
      PROVE  Owned'
  <2>1. /\ call[r] = "returned" /\ ret[r] >= 0 /\ ret[r] \in Fd
        /\ files' = [files EXCEPT ![ret[r]] = NoFile]
        /\ UNCHANGED <<mQueuedEvents, mRequests, looper, ret>>
    BY <1>5, <1>t, Holders DEF ClientClose, queue
  <2>2. files[ret[r]] = IF r \in HandleRequests THEN ReadEnd(r) ELSE QosNode(r)
    BY <1>t, <2>1 DEF Owned, ClientsOwn, Is
  <2>3. r \notin TimedRequests /\ r \in Requests
    BY RequestsAssumption
  <2>4. QueueOwns'
    BY <2>1, <2>2, <2>3, ClosingSpares
  <2>5. WatchesOwn'
    <3>1. r \notin HandleRequests => \A w \in mRequests : w.req # r
      BY <1>t, Holders
    <3>2. QED
      BY <2>1, <2>2, <2>3, <3>1, ClosingSpares
  <2>6. LooperOwns'
    <3>1. looper.at = "listen" \/ looper.at = "reply" => looper.req # r
      <4>1. looper.at = "listen" \/ looper.at = "reply" =>
               looper.req \in HandleRequests /\ Unanswered(looper.req)
        BY <1>t, LooperFields DEF Unanswered
      <4>2. QED
        BY <1>t, <2>1, <4>1 DEF Frames
    <3>2. \A g \in Fd : g # ret[r] => files'[g] = files[g]
      BY <1>c, <2>1
    <3>3. r \in HandleRequests => files[ret[r]] = ReadEnd(r)
      BY <2>2
    <3>4. r \notin HandleRequests => files[ret[r]] = QosNode(r)
      BY <2>2
    <3>5. looper.at = "run" /\ looper.ev.type = "timeout" =>
             looper.ev.req # r /\ looper.ev.fd \in Fd
      BY <1>t, <2>3, LooperFields, EventFields
    <3>6. looper.at \in {"arm", "pipe", "closeFd", "listen", "closeHandle"} =>
             looper.req \in TimedRequests \cup HandleRequests
      BY <1>t, LooperFields
    <3>7. looper.at = "run" /\ looper.ev.type = "timeout" =>
             looper.ev.fd # ret[r]
      BY <1>t, <3>3, <3>4, <3>5 DEF Owned, LooperOwns, Is,
             QosNode, ReadEnd, WriteEnd
    <3>8. looper.at \in {"arm", "pipe", "closeFd", "listen", "closeHandle"} =>
             looper.fd \in Fd /\ looper.fd # ret[r]
      <4>1. looper.at \in {"arm", "pipe", "closeFd", "listen", "closeHandle"}
              => looper.fd \in Fd /\ files[looper.fd] = QosNode(looper.req)
        BY <1>t, LooperFields DEF Owned, LooperOwns, Is
      <4>2. r \notin HandleRequests =>
               r \notin TimedRequests \cup HandleRequests
        BY <2>3
      <4>3. QED
        BY <3>3, <3>4, <3>6, <4>1, <4>2 DEF QosNode, ReadEnd, WriteEnd
    <3>9. looper.at = "listen" =>
             /\ looper.server \in Fd /\ looper.server # ret[r]
             /\ looper.client \in Fd /\ looper.client # ret[r]
      BY <1>t, <3>1, <3>3, <3>4, LooperFields
         DEF Owned, LooperOwns, Is,
             QosNode, ReadEnd, WriteEnd
    <3>10. looper.at = "closeHandle" =>
              looper.handle \in Fd /\ looper.handle # ret[r]
      BY <1>t, <3>3, <3>4, LooperFields DEF Owned, LooperOwns, Is,
             QosNode, ReadEnd, WriteEnd
    <3>11. looper.at = "reply" /\ looper.val # Failed =>
              looper.val \in Fd /\ looper.val # ret[r]
      BY <1>t, <3>1, <3>3, <3>4, LooperFields
         DEF Owned, LooperOwns, Is,
             QosNode, ReadEnd, WriteEnd
    <3>12. QED
      BY <1>t, <2>1, <3>2, <3>5, <3>7, <3>8, <3>9, <3>10, <3>11
         DEF Owned, LooperOwns, Is
  <2>7. ClientsOwn'
    <3>1. /\ call'[r] = "closed"
          /\ \A s \in HandleRequests \cup DirectRequests :
                s # r => call'[s] = call[s]
      BY <1>5, <1>c DEF ClientClose
    <3>2. \A g \in Fd : g # ret[r] => files'[g] = files[g]
      BY <1>c, <2>1
    <3>3. ASSUME NEW h \in HandleRequests, h # r,
                 call[h] \in {"waiting", "returned"}, ret[h] >= 0
          PROVE  Is(ret[h], ReadEnd(h))'
      <4>1. files[ret[h]] = ReadEnd(h) /\ ret[h] \in Fd
        BY <1>t, <3>3, Holders DEF Owned, ClientsOwn, Is
      <4>2. ret[h] # ret[r]
        BY <2>2, <3>3, <4>1 DEF QosNode, ReadEnd, WriteEnd
      <4>3. QED
        BY <2>1, <3>2, <4>1, <4>2 DEF Is
    <3>4. ASSUME NEW d \in DirectRequests, d # r, call[d] = "returned", ret[d] >= 0
          PROVE  Is(ret[d], QosNode(d))'
      <4>1. files[ret[d]] = QosNode(d) /\ ret[d] \in Fd
        BY <1>t, <3>4, Holders DEF Owned, ClientsOwn, Is
      <4>2. ret[d] # ret[r]
        BY <2>2, <3>4, <4>1 DEF QosNode, ReadEnd, WriteEnd
      <4>3. QED
        BY <2>1, <3>2, <4>1, <4>2 DEF Is
    <3>5. QED
      BY <2>1, <3>1, <3>3, <3>4 DEF ClientsOwn
  <2>8. QED
    BY <2>4, <2>5, <2>6, <2>7 DEF Owned
<1>6. CASE Receive
  <2>1. UNCHANGED <<files, mQueuedEvents, mRequests, call, ret>>
    BY <1>6 DEF Receive
  <2>2. LooperOwns'
    BY <1>6 DEF Receive, AtRemove, LooperOwns
  <2>3. QED
    BY <2>1, <2>2, FilesKept DEF Owned
<1>7. CASE RemoveEventByKey
  <2>1. looper.key \in DOMAIN mQueuedEvents
    BY <1>t, <1>7 DEF RemoveEventByKey, EventForEveryMessage
  <2>2. /\ looper' = [at |-> "run", ev |-> mQueuedEvents[looper.key]]
        /\ DOMAIN mQueuedEvents' \subseteq DOMAIN mQueuedEvents
        /\ \A k \in DOMAIN mQueuedEvents' :
              mQueuedEvents'[k] = mQueuedEvents[k]
        /\ UNCHANGED <<files, mRequests, call, ret>>
    BY <1>7 DEF RemoveEventByKey, Removed, AtRun
  <2>3. QueueOwns' /\ LooperOwns'
    BY <1>t, <2>1, <2>2 DEF Owned, QueueOwns, LooperOwns, Is
  <2>4. QED
    BY <2>2, <2>3, FilesKept DEF Owned
<1>8. CASE OpenPmQosNode
  <2>1. /\ UNCHANGED <<mQueuedEvents, mRequests, call, ret>>
        /\ \A f \in Fd : files[f] # NoFile => files'[f] = files[f]
    BY <1>8, <1>c DEF OpenPmQosNode, queue, LowestUnused
  <2>2. LooperOwns'
    <3>1. CASE looper' = AfterFailedOpen(looper.ev)
      BY <3>1 DEF AfterFailedOpen, Poll, AtReply, LooperOwns
    <3>2. ASSUME NEW f \in Fd, files' = [files EXCEPT ![f] = QosNode(looper.ev.req)],
                 looper' = AfterOpen(looper.ev, f)
          PROVE  LooperOwns'
      <4>1. /\ looper'.at \in {"arm", "pipe"} /\ looper'.fd = f
            /\ looper'.req = looper.ev.req
        BY <3>2 DEF AfterOpen, AtArm, AtPipe
      <4>2. files'[f] = QosNode(looper.ev.req)
        BY <1>c, <3>2
      <4>3. QED
        BY <4>1, <4>2 DEF LooperOwns, Is
    <3>3. QED
      BY <1>8, <3>1, <3>2 DEF OpenPmQosNode
  <2>3. QED
    BY <2>1, <2>2, OpeningSpares DEF Owned
<1>9. CASE ArmTimeout
  <2>1. /\ looper.req \in TimedRequests /\ looper.fd \in Fd
        /\ looper.at = "arm"
    BY <1>t, <1>9, LooperFields DEF ArmTimeout
  <2> DEFINE e == TimeoutEvent(looper.req, looper.fd)
  <2>2. e \in Events /\ Timeout[looper.req] \in Nat
    BY <2>1, TimeoutAssumption DEF TimeoutEvent, Events
  <2>3. Is(e.fd, QosNode(e.req))
    BY <1>t, <2>1 DEF Owned, LooperOwns, TimeoutEvent
  <2>4. /\ UNCHANGED <<files, mRequests, call, ret>> /\ looper'.at = "poll"
        /\ SendEventDelayed(Timeout[looper.req], e)
    BY <1>9 DEF ArmTimeout, Poll
  <2>5. QueueOwns'
    <3> HIDE DEF e
    <3>1. QED
      BY <2>2, <2>3, <2>4, SendOwns
  <2>6. LooperOwns'
    BY <2>4 DEF LooperOwns
  <2>7. QED
    BY <2>4, <2>5, <2>6, FilesKept DEF Owned
<1>10. CASE TimeoutRequest
  <2>1. /\ looper.ev.req \in TimedRequests /\ looper.ev.fd \in Fd
        /\ looper.at = "run" /\ looper.ev.type = "timeout"
    BY <1>t, <1>10, LooperFields, EventFields DEF TimeoutRequest
  <2>2. /\ files' = [files EXCEPT ![looper.ev.fd] = NoFile]
        /\ looper'.at = "poll"
        /\ UNCHANGED <<mQueuedEvents, mRequests, call, ret>>
    BY <1>10 DEF TimeoutRequest, Poll, queue
  <2>3. files[looper.ev.fd] = QosNode(looper.ev.req)
    BY <1>t, <2>1 DEF Owned, LooperOwns, Is
  <2>4. ~HasEvent(looper.ev.req)
    BY <1>t, <2>1 DEF Tokens, HasEvent, LooperOn
  <2>5. /\ \A w \in mRequests : w.req # looper.ev.req
        /\ looper.ev.req \notin DirectRequests
        /\ QosNode(looper.ev.req) # ReadEnd(looper.ev.req)
    BY <1>t, <2>1, Holders, FileNames, RequestsAssumption
  <2>6. LooperOwns'
    BY <2>2 DEF LooperOwns
  <2>7. QED
    BY <2>1, <2>2, <2>3, <2>4, <2>5, <2>6, ClosingSpares DEF Owned
<1>11. CASE MakePipe
  <2>1. /\ looper.req \in HandleRequests /\ looper.fd \in Fd
        /\ looper.at = "pipe"
        /\ UNCHANGED <<mQueuedEvents, mRequests, call, ret>>
    BY <1>t, <1>11, LooperFields DEF MakePipe, queue
  <2>2. files[looper.fd] = QosNode(looper.req)
    BY <1>t, <2>1 DEF Owned, LooperOwns, Is
  <2>3. ASSUME NEW c \in Fd, NEW s \in Fd,
               files[c] = NoFile, c < s, files[s] = NoFile,
               files' = [files EXCEPT ![c] = ReadEnd(looper.req),
                                      ![s] = WriteEnd(looper.req)],
               looper' = AtListen(looper.req, looper.fd, s, c)
        PROVE  Owned'
    <3>1. c # s /\ looper.fd # c /\ looper.fd # s
      BY <2>1, <2>2, <2>3, FileNames DEF Fd
    <3>2. /\ files'[c] = ReadEnd(looper.req)
          /\ files'[s] = WriteEnd(looper.req)
          /\ files'[looper.fd] = QosNode(looper.req)
      BY <1>c, <2>1, <2>2, <2>3, <3>1
    <3>3. \A f \in Fd : files[f] # NoFile => files'[f] = files[f]
      BY <1>c, <2>3
    <3>4. LooperOwns'
      BY <2>3, <3>2 DEF AtListen, LooperOwns, Is
    <3>5. QED
      BY <2>1, <3>3, <3>4, OpeningSpares DEF Owned
  <2>4. ASSUME files' = [files EXCEPT ![looper.fd] = NoFile],
               looper' = AtReply(looper.req, Failed)
        PROVE  Owned'
    <3>1. LooperOwns'
      BY <2>4 DEF AtReply, LooperOwns
    <3>2. \A w \in mRequests : w.req # looper.req
      BY <1>t, <2>1 DEF Tokens, LooperOn
    <3>3. /\ looper.req \notin TimedRequests /\ looper.req \notin DirectRequests
          /\ QosNode(looper.req) # ReadEnd(looper.req)
      BY <2>1, FileNames, RequestsAssumption
    <3>4. QED
      BY <2>1, <2>2, <2>4, <3>1, <3>2, <3>3, ClosingSpares DEF Owned
  <2>5. QED
    BY <1>11, <2>3, <2>4 DEF MakePipe, LowestUnused
<1>12. CASE ListenForHandleToCloseFd
  <2>1. /\ looper.at = "listen" /\ looper' = AtReply(looper.req, looper.client)
        /\ UNCHANGED <<files, mQueuedEvents, call, ret>>
    BY <1>12 DEF ListenForHandleToCloseFd, queue
  <2>2. LooperOwns'
    BY <1>t, <2>1 DEF AtReply, Owned, LooperOwns, Is
  <2>3. WatchesOwn'
    BY <1>t, <1>12, <2>1
       DEF ListenForHandleToCloseFd, Owned, LooperOwns, WatchesOwn, Is
  <2>4. QED
    BY <2>1, <2>2, <2>3, FilesKept DEF Owned
<1>13. CASE Reply
  <2>1. /\ looper.at = "reply" /\ looper.req \in HandleRequests
        /\ looper.val \in Fd \cup {Failed}
    BY <1>t, <1>13, LooperFields DEF Reply
  <2>2. /\ ret' = [ret EXCEPT ![looper.req] = looper.val]
        /\ looper'.at = "signal"
        /\ UNCHANGED <<files, mQueuedEvents, mRequests, call>>
    BY <1>13 DEF Reply, AtSignal, queue
  <2>3. /\ ret'[looper.req] = looper.val
        /\ \A s \in HandleRequests \cup DirectRequests :
              s # looper.req => ret'[s] = ret[s]
    BY <1>c, <2>1, <2>2
  <2>4. looper.val >= 0 => Is(looper.val, ReadEnd(looper.req))
    BY <1>t, <2>1 DEF Owned, LooperOwns, Failed
  <2>5. ClientsOwn'
    BY <1>t, <2>1, <2>2, <2>3, <2>4, RequestsAssumption
       DEF Owned, ClientsOwn, Is
  <2>6. LooperOwns'
    BY <2>2 DEF LooperOwns
  <2>7. QED
    BY <2>2, <2>5, <2>6, FilesKept DEF Owned
<1>14. CASE Signal
  <2>1. /\ UNCHANGED <<files, mQueuedEvents, mRequests, call, ret>>
        /\ looper'.at = "poll"
    BY <1>14 DEF Signal, Poll, queue
  <2>2. QED
    BY <2>1, FilesKept DEF Owned, LooperOwns
<1>15. CASE PipeCloseCb
  <2>1. PICK w \in mRequests : /\ mRequests' = mRequests \ {w}
                               /\ looper' = AtCloseHandle(w)
    BY <1>15 DEF PipeCloseCb
  <2>2. UNCHANGED <<files, mQueuedEvents, call, ret>>
    BY <1>15 DEF PipeCloseCb, queue
  <2>3. WatchesOwn' /\ LooperOwns'
    BY <1>t, <2>1, <2>2
       DEF Owned, WatchesOwn, LooperOwns, AtCloseHandle, Is
  <2>4. QED
    BY <2>2, <2>3, FilesKept DEF Owned
<1>16. CASE CloseHandle
  <2>1. /\ looper.req \in HandleRequests /\ looper.fd \in Fd
        /\ looper.handle \in Fd /\ looper.at = "closeHandle"
        /\ files' = [files EXCEPT ![looper.handle] = NoFile]
        /\ looper' = AtCloseFd(looper.req, looper.fd)
        /\ UNCHANGED <<mQueuedEvents, mRequests, call, ret>>
    BY <1>t, <1>16, LooperFields DEF CloseHandle, queue
  <2>2. /\ files[looper.handle] = WriteEnd(looper.req)
        /\ files[looper.fd] = QosNode(looper.req)
    BY <1>t, <2>1 DEF Owned, LooperOwns, Is
  <2>3. \A w \in mRequests : w.req # looper.req
    BY <1>t, <2>1 DEF Tokens, LooperOn
  <2>4. /\ looper.req \notin TimedRequests /\ looper.req \notin DirectRequests
        /\ WriteEnd(looper.req) # ReadEnd(looper.req)
        /\ looper.fd # looper.handle
    BY <2>1, <2>2, FileNames, RequestsAssumption
  <2>5. files'[looper.fd] = QosNode(looper.req)
    BY <1>c, <2>1, <2>2, <2>4
  <2>6. LooperOwns'
    BY <2>1, <2>5 DEF AtCloseFd, LooperOwns, Is
  <2>7. QED
    BY <2>1, <2>2, <2>3, <2>4, <2>6, ClosingSpares DEF Owned
<1>17. CASE CloseFd
  <2>1. /\ looper.req \in HandleRequests /\ looper.fd \in Fd
        /\ looper.at = "closeFd"
        /\ files' = [files EXCEPT ![looper.fd] = NoFile]
        /\ looper'.at = "poll"
        /\ UNCHANGED <<mQueuedEvents, mRequests, call, ret>>
    BY <1>t, <1>17, LooperFields DEF CloseFd, queue, Poll
  <2>2. files[looper.fd] = QosNode(looper.req)
    BY <1>t, <2>1 DEF Owned, LooperOwns, Is
  <2>3. \A w \in mRequests : w.req # looper.req
    BY <1>t, <2>1 DEF Tokens, LooperOn
  <2>4. /\ looper.req \notin TimedRequests /\ looper.req \notin DirectRequests
        /\ QosNode(looper.req) # ReadEnd(looper.req)
    BY <2>1, FileNames, RequestsAssumption
  <2>5. LooperOwns'
    BY <2>1 DEF LooperOwns
  <2>6. QED
    BY <2>1, <2>2, <2>3, <2>4, <2>5, ClosingSpares DEF Owned
<1>18. CASE Tick
  <2>1. UNCHANGED <<files, looper, mQueuedEvents, mRequests, call, ret>>
    BY <1>18 DEF Tick
  <2>2. QED
    BY <2>1, FilesKept DEF Owned
<1>19. CASE UNCHANGED vars
  <2>1. UNCHANGED <<files, looper, mQueuedEvents, mRequests, call, ret>>
    BY <1>19 DEF vars, queue
  <2>2. QED
    BY <2>1, FilesKept DEF Owned
<1>20. QED
  BY <1>1, <1>2, <1>3, <1>4, <1>5, <1>6, <1>7, <1>8, <1>9, <1>10, <1>11,
     <1>12, <1>13, <1>14, <1>15, <1>16, <1>17, <1>18, <1>19
     DEF Next, Callers, LooperThread

(* The invariant implies the three properties.                             *)
LEMMA OwnedClaims == IInv => ClaimsHold /\ FrameIsAlive /\ ReturnIsWritten
<1> SUFFICES ASSUME IInv PROVE ClaimsHold /\ FrameIsAlive /\ ReturnIsWritten
  OBVIOUS
<1>t. TypeOK /\ Frames /\ Owned
  BY DEF IInv
<1>1. \A c \in QueuedClaims : files[c.fd] = c.file
  BY <1>t DEF QueuedClaims, Claim, Owned, QueueOwns, Is
<1>2. \A c \in LooperClaims : files[c.fd] = c.file
  BY <1>t DEF LooperClaims, Claim, Owned, LooperOwns, Is
<1>3. \A c \in WatchClaims : files[c.fd] = c.file
  BY <1>t DEF WatchClaims, Claim, Owned, WatchesOwn, Is
<1>4. \A c \in ClientClaims : files[c.fd] = c.file
  BY <1>t DEF ClientClaims, Claim, Owned, ClientsOwn, Is
<1>5. ClaimsHold
  BY <1>1, <1>2, <1>3, <1>4 DEF ClaimsHold, Claims
<1>6. FrameIsAlive
  <2>1. looper.at \in {"pipe", "listen", "reply", "signal"} =>
           looper.req \in HandleRequests
    BY <1>t, LooperFields
  <2>2. looper.at = "run" /\ looper.ev.type = "handle" =>
           looper.ev.req \in HandleRequests
    BY <1>t, LooperFields, EventFields
  <2>3. \A k \in DOMAIN mQueuedEvents :
           mQueuedEvents[k].type = "handle" =>
              mQueuedEvents[k].req \in HandleRequests
    BY <1>t, EventFields DEF TypeOK
  <2>4. QED
    BY <1>t, <2>1, <2>2, <2>3 DEF FrameIsAlive, Frames, Unanswered
<1>7. ReturnIsWritten
  BY <1>t DEF ReturnIsWritten, Frames
<1>8. QED
  BY <1>5, <1>6, <1>7

LEMMA Ownership == Spec => []IInv
<1>1. Init => IInv
  BY InitTypes, InitOwned DEF IInv
<1>2. IInv /\ [Next]_vars => IInv'
  BY NextTypes, NextEvents, NextTokens, NextFrames, NextOwned DEF IInv
<1>3. QED
  BY <1>1, <1>2, PTL DEF Spec

(* No close(2) of the service or of a client hits a descriptor that was    *)
(* closed before or opened for another request, for any number of          *)
(* requests and descriptors (timeoutpoker.cpp:38, 242, 277-278).           *)
THEOREM EveryCloseIsOwned == Spec => []ClaimsHold
BY Ownership, OwnedClaims, PTL

(* The Looper thread writes into a stack frame of createPmQosHandle, or    *)
(* opens its barrier, only while that call waits (timeoutpoker.h:151-158). *)
THEOREM FramesStayAlive == Spec => []FrameIsAlive
BY Ownership, OwnedClaims, PTL

(* createPmQosHandle returns a value that was written, on every path       *)
(* (timeoutpoker.cpp:98-107).                                              *)
THEOREM EveryReturnIsWritten == Spec => []ReturnIsWritten
BY Ownership, OwnedClaims, PTL
-----------------------------------------------------------------------------
(* Leaks.  NothingLeaks, holder by holder: with addFd working, a step      *)
(* either leaves a number with somebody who will close it or closes it.    *)

QueueHolds(f) ==
    \E k \in DOMAIN mQueuedEvents :
        mQueuedEvents[k].type = "timeout" /\ mQueuedEvents[k].fd = f

LooperHolds(f) ==
    \/ /\ looper.at = "run" /\ looper.ev.type = "timeout"
       /\ looper.ev.fd = f
    \/ /\ looper.at \in {"arm", "pipe", "closeFd", "listen", "closeHandle"}
       /\ looper.fd = f
    \/ looper.at = "listen" /\ f \in {looper.server, looper.client}
    \/ looper.at = "closeHandle" /\ looper.handle = f
    \/ looper.at = "reply" /\ looper.val # Failed /\ looper.val = f

WatchHolds(f) == \E w \in mRequests : f \in {w.handle, w.fd}

ClientHolds(f) ==
    \/ \E r \in HandleRequests :
          call[r] \in {"waiting", "returned"} /\ ret[r] >= 0 /\ ret[r] = f
    \/ \E r \in DirectRequests :
          call[r] = "returned" /\ ret[r] >= 0 /\ ret[r] = f

Holds(f) ==
    QueueHolds(f) \/ LooperHolds(f) \/ WatchHolds(f) \/ ClientHolds(f)

AllHeld == \A f \in Fd : files[f] # NoFile => Holds(f)

LEMMA HeldIsClaimed == AllHeld => NothingLeaks
<1> SUFFICES ASSUME AllHeld, NEW f \in Fd, files[f] # NoFile
             PROVE  \E c \in Claims : c.fd = f
  BY DEF NothingLeaks
<1>1. CASE QueueHolds(f)
  <2>1. PICK k \in DOMAIN mQueuedEvents :
           mQueuedEvents[k].type = "timeout" /\ mQueuedEvents[k].fd = f
    BY <1>1 DEF QueueHolds
  <2>2. Claim(f, QosNode(mQueuedEvents[k].req)) \in QueuedClaims
    BY <2>1 DEF QueuedClaims
  <2>3. QED
    BY <2>2 DEF Claims, Claim
<1>2. CASE LooperHolds(f)
  <2>1. \E c \in LooperClaims : c.fd = f
    BY <1>2 DEF LooperHolds, LooperClaims, Claim
  <2>2. QED
    BY <2>1 DEF Claims
<1>3. CASE WatchHolds(f)
  <2>1. PICK w \in mRequests : f \in {w.handle, w.fd}
    BY <1>3 DEF WatchHolds
  <2>2. /\ Claim(w.handle, WriteEnd(w.req)) \in WatchClaims
        /\ Claim(w.fd, QosNode(w.req)) \in WatchClaims
    BY DEF WatchClaims
  <2>3. QED
    BY <2>1, <2>2 DEF Claims, Claim
<1>4. CASE ClientHolds(f)
  <2>1. CASE \E r \in HandleRequests :
                call[r] \in {"waiting", "returned"} /\ ret[r] >= 0 /\ ret[r] = f
    <3>1. \E r : Claim(f, ReadEnd(r)) \in ClientClaims
      BY <2>1 DEF ClientClaims
    <3>2. QED
      BY <3>1 DEF Claims, Claim
  <2>2. CASE \E r \in DirectRequests :
                call[r] = "returned" /\ ret[r] >= 0 /\ ret[r] = f
    <3>1. \E r : Claim(f, QosNode(r)) \in ClientClaims
      BY <2>2 DEF ClientClaims
    <3>2. QED
      BY <3>1 DEF Claims, Claim
  <2>3. QED
    BY <1>4, <2>1, <2>2 DEF ClientHolds
<1>5. QED
  BY <1>1, <1>2, <1>3, <1>4 DEF AllHeld, Holds

(* What a step must do for every open number to stay held.                 *)
LEMMA HeldKept ==
  ASSUME AllHeld,
         \A f \in Fd : files'[f] # NoFile /\ files[f] = NoFile => Holds(f)',
         \A f \in Fd : files'[f] # NoFile /\ Holds(f) => Holds(f)'
  PROVE  AllHeld'
BY DEF AllHeld

(* Sending an event takes nothing away from the queue.                     *)
LEMMA SendHolds ==
  ASSUME IInv, NEW delay \in Nat, NEW e \in Events,
         SendEventDelayed(delay, e)
  PROVE  /\ \A f : QueueHolds(f) => QueueHolds(f)'
         /\ \A f : e.type = "timeout" /\ e.fd = f => QueueHolds(f)'
<1>1. /\ DOMAIN mQueuedEvents' = DOMAIN mQueuedEvents \cup {mKey}
      /\ mQueuedEvents'[mKey] = e
      /\ \A k \in DOMAIN mQueuedEvents : mQueuedEvents'[k] = mQueuedEvents[k]
  BY SendAdds DEF IInv
<1>2. QED
  BY <1>1 DEF QueueHolds

LEMMA NextHeld == ~ListenMayFail /\ IInv /\ AllHeld /\ [Next]_vars => AllHeld'
<1> SUFFICES ASSUME ~ListenMayFail, IInv, AllHeld, [Next]_vars PROVE AllHeld'
  OBVIOUS
<1> USE DEF Requests
<1>t. TypeOK /\ EventForEveryMessage /\ Tokens /\ Frames /\ Owned
  BY DEF IInv
<1>c. /\ call \in [Requests -> {"idle", "waiting", "returned", "closed"}]
      /\ files \in [Fd -> Files \cup {NoFile}]
      /\ ret \in [HandleRequests \cup DirectRequests
                      -> Fd \cup {Failed, Garbage}]
  BY <1>t DEF TypeOK
<1>1. ASSUME NEW r \in TimedRequests, RequestPmQosTimed(r)
      PROVE  AllHeld'
  <2>1. TimedEvent(r) \in Events
    BY DEF TimedEvent, Events
  <2>2. \A f : QueueHolds(f) => QueueHolds(f)'
    BY <1>1, <2>1, SendHolds DEF RequestPmQosTimed
  <2>3. /\ UNCHANGED <<mRequests, looper, files, ret>>
        /\ \A s \in HandleRequests \cup DirectRequests : call'[s] = call[s]
    BY <1>1, <1>c, RequestsAssumption DEF RequestPmQosTimed
  <2>4. \A f : Holds(f) => Holds(f)'
    BY <2>2, <2>3 DEF Holds, LooperHolds, WatchHolds, ClientHolds
  <2>5. QED
    BY <2>3, <2>4, HeldKept
<1>2. ASSUME NEW r \in HandleRequests, CreatePmQosHandle(r)
      PROVE  AllHeld'
  <2>1. HandleEvent(r) \in Events
    BY DEF HandleEvent, Events
  <2>2. \A f : QueueHolds(f) => QueueHolds(f)'
    BY <1>2, <2>1, SendHolds DEF CreatePmQosHandle
  <2>3. /\ UNCHANGED <<mRequests, looper, files, ret>> /\ call[r] = "idle"
        /\ \A s \in (HandleRequests \cup DirectRequests) \ {r} :
              call'[s] = call[s]
    BY <1>2, <1>c DEF CreatePmQosHandle
  <2>4. \A f : Holds(f) => Holds(f)'
    BY <2>2, <2>3 DEF Holds, LooperHolds, WatchHolds, ClientHolds
  <2>5. QED
    BY <2>3, <2>4, HeldKept
<1>3. ASSUME NEW r \in HandleRequests, WaitReturns(r)
      PROVE  AllHeld'
  <2>1. /\ UNCHANGED <<mQueuedEvents, mRequests, looper, files, ret>>
        /\ call'[r] = "returned"
        /\ \A s \in (HandleRequests \cup DirectRequests) \ {r} :
              call'[s] = call[s]
    BY <1>3, <1>c DEF WaitReturns, queue
  <2>2. \A f : Holds(f) => Holds(f)'
    BY <2>1 DEF Holds, QueueHolds, LooperHolds, WatchHolds, ClientHolds
  <2>3. QED
    BY <2>1, <2>2, HeldKept
<1>4. ASSUME NEW r \in DirectRequests, RequestPmQos(r)
      PROVE  AllHeld'
  <2>1. /\ UNCHANGED <<mQueuedEvents, mRequests, looper>>
        /\ call[r] = "idle" /\ call'[r] = "returned"
        /\ \A s \in HandleRequests \cup DirectRequests :
              s # r => call'[s] = call[s] /\ ret'[s] = ret[s]
    BY <1>4, <1>c DEF RequestPmQos, queue
  <2>2. \A f \in Fd : files'[f] # files[f] => ret'[r] = f
    BY <1>4, <1>c DEF RequestPmQos
  <2>3. r \notin HandleRequests
    BY RequestsAssumption
  <2>4. \A f : Holds(f) => Holds(f)'
    BY <2>1, <2>3 DEF Holds, QueueHolds, LooperHolds, WatchHolds, ClientHolds
  <2>5. \A f \in Fd : files'[f] # NoFile /\ files[f] = NoFile => Holds(f)'
    BY <2>1, <2>2 DEF Holds, ClientHolds, Fd
  <2>6. QED
    BY <2>4, <2>5, HeldKept
<1>5. ASSUME NEW r \in HandleRequests \cup DirectRequests, ClientClose(r)
      PROVE  AllHeld'
  <2>1. /\ UNCHANGED <<mQueuedEvents, mRequests, looper, ret>>
        /\ files' = [files EXCEPT ![ret[r]] = NoFile]
        /\ \A s \in HandleRequests \cup DirectRequests :
              s # r => call'[s] = call[s]
    BY <1>5, <1>c DEF ClientClose, queue
  <2>2. \A f \in Fd : files'[f] # NoFile => files'[f] = files[f] /\ f # ret[r]
    BY <1>c, <2>1
  <2>3. \A f : f # ret[r] /\ Holds(f) => Holds(f)'
    BY <2>1 DEF Holds, QueueHolds, LooperHolds, WatchHolds, ClientHolds
  <2>4. QED
    BY <2>2, <2>3, HeldKept
<1>6. CASE Receive
  <2>1. UNCHANGED <<mQueuedEvents, mRequests, files, call, ret>>
    BY <1>6 DEF Receive
  <2>2. \A f : ~LooperHolds(f)
    BY <1>6 DEF Receive, Poll, LooperHolds
  <2>3. \A f : Holds(f) => Holds(f)'
    BY <2>1, <2>2 DEF Holds, QueueHolds, WatchHolds, ClientHolds
  <2>4. QED
    BY <2>1, <2>3, HeldKept
<1>7. CASE RemoveEventByKey
  <2>1. /\ looper.at = "remove"
        /\ looper' = [at |-> "run", ev |-> mQueuedEvents[looper.key]]
        /\ DOMAIN mQueuedEvents' = DOMAIN mQueuedEvents \ {looper.key}
        /\ \A k \in DOMAIN mQueuedEvents' :
              mQueuedEvents'[k] = mQueuedEvents[k]
        /\ UNCHANGED <<files, mRequests, call, ret>>
    BY <1>7 DEF RemoveEventByKey, Removed, AtRun
  <2>2. \A f : QueueHolds(f) => QueueHolds(f)' \/ LooperHolds(f)'
    BY <2>1 DEF QueueHolds, LooperHolds
  <2>3. \A f : ~LooperHolds(f)
    BY <2>1 DEF LooperHolds
  <2>4. \A f : Holds(f) => Holds(f)'
    BY <2>1, <2>2, <2>3 DEF Holds, WatchHolds, ClientHolds
  <2>5. QED
    BY <2>1, <2>4, HeldKept
<1>8. CASE OpenPmQosNode
  <2>1. /\ UNCHANGED <<mQueuedEvents, mRequests, call, ret>>
        /\ looper.at = "run" /\ looper.ev.type # "timeout"
    BY <1>8 DEF OpenPmQosNode, queue
  <2>2. \A f \in Fd : files'[f] # files[f] => LooperHolds(f)'
    <3>1. ASSUME NEW g \in Fd,
                 files' = [files EXCEPT ![g] = QosNode(looper.ev.req)],
                 looper' = AfterOpen(looper.ev, g)
          PROVE  \A f \in Fd : files'[f] # files[f] => LooperHolds(f)'
      <4>1. looper'.at \in {"arm", "pipe"} /\ looper'.fd = g
        BY <3>1 DEF AfterOpen, AtArm, AtPipe
      <4>2. \A f \in Fd : f # g => files'[f] = files[f]
        BY <1>c, <3>1
      <4>3. QED
        BY <4>1, <4>2 DEF LooperHolds
    <3>2. QED
      BY <1>8, <3>1 DEF OpenPmQosNode
  <2>3. \A f : ~LooperHolds(f)
    BY <2>1 DEF LooperHolds
  <2>4. \A f : Holds(f) => Holds(f)'
    BY <2>1, <2>3 DEF Holds, QueueHolds, WatchHolds, ClientHolds
  <2>5. QED
    BY <2>2, <2>4, HeldKept DEF Holds
<1>9. CASE ArmTimeout
  <2>1. /\ looper.req \in TimedRequests /\ looper.fd \in Fd
        /\ looper.at = "arm" /\ looper'.at = "poll"
        /\ UNCHANGED <<files, mRequests, call, ret>>
    BY <1>t, <1>9, LooperFields DEF ArmTimeout, Poll
  <2> DEFINE e == TimeoutEvent(looper.req, looper.fd)
  <2>2. /\ e \in Events /\ e.type = "timeout" /\ e.fd = looper.fd
        /\ Timeout[looper.req] \in Nat
        /\ SendEventDelayed(Timeout[looper.req], e)
    BY <1>9, <2>1, TimeoutAssumption DEF ArmTimeout, TimeoutEvent, Events
  <2> HIDE DEF e
  <2>3. \A f : QueueHolds(f) \/ f = looper.fd => QueueHolds(f)'
    BY <2>2, SendHolds
  <2>4. \A f : LooperHolds(f) => f = looper.fd
    BY <2>1 DEF LooperHolds
  <2>5. \A f : Holds(f) => Holds(f)'
    BY <2>1, <2>3, <2>4 DEF Holds, WatchHolds, ClientHolds
  <2>6. QED
    BY <2>1, <2>5, HeldKept
<1>10. CASE TimeoutRequest
  <2>1. /\ looper.at = "run" /\ looper.ev.type = "timeout"
        /\ files' = [files EXCEPT ![looper.ev.fd] = NoFile]
        /\ UNCHANGED <<mQueuedEvents, mRequests, call, ret>>
    BY <1>10 DEF TimeoutRequest, queue
  <2>2. \A f \in Fd : files'[f] # NoFile =>
           files'[f] = files[f] /\ ~LooperHolds(f)
    BY <1>c, <2>1 DEF LooperHolds
  <2>3. \A f : ~LooperHolds(f) /\ Holds(f) => Holds(f)'
    BY <2>1 DEF Holds, QueueHolds, WatchHolds, ClientHolds
  <2>4. QED
    BY <2>2, <2>3, HeldKept
<1>11. CASE MakePipe
  <2>1. /\ looper.at = "pipe" /\ looper.fd \in Fd
        /\ UNCHANGED <<mQueuedEvents, mRequests, call, ret>>
    BY <1>t, <1>11, LooperFields DEF MakePipe, queue
  <2>2. \A f : LooperHolds(f) => f = looper.fd
    BY <2>1 DEF LooperHolds
  <2>3. \A f : ~LooperHolds(f) /\ Holds(f) => Holds(f)'
    BY <2>1 DEF Holds, QueueHolds, WatchHolds, ClientHolds
  <2>4. ASSUME NEW c \in Fd, NEW s \in Fd,
               files' = [files EXCEPT ![c] = ReadEnd(looper.req),
                                      ![s] = WriteEnd(looper.req)],
               looper' = AtListen(looper.req, looper.fd, s, c)
        PROVE  AllHeld'
    <3>1. \A f \in Fd : f # c /\ f # s => files'[f] = files[f]
      BY <1>c, <2>4
    <3>2. \A f \in {c, s, looper.fd} : LooperHolds(f)'
      BY <2>4 DEF AtListen, LooperHolds
    <3>3. \A f \in Fd : files'[f] # NoFile /\ files[f] = NoFile => Holds(f)'
      BY <3>1, <3>2 DEF Holds
    <3>4. \A f : Holds(f) => Holds(f)'
      BY <2>2, <2>3, <3>2 DEF Holds
    <3>5. QED
      BY <3>3, <3>4, HeldKept
  <2>5. ASSUME files' = [files EXCEPT ![looper.fd] = NoFile]
        PROVE  AllHeld'
    <3>1. \A f \in Fd : files'[f] # NoFile =>
             files'[f] = files[f] /\ ~LooperHolds(f)
      BY <1>c, <2>2, <2>5
    <3>2. QED
      BY <2>3, <3>1, HeldKept
  <2>6. QED
    BY <1>11, <2>4, <2>5 DEF MakePipe
<1>12. CASE ListenForHandleToCloseFd
  <2> DEFINE w == [handle |-> looper.server, fd |-> looper.fd,
                   req |-> looper.req]
  <2>1. /\ looper.at = "listen" /\ looper' = AtReply(looper.req, looper.client)
        /\ looper.req \in HandleRequests
        /\ looper.client \in Fd /\ looper.server \in Fd
        /\ mRequests' = {v \in mRequests : v.handle # looper.server} \cup {w}
        /\ UNCHANGED <<files, mQueuedEvents, call, ret>>
    BY <1>t, <1>12, LooperFields DEF ListenForHandleToCloseFd, queue
  <2>2. \A v \in mRequests : v.handle # looper.server
    <3>1. \A v \in mRequests : v.req # looper.req
      BY <1>t, <2>1 DEF Tokens, LooperOn
    <3>2. files[looper.server] = WriteEnd(looper.req)
      BY <1>t, <2>1 DEF Owned, LooperOwns, Is
    <3>3. QED
      <4> SUFFICES ASSUME NEW v \in mRequests, v.handle = looper.server
                   PROVE  FALSE
        OBVIOUS
      <4>1. files[looper.server] = WriteEnd(v.req)
        BY <1>t DEF Owned, WatchesOwn, Is
      <4>2. v.req = looper.req
        BY <3>2, <4>1 DEF WriteEnd
      <4>3. QED
        BY <3>1, <4>2
  <2>3. \A f : WatchHolds(f) => WatchHolds(f)'
    BY <2>1, <2>2 DEF WatchHolds
  <2>4. \A f : f \in {looper.server, looper.fd} => WatchHolds(f)'
    <3>1. w \in mRequests' /\ w.handle = looper.server /\ w.fd = looper.fd
      BY <2>1
    <3> HIDE DEF w
    <3>2. QED
      BY <3>1 DEF WatchHolds
  <2>5. \A f : f = looper.client => LooperHolds(f)'
    BY <2>1 DEF AtReply, LooperHolds, Fd, Failed
  <2>6. \A f : LooperHolds(f) => f \in {looper.fd, looper.server, looper.client}
    BY <2>1 DEF LooperHolds
  <2>7. \A f : Holds(f) => Holds(f)'
    <3>1. \A f : QueueHolds(f) \/ ClientHolds(f) => Holds(f)'
      BY <2>1 DEF Holds, QueueHolds, ClientHolds
    <3>2. \A f : LooperHolds(f) => WatchHolds(f)' \/ LooperHolds(f)'
      BY <2>4, <2>5, <2>6
    <3>3. QED
      BY <2>3, <3>1, <3>2 DEF Holds
  <2>8. QED
    BY <2>1, <2>7, HeldKept
<1>13. CASE Reply
  <2>1. /\ looper.at = "reply" /\ looper.req \in HandleRequests
        /\ looper.val \in Fd \cup {Failed}
        /\ ret' = [ret EXCEPT ![looper.req] = looper.val]
        /\ UNCHANGED <<files, mQueuedEvents, mRequests, call>>
    BY <1>t, <1>13, LooperFields DEF Reply, queue
  <2>2. call[looper.req] = "waiting" /\ ret[looper.req] = Garbage
    BY <1>t, <2>1 DEF Frames, Unanswered
  <2>3. /\ ret'[looper.req] = looper.val
        /\ \A s \in HandleRequests \cup DirectRequests :
              s # looper.req => ret'[s] = ret[s]
    BY <1>c, <2>1
  <2>4. \A f : LooperHolds(f) => ClientHolds(f)'
    BY <2>1, <2>2, <2>3 DEF LooperHolds, ClientHolds, Fd
  <2>5. \A f : ClientHolds(f) => ClientHolds(f)'
    BY <2>1, <2>2, <2>3 DEF ClientHolds, Garbage
  <2>6. \A f : Holds(f) => Holds(f)'
    BY <2>1, <2>4, <2>5 DEF Holds, QueueHolds, WatchHolds
  <2>7. QED
    BY <2>1, <2>6, HeldKept
<1>14. CASE Signal
  <2>1. /\ looper.at = "signal"
        /\ UNCHANGED <<files, mQueuedEvents, mRequests, call, ret>>
    BY <1>14 DEF Signal, queue
  <2>2. \A f : Holds(f) => Holds(f)'
    BY <2>1 DEF Holds, QueueHolds, LooperHolds, WatchHolds, ClientHolds
  <2>3. QED
    BY <2>1, <2>2, HeldKept
<1>15. CASE PipeCloseCb
  <2>1. PICK w \in mRequests : /\ mRequests' = mRequests \ {w}
                               /\ looper' = AtCloseHandle(w)
    BY <1>15 DEF PipeCloseCb
  <2>2. /\ looper.at = "poll"
        /\ UNCHANGED <<files, mQueuedEvents, call, ret>>
    BY <1>15 DEF PipeCloseCb, queue, Poll
  <2>3. \A f : WatchHolds(f) => WatchHolds(f)' \/ LooperHolds(f)'
    BY <2>1 DEF WatchHolds, LooperHolds, AtCloseHandle
  <2>4. \A f : Holds(f) => Holds(f)'
    BY <2>2, <2>3 DEF Holds, QueueHolds, LooperHolds, ClientHolds
  <2>5. QED
    BY <2>2, <2>4, HeldKept
<1>16. CASE CloseHandle
  <2>1. /\ looper.at = "closeHandle"
        /\ files' = [files EXCEPT ![looper.handle] = NoFile]
        /\ looper' = AtCloseFd(looper.req, looper.fd)
        /\ UNCHANGED <<mQueuedEvents, mRequests, call, ret>>
    BY <1>16 DEF CloseHandle, queue
  <2>2. \A f \in Fd : files'[f] # NoFile =>
           files'[f] = files[f] /\ f # looper.handle
    BY <1>c, <2>1
  <2>3. \A f : f # looper.handle /\ LooperHolds(f) => LooperHolds(f)'
    BY <2>1 DEF LooperHolds, AtCloseFd
  <2>4. \A f : f # looper.handle /\ Holds(f) => Holds(f)'
    BY <2>1, <2>3 DEF Holds, QueueHolds, WatchHolds, ClientHolds
  <2>5. QED
    BY <2>2, <2>4, HeldKept
<1>17. CASE CloseFd
  <2>1. /\ looper.at = "closeFd"
        /\ files' = [files EXCEPT ![looper.fd] = NoFile]
        /\ UNCHANGED <<mQueuedEvents, mRequests, call, ret>>
    BY <1>17 DEF CloseFd, queue
  <2>2. \A f \in Fd : files'[f] # NoFile =>
           files'[f] = files[f] /\ ~LooperHolds(f)
    BY <1>c, <2>1 DEF LooperHolds
  <2>3. \A f : ~LooperHolds(f) /\ Holds(f) => Holds(f)'
    BY <2>1 DEF Holds, QueueHolds, WatchHolds, ClientHolds
  <2>4. QED
    BY <2>2, <2>3, HeldKept
<1>18. ASSUME UNCHANGED <<files, looper, mQueuedEvents, mRequests, call, ret>>
       PROVE  AllHeld'
  BY <1>18 DEF AllHeld, Holds, QueueHolds, LooperHolds, WatchHolds, ClientHolds
<1>19. CASE Tick
  BY <1>18, <1>19 DEF Tick
<1>20. CASE UNCHANGED vars
  BY <1>18, <1>20 DEF vars, queue
<1>21. QED
  BY <1>1, <1>2, <1>3, <1>4, <1>5, <1>6, <1>7, <1>8, <1>9, <1>10, <1>11,
     <1>12, <1>13, <1>14, <1>15, <1>16, <1>17, <1>19, <1>20
     DEF Next, Callers, LooperThread

(* As long as addFd does not fail, every open descriptor has somebody left *)
(* who will close it (timeoutpoker.cpp:32-51, 217-243, 270-283).           *)
THEOREM NoDescriptorLeaks == ~ListenMayFail /\ Spec => []NothingLeaks
<1> DEFINE Inv == IInv /\ AllHeld
<1>1. Init => AllHeld
  BY DEF Init, AllHeld
<1>2. ASSUME ~ListenMayFail PROVE Inv /\ [Next]_vars => Inv'
  BY <1>2, NextTypes, NextEvents, NextTokens, NextFrames, NextOwned, NextHeld
     DEF IInv
<1>3. Init => IInv
  BY InitTypes, InitOwned DEF IInv
<1>4. Inv => NothingLeaks
  BY HeldIsClaimed
<1>5. CASE ~ListenMayFail
  <2> HIDE DEF Inv
  <2>1. Inv /\ [Next]_vars => Inv'
    BY <1>2, <1>5
  <2>2. Init => Inv
    BY <1>1, <1>3 DEF Inv
  <2>3. QED
    BY <1>4, <2>1, <2>2, PTL DEF Spec
<1>6. QED
  BY <1>5
-----------------------------------------------------------------------------
(* Watched handles.  With addFd working, the pipe of a handle is watched   *)
(* before its read end is handed out, and as long as somebody has the read *)
(* end the write end does not hang up.                                     *)

HasHandle(r) == call[r] \in {"waiting", "returned"} /\ ret[r] >= 0

Watched(r) == \E w \in mRequests : w.req = r

AllWatched ==
    /\ looper.at = "reply" /\ looper.val # Failed => Watched(looper.req)
    /\ \A r \in HandleRequests : HasHandle(r) => Watched(r)

(* A write end whose read end is open does not hang up.                    *)
LEMMA OpenIsQuiet ==
  ASSUME IInv, NEW r \in HandleRequests, NEW c \in Fd, Is(c, ReadEnd(r)),
         NEW w \in mRequests, w.req = r
  PROVE  ~HungUp(w.handle)
<1>1. files[w.handle] = WriteEnd(r)
  BY DEF IInv, Owned, WatchesOwn, Is
<1>2. \A q \in HandleRequests : WriteEnd(q) = WriteEnd(r) => q = r
  BY FileNames
<1>3. QED
  BY <1>1, <1>2 DEF HungUp, Is

LEMMA NextWatched ==
  ~ListenMayFail /\ IInv /\ AllWatched /\ [Next]_vars => AllWatched'
<1> SUFFICES ASSUME ~ListenMayFail, IInv, AllWatched, [Next]_vars
             PROVE  AllWatched'
  OBVIOUS
<1>t. TypeOK /\ EventForEveryMessage /\ Tokens /\ Frames /\ Owned
  BY DEF IInv
<1>c. /\ call \in [Requests -> {"idle", "waiting", "returned", "closed"}]
      /\ ret \in [HandleRequests \cup DirectRequests
                      -> Fd \cup {Failed, Garbage}]
  BY <1>t DEF TypeOK
<1>k. ASSUME UNCHANGED <<looper, mRequests>>,
             \A h \in HandleRequests : HasHandle(h)' => HasHandle(h)
      PROVE  AllWatched'
  BY <1>k DEF AllWatched, Watched
<1>l. ASSUME UNCHANGED <<mRequests, call, ret>>,
             looper'.at = "reply" => looper'.val = Failed
      PROVE  AllWatched'
  BY <1>l DEF AllWatched, Watched, HasHandle
<1>1. ASSUME NEW r \in TimedRequests, RequestPmQosTimed(r)
      PROVE  AllWatched'
  <2>1. /\ call' = [call EXCEPT ![r] = "returned"]
        /\ UNCHANGED <<looper, mRequests, ret>>
    BY <1>1 DEF RequestPmQosTimed
  <2>2. \A h \in HandleRequests : call'[h] = call[h]
    BY <1>c, <2>1, RequestsAssumption DEF Requests
  <2>3. QED
    BY <1>k, <2>1, <2>2 DEF HasHandle
<1>2. ASSUME NEW r \in HandleRequests, CreatePmQosHandle(r)
      PROVE  AllWatched'
  <2>1. /\ call[r] = "idle" /\ call' = [call EXCEPT ![r] = "waiting"]
        /\ UNCHANGED <<looper, mRequests, ret>>
    BY <1>2 DEF CreatePmQosHandle
  <2>2. \A h \in HandleRequests \ {r} : call'[h] = call[h]
    BY <1>c, <2>1 DEF Requests
  <2>3. ~(ret'[r] >= 0)
    BY <1>t, <2>1 DEF Frames, Garbage
  <2>4. QED
    BY <1>k, <2>1, <2>2, <2>3 DEF HasHandle
<1>3. ASSUME NEW r \in HandleRequests, WaitReturns(r)
      PROVE  AllWatched'
  <2>1. /\ call[r] = "waiting" /\ call' = [call EXCEPT ![r] = "returned"]
        /\ UNCHANGED <<looper, mRequests, ret>>
    BY <1>3 DEF WaitReturns
  <2>2. \A h \in HandleRequests \ {r} : call'[h] = call[h]
    BY <1>c, <2>1 DEF Requests
  <2>3. QED
    BY <1>k, <2>1, <2>2 DEF HasHandle
<1>4. ASSUME NEW r \in DirectRequests, RequestPmQos(r)
      PROVE  AllWatched'
  <2>1. /\ call' = [call EXCEPT ![r] = "returned"]
        /\ \E v : ret' = [ret EXCEPT ![r] = v]
        /\ UNCHANGED <<looper, mRequests>>
    BY <1>4 DEF RequestPmQos
  <2>2. \A h \in HandleRequests : call'[h] = call[h] /\ ret'[h] = ret[h]
    BY <1>c, <2>1, RequestsAssumption DEF Requests
  <2>3. QED
    BY <1>k, <2>1, <2>2 DEF HasHandle
<1>5. ASSUME NEW r \in HandleRequests \cup DirectRequests, ClientClose(r)
      PROVE  AllWatched'
  <2>1. /\ call' = [call EXCEPT ![r] = "closed"]
        /\ UNCHANGED <<looper, mRequests, ret>>
    BY <1>5 DEF ClientClose
  <2>2. \A h \in HandleRequests : call'[h] \in {call[h], "closed"}
    BY <1>c, <2>1 DEF Requests
  <2>3. QED
    BY <1>k, <2>1, <2>2 DEF HasHandle
<1>6. CASE Receive \/ RemoveEventByKey \/ ArmTimeout \/ TimeoutRequest
           \/ Signal \/ CloseHandle \/ CloseFd
  <2>1. UNCHANGED <<mRequests, call, ret>> /\ looper'.at # "reply"
    BY <1>6 DEF Receive, RemoveEventByKey, ArmTimeout, TimeoutRequest, Signal,
                CloseHandle, CloseFd, AtRemove, AtRun, AtCloseFd, Poll
  <2>2. QED
    BY <1>l, <2>1
<1>7. CASE OpenPmQosNode \/ MakePipe
  <2>1. UNCHANGED <<mRequests, call, ret>>
        /\ (looper'.at = "reply" => looper'.val = Failed)
    BY <1>7 DEF OpenPmQosNode, MakePipe, AfterOpen, AfterFailedOpen, Poll,
                AtArm, AtPipe, AtListen, AtReply
  <2>2. QED
    BY <1>l, <2>1
<1>8. CASE ListenForHandleToCloseFd
  <2>1. looper.at = "listen" /\ looper.server \in Fd /\ looper.req \in HandleRequests
    BY <1>t, <1>8, LooperFields DEF ListenForHandleToCloseFd
  <2> DEFINE new == [handle |-> looper.server, fd |-> looper.fd,
                     req |-> looper.req]
  <2>2. /\ UNCHANGED <<call, ret>>
        /\ looper'.req = looper.req
        /\ mRequests' = {w \in mRequests : w.handle # looper.server} \cup {new}
    BY <1>8 DEF ListenForHandleToCloseFd, AtReply
  <2>3. Watched(looper.req)'
    <3>1. new \in mRequests' /\ new.req = looper'.req
      BY <2>2
    <3>2. QED
      BY <3>1 DEF Watched
  <2>4. ASSUME NEW w \in mRequests, w.handle = looper.server
        PROVE  w.req = looper.req
    <3>1. files[w.handle] = WriteEnd(w.req)
      BY <1>t DEF Owned, WatchesOwn, Is
    <3>2. files[looper.server] = WriteEnd(looper.req)
      BY <1>t, <2>1 DEF Owned, LooperOwns, Is
    <3>3. WriteEnd(w.req) = WriteEnd(looper.req)
      BY <2>4, <3>1, <3>2
    <3>4. QED
      BY <3>3, FileNames
  <2>5. ASSUME NEW r \in HandleRequests, HasHandle(r) PROVE Watched(r)'
    <3>1. PICK w \in mRequests : w.req = r
      BY <2>5 DEF AllWatched, Watched
    <3>2. QED
      BY <2>2, <2>3, <2>4, <3>1 DEF Watched
  <2>6. QED
    BY <2>2, <2>3, <2>5 DEF AllWatched, HasHandle
<1>9. CASE Reply
  <2>1. /\ looper.at = "reply" /\ looper.req \in HandleRequests
        /\ looper.val \in Fd \cup {Failed}
    BY <1>t, <1>9, LooperFields DEF Reply
  <2>2. /\ ret' = [ret EXCEPT ![looper.req] = looper.val]
        /\ looper'.at = "signal"
        /\ UNCHANGED <<mRequests, call>>
    BY <1>9 DEF Reply, AtSignal
  <2>3. /\ ret'[looper.req] = looper.val
        /\ \A h \in HandleRequests \ {looper.req} : ret'[h] = ret[h]
    BY <1>c, <2>1, <2>2
  <2>4. ~(Failed >= 0)
    BY DEF Failed
  <2>5. looper.val >= 0 => Watched(looper.req)
    BY <2>1, <2>4 DEF AllWatched
  <2>6. QED
    BY <2>1, <2>2, <2>3, <2>5 DEF AllWatched, HasHandle, Watched
<1>10. CASE PipeCloseCb
  <2>1. PICK w \in mRequests : /\ HungUp(w.handle)
                               /\ mRequests' = mRequests \ {w}
                               /\ looper'.at = "closeHandle"
                               /\ UNCHANGED <<call, ret>>
    BY <1>10 DEF PipeCloseCb, AtCloseHandle
  <2>2. ASSUME NEW r \in HandleRequests, HasHandle(r) PROVE Watched(r)'
    <3>1. PICK v \in mRequests : v.req = r
      BY <2>2 DEF AllWatched, Watched
    <3>2. Is(ret[r], ReadEnd(r))
      BY <1>t, <2>2 DEF Owned, ClientsOwn, HasHandle
    <3>3. ret[r] \in Fd
      <4>1. ret[r] \in Fd \cup {Failed, Garbage} /\ ret[r] >= 0
        BY <1>c, <2>2 DEF HasHandle
      <4>2. QED
        BY <4>1 DEF Failed, Garbage
    <3>4. v # w
      BY <2>1, <3>1, <3>2, <3>3, OpenIsQuiet
    <3>5. QED
      BY <2>1, <3>1, <3>4 DEF Watched
  <2>3. QED
    BY <2>1, <2>2 DEF AllWatched, HasHandle
<1>11. CASE Tick
  BY <1>11, <1>k DEF Tick, HasHandle
<1>12. CASE UNCHANGED vars
  BY <1>12, <1>k DEF vars, HasHandle
<1>13. QED
  BY <1>1, <1>2, <1>3, <1>4, <1>5, <1>6, <1>7, <1>8, <1>9, <1>10, <1>11,
     <1>12 DEF Next, Callers, LooperThread

(* As long as addFd works, every handle that was handed out has its pipe   *)
(* watched, and the node behind it open, until its owner closes it: then   *)
(* and only then the constraint goes away (timeoutpoker.cpp:25-46).        *)
THEOREM HandlesAreWatched == ~ListenMayFail /\ Spec => []HandleIsWatched
<1> DEFINE Inv == IInv /\ AllWatched
<1>1. Init => AllWatched
  BY DEF Init, AllWatched, HasHandle, Poll, Requests
<1>2. ASSUME ~ListenMayFail PROVE Inv /\ [Next]_vars => Inv'
  BY <1>2, NextTypes, NextEvents, NextTokens, NextFrames, NextOwned,
     NextWatched DEF IInv
<1>3. Init => IInv
  BY InitTypes, InitOwned DEF IInv
<1>4. Inv => HandleIsWatched
  BY DEF IInv, AllWatched, HasHandle, Watched, HandleIsWatched, Owned,
         WatchesOwn, Is
<1>5. CASE ~ListenMayFail
  <2> HIDE DEF Inv
  <2>1. Inv /\ [Next]_vars => Inv'
    BY <1>2, <1>5
  <2>2. Init => Inv
    BY <1>1, <1>3 DEF Inv
  <2>3. QED
    BY <1>4, <2>1, <2>2, PTL DEF Spec
<1>6. QED
  BY <1>5
-----------------------------------------------------------------------------
(* Waiting callers.  The converse of Frames: nobody waits in vain.  This   *)
(* is the safety half of HandleCallReturns.                                *)

Signalling(r) == looper.at = "signal" /\ looper.req = r

Answered ==
    \A r \in HandleRequests :
        call[r] = "waiting" =>
            Unanswered(r) \/ Signalling(r) \/ done[r] = "OPENED"

LEMMA NextAnswered == IInv /\ Answered /\ [Next]_vars => Answered'
<1> SUFFICES ASSUME IInv, Answered, [Next]_vars PROVE Answered'
  OBVIOUS
<1>t. TypeOK /\ EventForEveryMessage
  BY DEF IInv
<1>c. /\ call \in [Requests -> {"idle", "waiting", "returned", "closed"}]
      /\ done \in [HandleRequests -> {"CLOSED", "OPENED"}]
  BY <1>t DEF TypeOK
<1>k. ASSUME UNCHANGED <<call, done>>,
             \A h \in HandleRequests : Unanswered(h) \/ Signalling(h) =>
                                          Unanswered(h)' \/ Signalling(h)'
      PROVE  Answered'
  BY <1>k DEF Answered
<1>i. ASSUME UNCHANGED <<mQueuedEvents, looper, done>>,
             \A h \in HandleRequests :
                call'[h] = "waiting" => call[h] = "waiting"
      PROVE  Answered'
  BY <1>i DEF Answered, Unanswered, Signalling
<1>1. ASSUME NEW r \in TimedRequests, RequestPmQosTimed(r)
      PROVE  Answered'
  <2>1. TimedEvent(r) \in Events
    BY DEF TimedEvent, Events
  <2>2. \A k \in DOMAIN mQueuedEvents :
           k \in DOMAIN mQueuedEvents' /\ mQueuedEvents'[k] = mQueuedEvents[k]
    BY <1>t, <1>1, <2>1, SendAdds DEF RequestPmQosTimed
  <2>3. /\ call' = [call EXCEPT ![r] = "returned"]
        /\ UNCHANGED <<looper, done>>
    BY <1>1 DEF RequestPmQosTimed
  <2>4. \A h \in HandleRequests : call'[h] = call[h]
    BY <1>c, <2>3, RequestsAssumption DEF Requests
  <2>5. QED
    BY <2>2, <2>3, <2>4 DEF Answered, Unanswered, Signalling
<1>2. ASSUME NEW r \in HandleRequests, CreatePmQosHandle(r)
      PROVE  Answered'
  <2>1. /\ HandleEvent(r) \in Events /\ HandleEvent(r).type = "handle"
        /\ HandleEvent(r).req = r
    BY DEF HandleEvent, Events
  <2>2. /\ mKey \in DOMAIN mQueuedEvents'
        /\ mQueuedEvents'[mKey].type = "handle" /\ mQueuedEvents'[mKey].req = r
        /\ \A k \in DOMAIN mQueuedEvents :
              k \in DOMAIN mQueuedEvents' /\ mQueuedEvents'[k] = mQueuedEvents[k]
    BY <1>t, <1>2, <2>1, SendAdds DEF CreatePmQosHandle
  <2>3. call' = [call EXCEPT ![r] = "waiting"] /\ UNCHANGED <<looper, done>>
    BY <1>2 DEF CreatePmQosHandle
  <2>4. \A h \in HandleRequests \ {r} : call'[h] = call[h]
    BY <1>c, <2>3 DEF Requests
  <2>5. Unanswered(r)'
    BY <2>2 DEF Unanswered
  <2>6. QED
    BY <2>2, <2>3, <2>4, <2>5 DEF Answered, Unanswered, Signalling
<1>3. ASSUME NEW r \in HandleRequests, WaitReturns(r)
      PROVE  Answered'
  <2>1. /\ call' = [call EXCEPT ![r] = "returned"]
        /\ UNCHANGED <<mQueuedEvents, looper, done>>
    BY <1>3 DEF WaitReturns, queue
  <2>2. \A h \in HandleRequests : call'[h] \in {call[h], "returned"}
    BY <1>c, <2>1 DEF Requests
  <2>3. QED
    BY <1>i, <2>1, <2>2
<1>4. ASSUME NEW r \in DirectRequests, RequestPmQos(r)
      PROVE  Answered'
  <2>1. /\ call' = [call EXCEPT ![r] = "returned"]
        /\ UNCHANGED <<mQueuedEvents, looper, done>>
    BY <1>4 DEF RequestPmQos, queue
  <2>2. \A h \in HandleRequests : call'[h] \in {call[h], "returned"}
    BY <1>c, <2>1 DEF Requests
  <2>3. QED
    BY <1>i, <2>1, <2>2
<1>5. ASSUME NEW r \in HandleRequests \cup DirectRequests, ClientClose(r)
      PROVE  Answered'
  <2>1. /\ call' = [call EXCEPT ![r] = "closed"]
        /\ UNCHANGED <<mQueuedEvents, looper, done>>
    BY <1>5 DEF ClientClose, queue
  <2>2. \A h \in HandleRequests : call'[h] \in {call[h], "closed"}
    BY <1>c, <2>1 DEF Requests
  <2>3. QED
    BY <1>i, <2>1, <2>2
<1>6. CASE Receive \/ PipeCloseCb
  <2>1. UNCHANGED <<mQueuedEvents, call, done>> /\ looper.at = "poll"
    BY <1>6 DEF Receive, PipeCloseCb, Poll, queue
  <2>2. QED
    BY <1>k, <2>1 DEF Unanswered, Signalling
<1>7. CASE RemoveEventByKey
  <2>1. looper.at = "remove" /\ looper.key \in DOMAIN mQueuedEvents
    BY <1>t, <1>7 DEF RemoveEventByKey, EventForEveryMessage
  <2>2. /\ UNCHANGED <<call, done>>
        /\ looper'.at = "run" /\ looper'.ev = mQueuedEvents[looper.key]
        /\ \A k \in DOMAIN mQueuedEvents : k # looper.key =>
              /\ k \in DOMAIN mQueuedEvents'
              /\ mQueuedEvents'[k] = mQueuedEvents[k]
    BY <1>7 DEF RemoveEventByKey, Removed, AtRun
  <2>3. QED
    BY <1>k, <2>1, <2>2 DEF Unanswered, Signalling
<1>8. CASE OpenPmQosNode
  <2>1. /\ UNCHANGED <<mQueuedEvents, call, done>>
        /\ looper.at = "run"
        /\ looper.ev.type = "handle" =>
              looper'.at \in {"pipe", "reply"} /\ looper'.req = looper.ev.req
    BY <1>8 DEF OpenPmQosNode, AfterOpen, AfterFailedOpen, AtPipe, AtReply, queue
  <2>2. QED
    BY <1>k, <2>1 DEF Unanswered, Signalling
<1>9. CASE ArmTimeout
  <2>1. looper.req \in TimedRequests /\ looper.fd \in Fd
    BY <1>t, <1>9, LooperFields DEF ArmTimeout
  <2> DEFINE e == TimeoutEvent(looper.req, looper.fd)
  <2>2. e \in Events /\ Timeout[looper.req] \in Nat
    BY <2>1, TimeoutAssumption DEF TimeoutEvent, Events
  <2>3. \A k \in DOMAIN mQueuedEvents :
           k \in DOMAIN mQueuedEvents' /\ mQueuedEvents'[k] = mQueuedEvents[k]
    BY <1>t, <1>9, <2>2, SendAdds DEF ArmTimeout
  <2>4. UNCHANGED <<call, done>> /\ looper.at = "arm"
    BY <1>9 DEF ArmTimeout
  <2> HIDE DEF e
  <2>5. QED
    BY <1>k, <2>3, <2>4 DEF Unanswered, Signalling
<1>10. CASE TimeoutRequest \/ CloseHandle \/ CloseFd
  <2>1. /\ UNCHANGED <<mQueuedEvents, call, done>>
        /\ looper.at \in {"run", "closeHandle", "closeFd"}
        /\ looper.at = "run" => looper.ev.type = "timeout"
    BY <1>10 DEF TimeoutRequest, CloseHandle, CloseFd, queue
  <2>2. QED
    BY <1>k, <2>1 DEF Unanswered, Signalling
<1>11. CASE MakePipe \/ ListenForHandleToCloseFd \/ Reply
  <2>1. /\ UNCHANGED <<mQueuedEvents, call, done>>
        /\ looper.at \in {"pipe", "listen", "reply"}
        /\ looper'.at \in {"listen", "reply", "signal"}
        /\ looper'.req = looper.req
    BY <1>11 DEF MakePipe, ListenForHandleToCloseFd, Reply, AtListen, AtReply,
                 AtSignal, queue
  <2>2. QED
    BY <1>k, <2>1 DEF Unanswered, Signalling
<1>12. CASE Signal
  <2>1. looper.at = "signal" /\ looper.req \in HandleRequests
    BY <1>t, <1>12, LooperFields DEF Signal
  <2>2. /\ done' = [done EXCEPT ![looper.req] = "OPENED"]
        /\ UNCHANGED <<mQueuedEvents, call>>
    BY <1>12 DEF Signal, queue
  <2>3. /\ done'[looper.req] = "OPENED"
        /\ \A h \in HandleRequests \ {looper.req} : done'[h] = done[h]
    BY <1>c, <2>1, <2>2
  <2>4. QED
    BY <2>1, <2>2, <2>3 DEF Answered, Unanswered, Signalling
<1>13. CASE Tick
  BY <1>13, <1>i DEF Tick
<1>14. CASE UNCHANGED vars
  BY <1>14, <1>i DEF vars, queue
<1>15. QED
  BY <1>1, <1>2, <1>3, <1>4, <1>5, <1>6, <1>7, <1>8, <1>9, <1>10, <1>11,
     <1>12, <1>13, <1>14 DEF Next, Callers, LooperThread

(* Every call of createPmQosHandle that still waits has its event queued,  *)
(* or the Looper thread is on its way to open its barrier, or the barrier  *)
(* is open (timeoutpoker.cpp:98-107, timeoutpoker.h:151-158).              *)
THEOREM NobodyWaitsInVain == Spec => []Answered
<1>1. Init => Answered
  BY DEF Init, Answered, Requests
<1>2. IInv /\ Answered /\ [Next]_vars => Answered'
  BY NextAnswered
<1>3. QED
  BY <1>1, <1>2, Ownership, PTL DEF Spec
-----------------------------------------------------------------------------
(* The refinement of PmQosService.  Beyond the ownership of descriptors it *)
(* needs that a request has one node at most, and none while it is still   *)
(* to be granted (Nodes), that a handle has its constraint behind it from  *)
(* the reply on until its owner closes it (Backed), and that the Looper    *)
(* thread is only ever closing a node whose handle nobody has (Closing).   *)

Single ==
    \A r \in Requests : \A f, g \in Fd :
        files[f] = QosNode(r) /\ files[g] = QosNode(r) => f = g

Nodes ==
    /\ Single
    /\ \A r \in Requests : Held(r) => call[r] # "idle" /\ ~Pending(r)

Backed ==
    \A r \in HandleRequests :
        /\ looper.at = "reply" /\ looper.req = r /\ looper.val # Failed
              => Held(r)
        /\ HasHandle(r) => Held(r)

Closing ==
    looper.at \in {"closeHandle", "closeFd"} => ~HasHandle(looper.req)

Rest == Nodes /\ Backed /\ Closing
RInv == IInv /\ Rest

(* The mapped state of a request, case by case.                            *)
PhaseIs ==
    \A r \in Requests :
        phaseBar[r] = IF Held(r) THEN "active"
                      ELSE IF call[r] = "idle" THEN "idle"
                      ELSE IF Pending(r) THEN "asked" ELSE "over"

Arming(r) == looper.at = "arm" /\ looper.req = r

(* A message of r's timeout is d away from being due.                      *)
DueIn(r, d) ==
    \E j \in 1 .. Len(mMessages) :
        /\ mQueuedEvents[mMessages[j].what].type = "timeout"
        /\ mQueuedEvents[mMessages[j].what].req = r
        /\ mMessages[j].due = d

LeftIs ==
    \A r \in TimedRequests :
        /\ Arming(r) => leftBar[r] = Timeout[r]
        /\ ~Arming(r) => \A d : DueIn(r, d) => leftBar[r] = d
        /\ ~Arming(r) /\ (\A d : ~DueIn(r, d)) => leftBar[r] = 0

OwnerIs ==
    \A r \in HandleRequests \cup DirectRequests :
        ownerBar[r] = IF call[r] = "closed" THEN "dropped"
                      ELSE IF call[r] = "returned" /\ ret[r] >= 0 THEN "has"
                      ELSE "none"

LEMMA PhaseValues == PhaseIs
BY DEF PhaseIs, phaseBar

LEMMA OwnerValues == OwnerIs
BY DEF OwnerIs, ownerBar

(* The same in the next state.                                             *)
LEMMA NextValues == PhaseIs' /\ OwnerIs'
<1>1. PhaseIs'
  BY PhaseValues, PTL
<1>2. OwnerIs'
  BY OwnerValues, PTL
<1>3. QED
  BY <1>1, <1>2

(* Each timed request has one message at most, so that leftBar does not    *)
(* depend on a choice.                                                     *)
LEMMA LeftValues == IInv => LeftIs
<1> SUFFICES ASSUME IInv, NEW r \in TimedRequests
             PROVE  /\ Arming(r) => leftBar[r] = Timeout[r]
                    /\ ~Arming(r) => \A d : DueIn(r, d) => leftBar[r] = d
                    /\ ~Arming(r) /\ (\A d : ~DueIn(r, d))
                          => leftBar[r] = 0
  BY DEF LeftIs
<1> DEFINE T == TimeoutMessages(r)
           c == CHOOSE i \in T : TRUE
<1>1. leftBar[r] = IF looper.at = "arm" /\ looper.req = r THEN Timeout[r]
                   ELSE IF T # {} THEN mMessages[c].due ELSE 0
  BY DEF leftBar
<1>2. \A i \in T : /\ i \in 1 .. Len(mMessages)
                   /\ mMessages[i].what \in DOMAIN mQueuedEvents
                   /\ mQueuedEvents[mMessages[i].what].type = "timeout"
                   /\ mQueuedEvents[mMessages[i].what].req = r
  BY DEF TimeoutMessages
<1>3. \A i \in 1 .. Len(mMessages) :
         /\ mQueuedEvents[mMessages[i].what].type = "timeout"
         /\ mQueuedEvents[mMessages[i].what].req = r
         => i \in T
  BY DEF TimeoutMessages, IInv, EventForEveryMessage
<1> HIDE DEF T
<1>4. \A i, j \in T : i = j
  <2>1. \A k, l \in DOMAIN mQueuedEvents :
           mQueuedEvents[k].req = mQueuedEvents[l].req => k = l
    BY DEF IInv, Tokens
  <2>2. \A i, j \in 1 .. Len(mMessages) :
           i # j => mMessages[i].what # mMessages[j].what
    BY DEF IInv, EventForEveryMessage
  <2>3. \A i, j \in T : mMessages[i].what = mMessages[j].what
    BY <1>2, <2>1
  <2>4. QED
    BY <1>2, <2>2, <2>3
<1>5. T # {} => c \in T
  OBVIOUS
<1> HIDE DEF c
<1>6. ASSUME NEW d, DueIn(r, d) PROVE T # {} /\ mMessages[c].due = d
  <2>1. PICK j \in 1 .. Len(mMessages) :
               /\ mQueuedEvents[mMessages[j].what].type = "timeout"
               /\ mQueuedEvents[mMessages[j].what].req = r
               /\ mMessages[j].due = d
    BY <1>6 DEF DueIn
  <2>2. j \in T
    BY <1>3, <2>1
  <2>3. QED
    BY <1>4, <1>5, <2>1, <2>2
<1>7. ASSUME \A d : ~DueIn(r, d) PROVE T = {}
  BY <1>2, <1>7 DEF DueIn
<1>8. QED
  BY <1>1, <1>6, <1>7 DEF Arming

-----------------------------------------------------------------------------
(* What the steps do to the open nodes.                                    *)

(* A number given out for a node of s.                                     *)
LEMMA NodeOpened ==
  ASSUME TypeOK, Single, NEW f \in Fd, NEW s \in Requests, ~Held(s),
         files[f] = NoFile, files' = [files EXCEPT ![f] = QosNode(s)]
  PROVE  /\ Single'
         /\ \A r \in Requests : Held(r)' <=> Held(r) \/ r = s
<1>1. files'[f] = QosNode(s) /\ \A g \in Fd \ {f} : files'[g] = files[g]
  BY DEF TypeOK
<1>2. \A g \in Fd : files[g] # QosNode(s)
  BY DEF Held
<1>3. \A r \in Requests : QosNode(r) # NoFile
  BY FileNames
<1>4. \A r : QosNode(r) = QosNode(s) => r = s
  BY FileNames
<1>5. Single'
  BY <1>1, <1>2, <1>4 DEF Single
<1>6. \A r \in Requests : Held(r)' <=> Held(r) \/ r = s
  BY <1>1, <1>3, <1>4 DEF Held
<1>7. QED
  BY <1>5, <1>6

(* The number of s's node closed.                                          *)
LEMMA NodeClosed ==
  ASSUME TypeOK, Single, NEW f \in Fd, NEW s \in Requests,
         files[f] = QosNode(s), files' = [files EXCEPT ![f] = NoFile]
  PROVE  /\ Single' /\ Held(s)
         /\ \A r \in Requests : Held(r)' <=> Held(r) /\ r # s
<1>1. files'[f] = NoFile /\ \A g \in Fd \ {f} : files'[g] = files[g]
  BY DEF TypeOK
<1>2. \A g \in Fd : files[g] = QosNode(s) => g = f
  BY DEF Single
<1>3. \A r \in Requests : QosNode(r) # NoFile
  BY FileNames
<1>4. \A r : QosNode(r) = QosNode(s) => r = s
  BY FileNames
<1>5. Single'
  BY <1>1, <1>3 DEF Single
<1>6. \A r \in Requests : Held(r)' <=> Held(r) /\ r # s
  BY <1>1, <1>2, <1>3, <1>4 DEF Held
<1>7. Held(s)
  BY DEF Held
<1>8. QED
  BY <1>5, <1>6, <1>7

(* Numbers that are, and become, no nodes.                                 *)
LEMMA NodesStay ==
  ASSUME \A f \in Fd : \/ files'[f] = files[f]
                       \/ \A r \in Requests : /\ files[f] # QosNode(r)
                                              /\ files'[f] # QosNode(r)
  PROVE  /\ Single => Single'
         /\ \A r \in Requests : Held(r)' <=> Held(r)
<1>1. \A r \in Requests, f \in Fd : files'[f] = QosNode(r)
                                      <=> files[f] = QosNode(r)
  OBVIOUS
<1>2. Single => Single'
  BY <1>1 DEF Single
<1>3. \A r \in Requests : Held(r)' <=> Held(r)
  BY <1>1 DEF Held
<1>4. QED
  BY <1>2, <1>3

-----------------------------------------------------------------------------
(* What the steps do to the mapped state.                                  *)

(* The conditions under which a request's phase stays.                     *)
SamePhase(r) ==
    /\ Held(r)' <=> Held(r)
    /\ call'[r] = "idle" <=> call[r] = "idle"
    /\ Pending(r)' <=> Pending(r)

LEMMA PhaseKept ==
  ASSUME \A r \in Requests : SamePhase(r)
  PROVE  UNCHANGED phaseBar
<1>1. \A r \in Requests : phaseBar'[r] = phaseBar[r]
  BY DEF SamePhase, phaseBar
<1>2. /\ phaseBar = [r \in Requests |-> phaseBar[r]]
      /\ phaseBar' = [r \in Requests |-> phaseBar'[r]]
  BY DEF phaseBar
<1>3. QED
  BY <1>1, <1>2

(* The phase of one request moves.                                         *)
LEMMA PhaseMoves ==
  ASSUME NEW s \in Requests, \A r \in Requests \ {s} : SamePhase(r),
         NEW from, NEW to, phaseBar[s] = from, phaseBar'[s] = to
  PROVE  Service!Moves(s, from, to)
<1>1. \A r \in Requests \ {s} : phaseBar'[r] = phaseBar[r]
  BY DEF SamePhase, phaseBar
<1>2. /\ phaseBar = [r \in Requests |-> phaseBar[r]]
      /\ phaseBar' = [r \in Requests |-> phaseBar'[r]]
  BY DEF phaseBar
<1>3. phaseBar' = [phaseBar EXCEPT ![s] = to]
  BY <1>1, <1>2
<1>4. QED
  BY <1>3 DEF Service!Moves

LEMMA OwnerKept ==
  ASSUME \A r \in HandleRequests \cup DirectRequests :
            ownerBar'[r] = ownerBar[r]
  PROVE  UNCHANGED ownerBar
<1>1. /\ ownerBar =
            [r \in HandleRequests \cup DirectRequests |-> ownerBar[r]]
      /\ ownerBar' =
            [r \in HandleRequests \cup DirectRequests |-> ownerBar'[r]]
  BY DEF ownerBar
<1>2. QED
  BY <1>1

LEMMA OwnerMoves ==
  ASSUME NEW s \in HandleRequests \cup DirectRequests,
         \A r \in (HandleRequests \cup DirectRequests) \ {s} :
            ownerBar'[r] = ownerBar[r]
  PROVE  ownerBar' = [ownerBar EXCEPT ![s] = ownerBar'[s]]
<1>1. /\ ownerBar =
            [r \in HandleRequests \cup DirectRequests |-> ownerBar[r]]
      /\ ownerBar' =
            [r \in HandleRequests \cup DirectRequests |-> ownerBar'[r]]
  BY DEF ownerBar
<1>2. QED
  BY <1>1

LEMMA LeftKept ==
  ASSUME IInv, IInv',
         \A r \in TimedRequests :
            /\ Arming(r)' <=> Arming(r)
            /\ \A d : DueIn(r, d)' <=> DueIn(r, d)
  PROVE  UNCHANGED leftBar
<1>1. LeftIs
  BY LeftValues
<1>2. LeftIs'
  <2>1. (IInv => LeftIs)'
    BY LeftValues, PTL
  <2>2. QED
    BY <2>1
<1>3. ASSUME NEW r \in TimedRequests PROVE leftBar'[r] = leftBar[r]
  <2>1. CASE Arming(r)
    BY <1>1, <1>2, <2>1 DEF LeftIs
  <2>2. CASE ~Arming(r) /\ \E d : DueIn(r, d)
    BY <1>1, <1>2, <2>2 DEF LeftIs
  <2>3. CASE ~Arming(r) /\ \A d : ~DueIn(r, d)
    BY <1>1, <1>2, <2>3 DEF LeftIs
  <2>4. QED
    BY <2>1, <2>2, <2>3
<1>4. /\ leftBar = [r \in TimedRequests |-> leftBar[r]]
      /\ leftBar' = [r \in TimedRequests |-> leftBar'[r]]
  BY DEF leftBar
<1>5. QED
  BY <1>3, <1>4

-----------------------------------------------------------------------------
(* What the steps do to the pending requests and to the times left.        *)

(* Sending an event makes its request pending, or arms its timeout.        *)
LEMMA SendSeen ==
  ASSUME IInv, NEW delay \in Nat, NEW e \in Events,
         SendEventDelayed(delay, e)
  PROVE  /\ looper' = looper =>
               \A r : Pending(r)' <=>
                         Pending(r) \/ (IsRequestEvent(e) /\ e.req = r)
         /\ ~IsRequestEvent(e) /\ looper.at # "run" /\ looper'.at # "run" =>
               \A r : Pending(r)' <=> Pending(r)
         /\ \A r, d : DueIn(r, d)' <=>
               \/ DueIn(r, d)
               \/ e.type = "timeout" /\ e.req = r /\ d = delay
<1>1. /\ mKey \notin DOMAIN mQueuedEvents
      /\ DOMAIN mQueuedEvents' = DOMAIN mQueuedEvents \cup {mKey}
      /\ mQueuedEvents'[mKey] = e
      /\ \A k \in DOMAIN mQueuedEvents : mQueuedEvents'[k] = mQueuedEvents[k]
  BY SendAdds DEF IInv
<1>2. ASSUME looper' = looper, NEW r
      PROVE  Pending(r)' <=> Pending(r) \/ (IsRequestEvent(e) /\ e.req = r)
  BY <1>1, <1>2 DEF Pending
<1>3. ASSUME ~IsRequestEvent(e), looper.at # "run", looper'.at # "run", NEW r
      PROVE  Pending(r)' <=> Pending(r)
  BY <1>1, <1>3 DEF Pending
<1> DEFINE m == [what |-> mKey, due |-> delay]
           q == mMessages
           p == mMessages'
<1>4. m \in Message /\ m.what = mKey /\ m.due = delay
  BY DEF IInv, TypeOK, Message
<1>5. q \in Seq(Message)
  BY DEF IInv, TypeOK
<1>6. PICK i \in 1 .. Len(q) + 1 : p = Placed(q, i, m)
  BY DEF SendEventDelayed, GeneratedKey
<1> HIDE DEF m
<1>7. /\ Len(p) = Len(q) + 1
      /\ \A j \in 1 .. Len(q) + 1 :
            p[j] = IF j < i THEN q[j] ELSE IF j = i THEN m ELSE q[j - 1]
      /\ Len(q) \in Nat
  BY <1>4, <1>5, <1>6, PlacedProperties
<1>8. \A j \in 1 .. Len(p) : j = i \/ \E l \in 1 .. Len(q) : p[j] = q[l]
  BY <1>7
<1>9. \A l \in 1 .. Len(q) : \E j \in 1 .. Len(p) : p[j] = q[l]
  <2> SUFFICES ASSUME NEW l \in 1 .. Len(q)
               PROVE  \E j \in 1 .. Len(p) : p[j] = q[l]
    OBVIOUS
  <2>1. CASE l < i
    BY <1>7, <2>1
  <2>2. CASE l >= i
    <3>1. l + 1 \in 1 .. Len(p) /\ p[l + 1] = q[l]
      BY <1>7, <2>2
    <3>2. QED
      BY <3>1
  <2>3. QED
    BY <1>7, <2>1, <2>2
<1>10. i \in 1 .. Len(p) /\ p[i] = m
  BY <1>7
<1>11. \A l \in 1 .. Len(q) :
          /\ q[l].what \in DOMAIN mQueuedEvents
          /\ mQueuedEvents'[q[l].what] = mQueuedEvents[q[l].what]
  BY <1>1 DEF IInv, EventForEveryMessage
<1>12. mQueuedEvents'[m.what] = e
  BY <1>1, <1>4
<1> HIDE DEF p, q
<1>13. ASSUME NEW r, NEW d
       PROVE  DueIn(r, d)' <=>
                 \/ DueIn(r, d)
                 \/ e.type = "timeout" /\ e.req = r /\ d = delay
  <2>1. DueIn(r, d)' <=>
          \E j \in 1 .. Len(p) :
              /\ mQueuedEvents'[p[j].what].type = "timeout"
              /\ mQueuedEvents'[p[j].what].req = r
              /\ p[j].due = d
    BY DEF DueIn, p
  <2>2. DueIn(r, d) <=>
          \E j \in 1 .. Len(q) :
              /\ mQueuedEvents[q[j].what].type = "timeout"
              /\ mQueuedEvents[q[j].what].req = r
              /\ q[j].due = d
    BY DEF DueIn, q
  <2>3. ASSUME DueIn(r, d)'
        PROVE  DueIn(r, d) \/ (e.type = "timeout" /\ e.req = r /\ d = delay)
    BY <1>4, <1>8, <1>10, <1>11, <1>12, <2>1, <2>2, <2>3
  <2>4. ASSUME DueIn(r, d) PROVE DueIn(r, d)'
    BY <1>9, <1>11, <2>1, <2>2, <2>4
  <2>5. ASSUME e.type = "timeout" /\ e.req = r /\ d = delay
        PROVE  DueIn(r, d)'
    BY <1>4, <1>10, <1>12, <2>1, <2>5
  <2>6. QED
    BY <2>3, <2>4, <2>5
<1>14. QED
  BY <1>2, <1>3, <1>13

(* A step that neither sends, takes nor looks up an event.                 *)
LEMMA QueueSeen ==
  ASSUME UNCHANGED <<mQueuedEvents, mMessages>>
  PROVE  /\ looper.at # "run" /\ looper'.at # "run" =>
               \A r : Pending(r)' <=> Pending(r)
         /\ looper' = looper => \A r : Pending(r)' <=> Pending(r)
         /\ \A r, d : DueIn(r, d)' <=> DueIn(r, d)
BY DEF Pending, DueIn

-----------------------------------------------------------------------------
(* The steps of the callers.                                               *)

(* A request is posted.                                                    *)
LEMMA AskStep ==
  ASSUME RInv, IInv', NEW r \in TimedRequests \cup HandleRequests,
         NEW e \in Events, IsRequestEvent(e), e.req = r,
         SendEventDelayed(0, e), call[r] = "idle",
         NEW c \in {"returned", "waiting"},
         c = "returned" => r \in TimedRequests,
         call' = [call EXCEPT ![r] = c],
         UNCHANGED <<mRequests, looper, files, done, ret>>
  PROVE  Rest' /\ Service!Ask(r)
<1> USE DEF Requests
<1>1. /\ call'[r] = c /\ c # "idle" /\ c # "closed"
      /\ \A s \in Requests \ {r} : call'[s] = call[s]
  BY DEF RInv, IInv, TypeOK
<1>2. ~Held(r)
  BY DEF RInv, Rest, Nodes
<1>3. \A s : Pending(s)' <=> Pending(s) \/ s = r
  BY SendSeen DEF RInv
<1>4. Single' /\ \A s \in Requests : Held(s)' <=> Held(s)
  BY NodesStay DEF RInv, Rest, Nodes
<1>5. Nodes'
  BY <1>1, <1>2, <1>3, <1>4 DEF RInv, Rest, Nodes
<1>6. r \in HandleRequests => ret[r] = Garbage /\ ~(ret[r] >= 0)
  BY DEF RInv, IInv, Frames, Garbage
<1>7. \A s \in HandleRequests : HasHandle(s)' <=> HasHandle(s)
  BY <1>1, <1>6 DEF HasHandle
<1>8. Backed'
  BY <1>4, <1>7 DEF RInv, Rest, Backed
<1>9. Closing'
  BY <1>7, LooperFields DEF RInv, IInv, Rest, Closing
<1>10. Service!Moves(r, "idle", "asked")
  <2>1. phaseBar[r] = "idle"
    BY <1>2, PhaseValues DEF PhaseIs
  <2>2. phaseBar'[r] = "asked"
    BY <1>1, <1>2, <1>3, <1>4, NextValues DEF PhaseIs
  <2>3. \A s \in Requests \ {r} : SamePhase(s)
    BY <1>1, <1>3, <1>4 DEF SamePhase
  <2>4. QED
    BY <2>1, <2>2, <2>3, PhaseMoves
<1>11. UNCHANGED leftBar
  <2>1. \A s, d : DueIn(s, d)' <=> DueIn(s, d)
    BY SendSeen DEF RInv, IsRequestEvent
  <2>2. \A s : Arming(s)' <=> Arming(s)
    BY DEF Arming
  <2>3. QED
    BY <2>1, <2>2, LeftKept DEF RInv
<1>12. UNCHANGED ownerBar
  <2>1. ASSUME NEW s \in HandleRequests \cup DirectRequests
        PROVE  ownerBar'[s] = ownerBar[s]
    <3>1. CASE s # r
      BY <1>1, <3>1, OwnerValues, NextValues DEF OwnerIs
    <3>2. CASE s = r
      <4>1. r \in HandleRequests /\ c = "waiting"
        BY <3>2, RequestsAssumption
      <4>2. QED
        BY <1>1, <3>2, <4>1, OwnerValues, NextValues DEF OwnerIs
    <3>3. QED
      BY <3>1, <3>2
  <2>2. QED
    BY <2>1, OwnerKept
<1>13. QED
  BY <1>5, <1>8, <1>9, <1>10, <1>11, <1>12 DEF Rest, Service!Ask

LEMMA WaitReturnsStep ==
  ASSUME RInv, IInv', NEW r \in HandleRequests, WaitReturns(r)
  PROVE  /\ Rest'
         /\ Service!Give(r) \/ UNCHANGED <<phaseBar, leftBar, ownerBar>>
<1> USE DEF Requests
<1>1. /\ UNCHANGED <<mQueuedEvents, mMessages, mRequests, looper, files, ret>>
      /\ call[r] = "waiting" /\ call'[r] = "returned"
      /\ \A s \in Requests \ {r} : call'[s] = call[s]
  BY DEF WaitReturns, queue, RInv, IInv, TypeOK
<1>2. \A s \in HandleRequests : HasHandle(s)' <=> HasHandle(s)
  BY <1>1 DEF HasHandle
<1>3. \A s : Pending(s)' <=> Pending(s)
  BY <1>1, QueueSeen
<1>4. Single' /\ \A s \in Requests : Held(s)' <=> Held(s)
  BY <1>1, NodesStay DEF RInv, Rest, Nodes
<1>5. Nodes'
  BY <1>1, <1>3, <1>4 DEF RInv, Rest, Nodes
<1>6. Backed'
  BY <1>1, <1>2, <1>4 DEF RInv, Rest, Backed
<1>7. Closing'
  BY <1>1, <1>2, LooperFields DEF RInv, IInv, Rest, Closing
<1>8. UNCHANGED phaseBar
  <2>1. \A s \in Requests : SamePhase(s)
    BY <1>1, <1>3, <1>4 DEF SamePhase
  <2>2. QED
    BY <2>1, PhaseKept
<1>9. UNCHANGED leftBar
  <2>1. \A s, d : DueIn(s, d)' <=> DueIn(s, d)
    BY <1>1, QueueSeen
  <2>2. \A s : Arming(s)' <=> Arming(s)
    BY <1>1 DEF Arming
  <2>3. QED
    BY <2>1, <2>2, LeftKept DEF RInv
<1>10. \A s \in (HandleRequests \cup DirectRequests) \ {r} :
          ownerBar'[s] = ownerBar[s]
  BY <1>1, OwnerValues, NextValues DEF OwnerIs
<1>11. CASE ret[r] >= 0
  <2>1. ownerBar[r] = "none" /\ ownerBar'[r] = "has"
    BY <1>1, <1>11, OwnerValues, NextValues DEF OwnerIs
  <2>2. Held(r)
    BY <1>1, <1>11 DEF RInv, Rest, Backed, HasHandle
  <2>3. phaseBar[r] = "active"
    BY <2>2, PhaseValues DEF PhaseIs
  <2>4. ownerBar' = [ownerBar EXCEPT ![r] = "has"]
    BY <1>10, <2>1, OwnerMoves
  <2>5. QED
    BY <1>5, <1>6, <1>7, <1>8, <1>9, <2>1, <2>3, <2>4 DEF Rest, Service!Give
<1>12. CASE ~(ret[r] >= 0)
  <2>1. ownerBar'[r] = ownerBar[r]
    BY <1>1, <1>12, OwnerValues, NextValues DEF OwnerIs
  <2>2. UNCHANGED ownerBar
    BY <1>10, <2>1, OwnerKept
  <2>3. QED
    BY <1>5, <1>6, <1>7, <1>8, <1>9, <2>2 DEF Rest
<1>13. QED
  BY <1>11, <1>12

LEMMA RequestPmQosStep ==
  ASSUME RInv, IInv', NEW r \in DirectRequests, RequestPmQos(r)
  PROVE  Rest' /\ Service!Take(r)
<1> USE DEF Requests
<1>1. /\ UNCHANGED <<mQueuedEvents, mMessages, mRequests, looper>>
      /\ call[r] = "idle" /\ call'[r] = "returned"
      /\ \A s \in Requests \ {r} : call'[s] = call[s]
      /\ ret \in [HandleRequests \cup DirectRequests
                     -> Fd \cup {Failed, Garbage}]
      /\ \E v : ret' = [ret EXCEPT ![r] = v]
  BY DEF RequestPmQos, queue, RInv, IInv, TypeOK
<1>2. /\ r \notin HandleRequests /\ r \notin TimedRequests
      /\ \A s \in (HandleRequests \cup DirectRequests) \ {r} :
            ret'[s] = ret[s]
  BY <1>1, RequestsAssumption
<1>3. \A s \in HandleRequests : HasHandle(s)' <=> HasHandle(s)
  BY <1>1, <1>2 DEF HasHandle
<1>4. \A s : Pending(s)' <=> Pending(s)
  BY <1>1, QueueSeen
<1>5. ~Held(r)
  BY <1>1 DEF RInv, Rest, Nodes
<1>6. ~Pending(r)
  <2>1. \A k \in DOMAIN mQueuedEvents : mQueuedEvents[k] \in Events
    BY DEF RInv, IInv, TypeOK
  <2>2. looper.at = "run" => looper.ev \in Events
    BY LooperFields DEF RInv, IInv
  <2>3. \A e \in Events : IsRequestEvent(e) => e.req # r
    BY <1>2, EventFields DEF IsRequestEvent
  <2>4. QED
    BY <2>1, <2>2, <2>3 DEF Pending
<1>7. UNCHANGED leftBar
  <2>1. \A s, d : DueIn(s, d)' <=> DueIn(s, d)
    BY <1>1, QueueSeen
  <2>2. \A s : Arming(s)' <=> Arming(s)
    BY <1>1 DEF Arming
  <2>3. QED
    BY <2>1, <2>2, LeftKept DEF RInv
<1>8. Closing'
  BY <1>1, <1>3, LooperFields DEF RInv, IInv, Rest, Closing
<1>9. \A s \in (HandleRequests \cup DirectRequests) \ {r} :
         ownerBar'[s] = ownerBar[s]
  BY <1>1, <1>2, OwnerValues, NextValues DEF OwnerIs
<1>10. phaseBar[r] = "idle" /\ ownerBar[r] = "none"
  BY <1>1, <1>5, PhaseValues, OwnerValues DEF PhaseIs, OwnerIs
<1>11. CASE ret' = [ret EXCEPT ![r] = Failed] /\ UNCHANGED files
  <2>1. Single' /\ \A s \in Requests : Held(s)' <=> Held(s)
    BY <1>11, NodesStay DEF RInv, Rest, Nodes
  <2>2. Nodes'
    BY <1>1, <1>4, <2>1 DEF RInv, Rest, Nodes
  <2>3. Backed'
    BY <1>1, <1>3, <2>1 DEF RInv, Rest, Backed
  <2>4. ret'[r] = Failed /\ ~(ret'[r] >= 0)
    BY <1>1, <1>11 DEF Failed
  <2>5. phaseBar'[r] = "over" /\ ownerBar'[r] = ownerBar[r]
    BY <1>1, <1>4, <1>5, <1>6, <1>10, <2>1, <2>4, NextValues
       DEF PhaseIs, OwnerIs
  <2>6. \A s \in Requests \ {r} : SamePhase(s)
    BY <1>1, <1>4, <2>1 DEF SamePhase
  <2>7. Service!Moves(r, "idle", "over")
    BY <1>10, <2>5, <2>6, PhaseMoves
  <2>8. UNCHANGED ownerBar
    BY <1>9, <2>5, OwnerKept
  <2>9. QED
    BY <1>7, <1>8, <2>2, <2>3, <2>7, <2>8 DEF Rest, Service!Take
<1>12. ASSUME NEW f \in Fd, LowestUnused(f),
              files' = [files EXCEPT ![f] = QosNode(r)],
              ret' = [ret EXCEPT ![r] = f]
       PROVE  Rest' /\ Service!Take(r)
  <2>1. /\ Single'
        /\ \A s \in Requests : Held(s)' <=> Held(s) \/ s = r
    BY <1>5, <1>12, NodeOpened DEF RInv, IInv, Rest, Nodes, LowestUnused
  <2>2. Nodes'
    BY <1>1, <1>4, <1>6, <2>1 DEF RInv, Rest, Nodes
  <2>3. Backed'
    BY <1>1, <1>3, <2>1 DEF RInv, Rest, Backed
  <2>4. ret'[r] = f /\ f >= 0
    BY <1>1, <1>12 DEF Fd
  <2>5. phaseBar'[r] = "active" /\ ownerBar'[r] = "has"
    BY <1>1, <2>1, <2>4, NextValues DEF PhaseIs, OwnerIs
  <2>6. \A s \in Requests \ {r} : SamePhase(s)
    BY <1>1, <1>4, <2>1 DEF SamePhase
  <2>7. Service!Moves(r, "idle", "active")
    BY <1>10, <2>5, <2>6, PhaseMoves
  <2>8. ownerBar' = [ownerBar EXCEPT ![r] = "has"]
    BY <1>9, <2>5, OwnerMoves
  <2>9. QED
    BY <1>7, <1>8, <2>2, <2>3, <2>7, <2>8 DEF Rest, Service!Take
<1>13. QED
  BY <1>11, <1>12 DEF RequestPmQos

LEMMA ClientCloseStep ==
  ASSUME RInv, IInv', NEW r \in HandleRequests \cup DirectRequests,
         ClientClose(r)
  PROVE  /\ Rest'
         /\ \/ r \in HandleRequests /\ Service!Drop(r)
            \/ r \in DirectRequests /\ Service!GiveBack(r)
<1> USE DEF Requests
<1>1. /\ UNCHANGED <<mQueuedEvents, mMessages, mRequests, looper, ret>>
      /\ call[r] = "returned" /\ ret[r] >= 0 /\ call'[r] = "closed"
      /\ \A s \in Requests \ {r} : call'[s] = call[s]
      /\ files' = [files EXCEPT ![ret[r]] = NoFile]
  BY DEF ClientClose, queue, RInv, IInv, TypeOK
<1>2. ret[r] \in Fd
  BY <1>1, Holders DEF RInv, IInv
<1>3. files'[ret[r]] = NoFile
      /\ \A g \in Fd \ {ret[r]} : files'[g] = files[g]
  BY <1>1, <1>2 DEF RInv, IInv, TypeOK
<1>4. \A s \in HandleRequests :
         /\ s # r => (HasHandle(s)' <=> HasHandle(s))
         /\ HasHandle(s)' => HasHandle(s)
         /\ s = r => ~HasHandle(s)'
  BY <1>1 DEF HasHandle
<1>5. \A s : Pending(s)' <=> Pending(s)
  BY <1>1, QueueSeen
<1>6. UNCHANGED leftBar
  <2>1. \A s, d : DueIn(s, d)' <=> DueIn(s, d)
    BY <1>1, QueueSeen
  <2>2. \A s : Arming(s)' <=> Arming(s)
    BY <1>1 DEF Arming
  <2>3. QED
    BY <2>1, <2>2, LeftKept DEF RInv
<1>7. Closing'
  BY <1>1, <1>4, LooperFields DEF RInv, IInv, Rest, Closing
<1>8. ownerBar' = [ownerBar EXCEPT ![r] = "dropped"] /\ ownerBar[r] = "has"
  <2>1. \A s \in (HandleRequests \cup DirectRequests) \ {r} :
           ownerBar'[s] = ownerBar[s]
    BY <1>1, OwnerValues, NextValues DEF OwnerIs
  <2>2. ownerBar[r] = "has" /\ ownerBar'[r] = "dropped"
    BY <1>1, OwnerValues, NextValues DEF OwnerIs
  <2>3. QED
    BY <2>1, <2>2, OwnerMoves
<1>9. CASE r \in HandleRequests
  <2>1. files[ret[r]] = ReadEnd(r)
    BY <1>1, <1>9 DEF RInv, IInv, Owned, ClientsOwn, Is
  <2>2. \A s \in Requests : files[ret[r]] # QosNode(s) /\ NoFile # QosNode(s)
    BY <2>1, FileNames
  <2>3. Single' /\ \A s \in Requests : Held(s)' <=> Held(s)
    BY <1>3, <2>2, NodesStay DEF RInv, Rest, Nodes
  <2>4. Nodes'
    BY <1>1, <1>5, <2>3 DEF RInv, Rest, Nodes
  <2>5. Backed'
    BY <1>1, <1>4, <2>3 DEF RInv, Rest, Backed
  <2>6. UNCHANGED phaseBar
    <3>1. \A s \in Requests : SamePhase(s)
      BY <1>1, <1>5, <2>3 DEF SamePhase
    <3>2. QED
      BY <3>1, PhaseKept
  <2>7. QED
    BY <1>6, <1>7, <1>8, <1>9, <2>4, <2>5, <2>6 DEF Rest, Service!Drop
<1>10. CASE r \in DirectRequests
  <2>1. files[ret[r]] = QosNode(r)
    BY <1>1, <1>10 DEF RInv, IInv, Owned, ClientsOwn, Is
  <2>2. /\ Single' /\ Held(r)
        /\ \A s \in Requests : Held(s)' <=> Held(s) /\ s # r
    BY <1>1, <1>2, <2>1, NodeClosed DEF RInv, IInv, Rest, Nodes
  <2>3. r \notin HandleRequests
    BY <1>10, RequestsAssumption
  <2>4. Nodes'
    BY <1>1, <1>5, <2>2 DEF RInv, Rest, Nodes
  <2>5. Backed'
    BY <1>1, <1>4, <2>2, <2>3 DEF RInv, Rest, Backed
  <2>6. Service!Moves(r, "active", "over")
    <3>1. phaseBar[r] = "active"
      BY <2>2, PhaseValues DEF PhaseIs
    <3>2. ~Pending(r)
      BY <2>2 DEF RInv, Rest, Nodes
    <3>3. phaseBar'[r] = "over"
      BY <1>1, <1>5, <2>2, <3>2, NextValues DEF PhaseIs
    <3>4. \A s \in Requests \ {r} : SamePhase(s)
      BY <1>1, <1>5, <2>2 DEF SamePhase
    <3>5. QED
      BY <3>1, <3>3, <3>4, PhaseMoves
  <2>7. QED
    BY <1>6, <1>7, <1>8, <1>10, <2>4, <2>5, <2>6 DEF Rest, Service!GiveBack
<1>11. QED
  BY <1>9, <1>10

-----------------------------------------------------------------------------
(* The steps of the Looper thread.                                         *)

(* A step that the service does not see.                                   *)
LEMMA HiddenStep ==
  ASSUME IInv, IInv', UNCHANGED call,
         \A r \in Requests :
            (Held(r)' <=> Held(r)) /\ (Pending(r)' <=> Pending(r)),
         \A r \in TimedRequests :
            /\ Arming(r)' <=> Arming(r)
            /\ \A d : DueIn(r, d)' <=> DueIn(r, d),
         \A r \in HandleRequests \cup DirectRequests :
            call[r] = "returned" => ret'[r] = ret[r]
  PROVE  UNCHANGED <<phaseBar, leftBar, ownerBar>>
<1>1. \A r \in Requests : SamePhase(r)
  BY DEF SamePhase
<1>2. UNCHANGED phaseBar
  BY <1>1, PhaseKept
<1>3. UNCHANGED leftBar
  BY LeftKept
<1>4. \A r \in HandleRequests \cup DirectRequests : ownerBar'[r] = ownerBar[r]
  BY OwnerValues, NextValues DEF OwnerIs
<1>5. UNCHANGED ownerBar
  BY <1>4, OwnerKept
<1>6. QED
  BY <1>2, <1>3, <1>5

(* Nor does it affect what the Looper thread owes the callers.             *)
LEMMA RestKept ==
  ASSUME RInv, UNCHANGED <<call, ret>>, Single',
         \A r \in Requests :
            (Held(r)' <=> Held(r)) /\ (Pending(r)' => Pending(r)),
         \A r \in HandleRequests :
            looper'.at = "reply" /\ looper'.req = r /\ looper'.val # Failed
               => Held(r),
         looper'.at \in {"closeHandle", "closeFd"} =>
            /\ looper.at \in {"closeHandle", "closeFd"}
            /\ looper'.req = looper.req
  PROVE  Rest'
<1> USE DEF Requests
<1>1. Nodes'
  BY DEF RInv, Rest, Nodes
<1>2. \A r : HasHandle(r)' <=> HasHandle(r)
  BY DEF HasHandle
<1>3. Backed'
  BY <1>2 DEF RInv, Rest, Backed
<1>4. Closing'
  BY <1>2 DEF RInv, Rest, Closing
<1>5. QED
  BY <1>1, <1>3, <1>4 DEF Rest

(* Looper takes a message off its queue.                                   *)
LEMMA ReceiveStep ==
  ASSUME RInv, IInv', Receive
  PROVE  Rest' /\ UNCHANGED <<phaseBar, leftBar, ownerBar>>
<1> USE DEF Requests
<1>1. /\ looper.at = "poll" /\ looper'.at = "remove"
      /\ UNCHANGED <<mQueuedEvents, files, call, ret>>
  BY DEF Receive, Poll, AtRemove
<1>2. \A r : Pending(r)' <=> Pending(r)
  BY <1>1 DEF Pending
<1>3. Single' /\ \A r \in Requests : Held(r)' <=> Held(r)
  BY <1>1, NodesStay DEF RInv, Rest, Nodes
<1>4. Rest'
  BY <1>1, <1>2, <1>3, RestKept
<1>5. UNCHANGED phaseBar
  <2>1. \A r \in Requests : SamePhase(r)
    BY <1>1, <1>2, <1>3 DEF SamePhase
  <2>2. QED
    BY <2>1, PhaseKept
<1>6. UNCHANGED ownerBar
  <2>1. \A r \in HandleRequests \cup DirectRequests :
           ownerBar'[r] = ownerBar[r]
    BY <1>1, OwnerValues, NextValues DEF OwnerIs
  <2>2. QED
    BY <2>1, OwnerKept
<1>7. UNCHANGED leftBar
  <2> DEFINE q == mMessages
             t == mMessages'
  <2>1. /\ Len(q) \in Nat /\ Len(q) >= 1 /\ Len(t) = Len(q) - 1
        /\ \A j \in 1 .. Len(q) - 1 : t[j] = q[j + 1]
        /\ q[1].due = 0
    BY TailMessages DEF Receive, IsDue, RInv, IInv, TypeOK
  <2>2. \A j \in 1 .. Len(t) : \E l \in 1 .. Len(q) : t[j] = q[l]
    BY <2>1
  <2>3. \A l \in 1 .. Len(q) :
           l = 1 \/ \E j \in 1 .. Len(t) : t[j] = q[l]
    <3> SUFFICES ASSUME NEW l \in 1 .. Len(q), l # 1
                 PROVE  \E j \in 1 .. Len(t) : t[j] = q[l]
      OBVIOUS
    <3>1. l - 1 \in 1 .. Len(t) /\ t[l - 1] = q[l]
      BY <2>1
    <3>2. QED
      BY <3>1
  <2> HIDE DEF q, t
  <2>4. \A r, d : DueIn(r, d) <=>
           \E j \in 1 .. Len(q) :
              /\ mQueuedEvents[q[j].what].type = "timeout"
              /\ mQueuedEvents[q[j].what].req = r
              /\ q[j].due = d
    BY DEF DueIn, q
  <2>5. \A r, d : DueIn(r, d)' <=>
           \E j \in 1 .. Len(t) :
              /\ mQueuedEvents[t[j].what].type = "timeout"
              /\ mQueuedEvents[t[j].what].req = r
              /\ t[j].due = d
    BY <1>1 DEF DueIn, t
  <2>6. ASSUME NEW r, NEW d
        PROVE  /\ DueIn(r, d)' => DueIn(r, d)
               /\ DueIn(r, d) => DueIn(r, d)' \/ d = 0
    <3>1. DueIn(r, d)' => DueIn(r, d)
      BY <2>2, <2>4, <2>5
    <3>2. ASSUME DueIn(r, d), d # 0 PROVE DueIn(r, d)'
      <4>1. PICK l \in 1 .. Len(q) :
                /\ mQueuedEvents[q[l].what].type = "timeout"
                /\ mQueuedEvents[q[l].what].req = r
                /\ q[l].due = d
        BY <2>4, <3>2
      <4>2. l # 1
        BY <2>1, <3>2, <4>1
      <4>3. PICK j \in 1 .. Len(t) : t[j] = q[l]
        BY <2>3, <4>2
      <4>4. QED
        BY <2>5, <4>1, <4>3
    <3>3. QED
      BY <3>1, <3>2
  <2>7. LeftIs /\ LeftIs'
    <3>1. (IInv => LeftIs)'
      BY LeftValues, PTL
    <3>2. QED
      BY <3>1, LeftValues DEF RInv
  <2>8. ASSUME NEW r \in TimedRequests PROVE leftBar'[r] = leftBar[r]
    <3>1. ~Arming(r) /\ ~Arming(r)'
      BY <1>1 DEF Arming
    <3>2. CASE \E d : DueIn(r, d)'
      BY <2>6, <2>7, <3>1, <3>2 DEF LeftIs
    <3>3. CASE \A d : ~DueIn(r, d)'
      <4>1. leftBar'[r] = 0
        BY <2>7, <3>1, <3>3 DEF LeftIs
      <4>2. leftBar[r] = 0
        BY <2>6, <2>7, <3>1, <3>3 DEF LeftIs
      <4>3. QED
        BY <4>1, <4>2
    <3>4. QED
      BY <3>2, <3>3
  <2>9. /\ leftBar = [r \in TimedRequests |-> leftBar[r]]
        /\ leftBar' = [r \in TimedRequests |-> leftBar'[r]]
    BY DEF leftBar
  <2>10. QED
    BY <2>8, <2>9
<1>8. QED
  BY <1>4, <1>5, <1>6, <1>7

(* The same when a node comes or goes.                                     *)
LEMMA RestAfter ==
  ASSUME RInv, UNCHANGED <<call, ret>>, Single',
         \A r \in Requests : Held(r)' => call[r] # "idle" /\ ~Pending(r)',
         \A r \in HandleRequests : HasHandle(r) => Held(r)',
         looper'.at = "reply" => looper'.val = Failed,
         looper'.at \notin {"closeHandle", "closeFd"}
  PROVE  Rest'
<1>1. Nodes'
  BY DEF Nodes
<1>2. \A r : HasHandle(r)' <=> HasHandle(r)
  BY DEF HasHandle
<1>3. Backed'
  BY <1>2 DEF Backed
<1>4. Closing'
  BY DEF Closing
<1>5. QED
  BY <1>1, <1>3, <1>4 DEF Rest

LEMMA RemoveStep ==
  ASSUME RInv, IInv', RemoveEventByKey
  PROVE  Rest' /\ UNCHANGED <<phaseBar, leftBar, ownerBar>>
<1> USE DEF Requests
<1> DEFINE k == looper.key
<1>1. /\ looper.at = "remove" /\ looper'.at = "run"
      /\ looper'.ev = mQueuedEvents[k]
      /\ UNCHANGED <<mMessages, files, call, ret>>
      /\ DOMAIN mQueuedEvents' = DOMAIN mQueuedEvents \ {k}
      /\ \A l \in DOMAIN mQueuedEvents \ {k} :
            mQueuedEvents'[l] = mQueuedEvents[l]
  BY DEF RemoveEventByKey, AtRun, Removed
<1>2. /\ k \in DOMAIN mQueuedEvents
      /\ \A j \in 1 .. Len(mMessages) :
            mMessages[j].what \in DOMAIN mQueuedEvents \ {k}
  BY <1>1 DEF RInv, IInv, EventForEveryMessage
<1> HIDE DEF k
<1>3. ASSUME NEW r PROVE Pending(r)' <=> Pending(r)
  <2>1. Pending(r) <=> \E l \in DOMAIN mQueuedEvents :
           IsRequestEvent(mQueuedEvents[l]) /\ mQueuedEvents[l].req = r
    BY <1>1 DEF Pending
  <2>2. Pending(r)' <=>
           \/ \E l \in DOMAIN mQueuedEvents \ {k} :
                 IsRequestEvent(mQueuedEvents[l]) /\ mQueuedEvents[l].req = r
           \/ IsRequestEvent(mQueuedEvents[k]) /\ mQueuedEvents[k].req = r
    BY <1>1 DEF Pending
  <2>3. QED
    BY <1>2, <2>1, <2>2
<1>4. \A j \in 1 .. Len(mMessages) :
         mQueuedEvents'[mMessages[j].what] = mQueuedEvents[mMessages[j].what]
  BY <1>1, <1>2
<1>5. \A r, d : DueIn(r, d)' <=> DueIn(r, d)
  BY <1>1, <1>4 DEF DueIn
<1>6. Single' /\ \A r \in Requests : Held(r)' <=> Held(r)
  BY <1>1, NodesStay DEF RInv, Rest, Nodes
<1>7. Rest'
  BY <1>1, <1>3, <1>6, RestKept
<1>8. \A r : Arming(r)' <=> Arming(r)
  BY <1>1 DEF Arming
<1>9. QED
  BY <1>1, <1>3, <1>5, <1>6, <1>7, <1>8, HiddenStep DEF RInv

(* The Looper thread runs the event of a request: granted or refused.      *)
LEMMA OpenStep ==
  ASSUME RInv, IInv', OpenPmQosNode
  PROVE  /\ Rest'
         /\ LET r == looper.ev.req
            IN  \/ /\ r \in TimedRequests
                   /\ Service!Refuse(r) \/ Service!GrantTimed(r)
                \/ /\ r \in HandleRequests
                   /\ Service!Refuse(r) \/ Service!GrantHandle(r)
<1> USE DEF Requests
<1> DEFINE e == looper.ev
           r == looper.ev.req
<1>1. /\ looper.at = "run" /\ e.type \in {"timed", "handle"}
      /\ UNCHANGED <<mQueuedEvents, mMessages, mRequests, call, ret>>
  BY DEF OpenPmQosNode, queue
<1>2. /\ e \in Events
      /\ e.type = "timed" => r \in TimedRequests
      /\ e.type = "handle" => r \in HandleRequests
  BY <1>1, LooperFields, EventFields DEF RInv, IInv
<1>3. r \in Requests /\ IsRequestEvent(e)
  BY <1>1, <1>2 DEF IsRequestEvent
<1>4. Pending(r) /\ LooperOn(r)
  BY <1>1, <1>3 DEF Pending, LooperOn
<1>5. ~Held(r)
  BY <1>3, <1>4 DEF RInv, Rest, Nodes
<1>6. call[r] # "idle"
  BY <1>3, <1>4 DEF RInv, IInv, Tokens
<1>7. \A l \in DOMAIN mQueuedEvents : mQueuedEvents[l].req # r
  BY <1>4 DEF RInv, IInv, Tokens
<1>8. looper'.at \in {"poll", "arm", "pipe", "reply"}
  BY <1>1 DEF OpenPmQosNode, AfterOpen, AfterFailedOpen, Poll, AtArm, AtPipe,
              AtReply
<1>9. \A s : Pending(s)' <=> Pending(s) /\ s # r
  BY <1>1, <1>7, <1>8 DEF Pending
<1>10. \A s, d : DueIn(s, d)' <=> DueIn(s, d)
  BY <1>1, QueueSeen
<1>11. phaseBar[r] = "asked"
  BY <1>3, <1>4, <1>5, <1>6, PhaseValues DEF PhaseIs
<1>12. UNCHANGED ownerBar
  <2>1. \A s \in HandleRequests \cup DirectRequests :
           ownerBar'[s] = ownerBar[s]
    BY <1>1, OwnerValues, NextValues DEF OwnerIs
  <2>2. QED
    BY <2>1, OwnerKept
<1>13. \A s : ~Arming(s)
  BY <1>1 DEF Arming
<1>14. r \notin HandleRequests \/ ~HasHandle(r)
  BY <1>3, <1>5 DEF RInv, Rest, Backed
<1>15. CASE looper' = AfterFailedOpen(e) /\ UNCHANGED files
  <2>1. /\ looper'.at \in {"poll", "reply"}
        /\ looper'.at = "reply" => looper'.val = Failed
    BY <1>15 DEF AfterFailedOpen, Poll, AtReply
  <2>2. Single' /\ \A s \in Requests : Held(s)' <=> Held(s)
    BY <1>15, NodesStay DEF RInv, Rest, Nodes
  <2>3. \A s : Pending(s)' => Pending(s)
    BY <1>9
  <2>4. Rest'
    BY <1>1, <2>1, <2>2, <2>3, RestKept
  <2>5. \A s : Arming(s)' <=> Arming(s)
    BY <1>13, <2>1 DEF Arming
  <2>6. UNCHANGED leftBar
    BY <1>10, <2>5, LeftKept DEF RInv
  <2>7. phaseBar'[r] = "over"
    BY <1>1, <1>3, <1>5, <1>6, <1>9, <2>2, NextValues DEF PhaseIs
  <2>8. \A s \in Requests \ {r} : SamePhase(s)
    BY <1>1, <1>9, <2>2 DEF SamePhase
  <2>9. Service!Moves(r, "asked", "over")
    BY <1>3, <1>11, <2>7, <2>8, PhaseMoves
  <2>10. QED
    BY <1>1, <1>2, <1>12, <2>4, <2>6, <2>9 DEF Service!Refuse
<1>16. ASSUME NEW f \in Fd, LowestUnused(f),
              files' = [files EXCEPT ![f] = QosNode(r)],
              looper' = AfterOpen(e, f)
       PROVE  /\ Rest'
              /\ \/ r \in TimedRequests /\ Service!GrantTimed(r)
                 \/ r \in HandleRequests /\ Service!GrantHandle(r)
  <2>1. /\ Single'
        /\ \A s \in Requests : Held(s)' <=> Held(s) \/ s = r
    BY <1>3, <1>5, <1>16, NodeOpened
       DEF RInv, IInv, Rest, Nodes, LowestUnused
  <2>2. /\ e.type = "timed" => looper' = [at |-> "arm", req |-> r, fd |-> f]
        /\ e.type = "handle" => looper' = [at |-> "pipe", req |-> r, fd |-> f]
    BY <1>16 DEF AfterOpen, AtArm, AtPipe
  <2>3. Rest'
    <3>1. \A s \in Requests : Held(s)' => call[s] # "idle" /\ ~Pending(s)'
      BY <1>6, <1>9, <2>1 DEF RInv, Rest, Nodes
    <3>2. \A s \in HandleRequests : HasHandle(s) => Held(s)'
      BY <2>1 DEF RInv, Rest, Backed
    <3>3. looper'.at \in {"arm", "pipe"}
      BY <1>1, <2>2
    <3>4. QED
      BY <1>1, <2>1, <3>1, <3>2, <3>3, RestAfter
  <2>4. Service!Moves(r, "asked", "active")
    <3>1. phaseBar'[r] = "active"
      BY <1>3, <2>1, NextValues DEF PhaseIs
    <3>2. \A s \in Requests \ {r} : SamePhase(s)
      BY <1>1, <1>9, <2>1 DEF SamePhase
    <3>3. QED
      BY <1>3, <1>11, <3>1, <3>2, PhaseMoves
  <2>5. CASE e.type = "handle"
    <3>1. \A s : Arming(s)' <=> Arming(s)
      BY <1>13, <2>2, <2>5 DEF Arming
    <3>2. UNCHANGED leftBar
      BY <1>10, <3>1, LeftKept DEF RInv
    <3>3. QED
      BY <1>2, <1>12, <2>3, <2>4, <2>5, <3>2 DEF Service!GrantHandle
  <2>6. CASE e.type = "timed"
    <3>1. \A s : Arming(s)' <=> s = r
      BY <2>2, <2>6 DEF Arming
    <3>2. LeftIs /\ LeftIs'
      <4>1. (IInv => LeftIs)'
        BY LeftValues, PTL
      <4>2. QED
        BY <4>1, LeftValues DEF RInv
    <3>3. leftBar'[r] = Timeout[r]
      BY <1>2, <2>6, <3>1, <3>2 DEF LeftIs
    <3>4. ASSUME NEW s \in TimedRequests \ {r} PROVE leftBar'[s] = leftBar[s]
      <4>1. ~Arming(s) /\ ~Arming(s)'
        BY <1>13, <3>1
      <4>2. CASE \E d : DueIn(s, d)
        BY <1>10, <3>2, <4>1, <4>2 DEF LeftIs
      <4>3. CASE \A d : ~DueIn(s, d)
        BY <1>10, <3>2, <4>1, <4>3 DEF LeftIs
      <4>4. QED
        BY <4>2, <4>3
    <3>5. /\ leftBar = [s \in TimedRequests |-> leftBar[s]]
          /\ leftBar' = [s \in TimedRequests |-> leftBar'[s]]
      BY DEF leftBar
    <3>6. leftBar' = [leftBar EXCEPT ![r] = Timeout[r]]
      BY <3>3, <3>4, <3>5
    <3>7. QED
      BY <1>2, <1>12, <2>3, <2>4, <2>6, <3>6 DEF Service!GrantTimed
  <2>7. QED
    BY <1>1, <2>5, <2>6
<1>17. QED
  BY <1>15, <1>16 DEF OpenPmQosNode

(* The time a granted constraint has left starts to count down.            *)
LEMMA ArmStep ==
  ASSUME RInv, IInv', ArmTimeout
  PROVE  Rest' /\ UNCHANGED <<phaseBar, leftBar, ownerBar>>
<1> USE DEF Requests
<1> DEFINE r == looper.req
           e == TimeoutEvent(r, looper.fd)
<1>1. /\ looper.at = "arm" /\ looper'.at = "poll"
      /\ SendEventDelayed(Timeout[r], e)
      /\ UNCHANGED <<mRequests, files, call, ret>>
  BY DEF ArmTimeout, Poll
<1>2. r \in TimedRequests /\ looper.fd \in Fd
  BY <1>1, LooperFields DEF RInv, IInv
<1>3. /\ e \in Events /\ ~IsRequestEvent(e)
      /\ e.type = "timeout" /\ e.req = r
      /\ Timeout[r] \in Nat
  BY <1>2, TimeoutAssumption DEF TimeoutEvent, Events, IsRequestEvent
<1> HIDE DEF e
<1>4. \A s : Pending(s)' <=> Pending(s)
  BY <1>1, <1>3, SendSeen DEF RInv
<1>5. \A s, d : DueIn(s, d)' <=> DueIn(s, d) \/ (s = r /\ d = Timeout[r])
  BY <1>1, <1>3, SendSeen DEF RInv
<1>6. Single' /\ \A s \in Requests : Held(s)' <=> Held(s)
  BY <1>1, NodesStay DEF RInv, Rest, Nodes
<1>7. Rest'
  BY <1>1, <1>4, <1>6, RestKept
<1>8. UNCHANGED phaseBar
  <2>1. \A s \in Requests : SamePhase(s)
    BY <1>1, <1>4, <1>6 DEF SamePhase
  <2>2. QED
    BY <2>1, PhaseKept
<1>9. UNCHANGED ownerBar
  <2>1. \A s \in HandleRequests \cup DirectRequests :
           ownerBar'[s] = ownerBar[s]
    BY <1>1, OwnerValues, NextValues DEF OwnerIs
  <2>2. QED
    BY <2>1, OwnerKept
<1>10. UNCHANGED leftBar
  <2>1. LeftIs /\ LeftIs'
    <3>1. (IInv => LeftIs)'
      BY LeftValues, PTL
    <3>2. QED
      BY <3>1, LeftValues DEF RInv
  <2>2. \A s : (Arming(s) <=> s = r) /\ ~Arming(s)'
    BY <1>1 DEF Arming
  <2>3. leftBar[r] = Timeout[r] /\ leftBar'[r] = Timeout[r]
    BY <1>2, <1>5, <2>1, <2>2 DEF LeftIs
  <2>4. ASSUME NEW s \in TimedRequests \ {r} PROVE leftBar'[s] = leftBar[s]
    <3>1. CASE \E d : DueIn(s, d)
      BY <1>5, <2>1, <2>2, <3>1 DEF LeftIs
    <3>2. CASE \A d : ~DueIn(s, d)
      BY <1>5, <2>1, <2>2, <3>2 DEF LeftIs
    <3>3. QED
      BY <3>1, <3>2
  <2>5. /\ leftBar = [s \in TimedRequests |-> leftBar[s]]
        /\ leftBar' = [s \in TimedRequests |-> leftBar'[s]]
    BY DEF leftBar
  <2>6. QED
    BY <2>3, <2>4, <2>5
<1>11. QED
  BY <1>7, <1>8, <1>9, <1>10

(* The node of a request the Looper thread works on is closed.             *)
LEMMA CloseStep ==
  ASSUME RInv, IInv', NEW f \in Fd, NEW r \in Requests, LooperOn(r),
         files[f] = QosNode(r), files' = [files EXCEPT ![f] = NoFile],
         r \in HandleRequests => ~HasHandle(r),
         UNCHANGED <<mQueuedEvents, mMessages, mRequests, call, ret>>,
         looper'.at \in {"poll", "reply"},
         looper'.at = "reply" => looper'.val = Failed,
         looper.at = "run" => ~IsRequestEvent(looper.ev),
         looper.at # "arm"
  PROVE  /\ Rest' /\ Service!Moves(r, "active", "over")
         /\ UNCHANGED <<leftBar, ownerBar>>
         /\ r \in TimedRequests => leftBar[r] = 0
<1> USE DEF Requests
<1>1. /\ Single' /\ Held(r)
      /\ \A s \in Requests : Held(s)' <=> Held(s) /\ s # r
  BY NodeClosed DEF RInv, IInv, Rest, Nodes
<1>2. \A s : Pending(s)' <=> Pending(s)
  BY DEF Pending
<1>3. \A s, d : DueIn(s, d)' <=> DueIn(s, d)
  BY QueueSeen
<1>4. \A s : ~Arming(s) /\ ~Arming(s)'
  BY DEF Arming
<1>5. UNCHANGED leftBar
  BY <1>3, <1>4, LeftKept DEF RInv
<1>6. UNCHANGED ownerBar
  <2>1. \A s \in HandleRequests \cup DirectRequests :
           ownerBar'[s] = ownerBar[s]
    BY OwnerValues, NextValues DEF OwnerIs
  <2>2. QED
    BY <2>1, OwnerKept
<1>7. Rest'
  <2>1. \A s \in Requests : Held(s)' => call[s] # "idle" /\ ~Pending(s)'
    BY <1>1, <1>2 DEF RInv, Rest, Nodes
  <2>2. \A s \in HandleRequests : HasHandle(s) => Held(s)'
    BY <1>1 DEF RInv, Rest, Backed
  <2>3. QED
    BY <1>1, <2>1, <2>2, RestAfter
<1>8. Service!Moves(r, "active", "over")
  <2>1. phaseBar[r] = "active"
    BY <1>1, PhaseValues DEF PhaseIs
  <2>2. call[r] # "idle" /\ ~Pending(r)
    BY <1>1 DEF RInv, Rest, Nodes
  <2>3. phaseBar'[r] = "over"
    BY <1>1, <1>2, <2>2, NextValues DEF PhaseIs
  <2>4. \A s \in Requests \ {r} : SamePhase(s)
    BY <1>1, <1>2 DEF SamePhase
  <2>5. QED
    BY <2>1, <2>3, <2>4, PhaseMoves
<1>9. ASSUME r \in TimedRequests PROVE leftBar[r] = 0
  <2>1. \A l \in DOMAIN mQueuedEvents : mQueuedEvents[l].req # r
    BY DEF RInv, IInv, Tokens
  <2>2. \A d : ~DueIn(r, d)
    BY <2>1 DEF DueIn, RInv, IInv, EventForEveryMessage
  <2>3. LeftIs
    BY LeftValues DEF RInv
  <2>4. QED
    BY <1>4, <1>9, <2>2, <2>3 DEF LeftIs
<1>10. QED
  BY <1>1, <1>5, <1>6, <1>7, <1>8, <1>9

LEMMA ExpireStep ==
  ASSUME RInv, IInv', TimeoutRequest
  PROVE  Rest' /\ \E r \in TimedRequests : Service!Expire(r)
<1> USE DEF Requests
<1> DEFINE r == looper.ev.req
           f == looper.ev.fd
<1>1. /\ looper.at = "run" /\ looper.ev.type = "timeout"
      /\ looper'.at = "poll"
      /\ files' = [files EXCEPT ![f] = NoFile]
      /\ UNCHANGED <<mQueuedEvents, mMessages, mRequests, call, ret>>
  BY DEF TimeoutRequest, Poll, queue
<1>2. r \in TimedRequests /\ f \in Fd
  BY <1>1, LooperFields, EventFields DEF RInv, IInv
<1>3. files[f] = QosNode(r)
  BY <1>1 DEF RInv, IInv, Owned, LooperOwns, Is
<1>4. LooperOn(r) /\ ~IsRequestEvent(looper.ev)
  BY <1>1 DEF LooperOn, IsRequestEvent
<1>5. r \notin HandleRequests /\ r \in Requests
  BY <1>2, RequestsAssumption
<1> HIDE DEF r, f
<1>6. /\ Rest' /\ Service!Moves(r, "active", "over")
      /\ UNCHANGED <<leftBar, ownerBar>> /\ leftBar[r] = 0
  BY <1>1, <1>2, <1>3, <1>4, <1>5, CloseStep
<1>7. Service!Expire(r)
  BY <1>6 DEF Service!Expire
<1>8. QED
  BY <1>2, <1>6, <1>7

LEMMA PipeStep ==
  ASSUME RInv, IInv', MakePipe
  PROVE  /\ Rest'
         /\ \/ UNCHANGED <<phaseBar, leftBar, ownerBar>>
            \/ \E r \in HandleRequests : Service!Release(r)
<1> USE DEF Requests
<1> DEFINE r == looper.req
<1>1. /\ looper.at = "pipe"
      /\ UNCHANGED <<mQueuedEvents, mMessages, mRequests, call, ret>>
  BY DEF MakePipe, queue
<1>2. r \in HandleRequests /\ looper.fd \in Fd
  BY <1>1, LooperFields DEF RInv, IInv
<1>3. files[looper.fd] = QosNode(r)
  BY <1>1 DEF RInv, IInv, Owned, LooperOwns, Is
<1>4. call[r] = "waiting" /\ ret[r] = Garbage
  BY <1>1, <1>2 DEF RInv, IInv, Frames, Unanswered
<1>5. ASSUME NEW c \in Fd, NEW s \in Fd, LowestUnused(c), c < s,
             files[s] = NoFile,
             files' = [files EXCEPT ![c] = ReadEnd(r), ![s] = WriteEnd(r)],
             looper' = AtListen(r, looper.fd, s, c)
      PROVE  Rest' /\ UNCHANGED <<phaseBar, leftBar, ownerBar>>
  <2>1. looper'.at = "listen"
    BY <1>5 DEF AtListen
  <2>2. \A g \in Fd :
           \/ files'[g] = files[g]
           \/ /\ files[g] = NoFile
              /\ files'[g] = ReadEnd(r) \/ files'[g] = WriteEnd(r)
    BY <1>5 DEF RInv, IInv, TypeOK, LowestUnused
  <2>3. Single' /\ \A q \in Requests : Held(q)' <=> Held(q)
    <3>1. \A q \in Requests : /\ QosNode(q) # NoFile
                              /\ QosNode(q) # ReadEnd(r)
                              /\ QosNode(q) # WriteEnd(r)
      BY FileNames
    <3>2. QED
      BY <2>2, <3>1, NodesStay DEF RInv, Rest, Nodes
  <2>4. \A q : Pending(q)' <=> Pending(q)
    BY <1>1, <2>1, QueueSeen
  <2>5. Rest'
    BY <1>1, <2>1, <2>3, <2>4, RestKept
  <2>6. \A q : Arming(q)' <=> Arming(q)
    BY <1>1, <2>1 DEF Arming
  <2>7. \A q, d : DueIn(q, d)' <=> DueIn(q, d)
    BY <1>1, QueueSeen
  <2>8. QED
    BY <1>1, <2>3, <2>4, <2>5, <2>6, <2>7, HiddenStep DEF RInv
<1>6. ASSUME files' = [files EXCEPT ![looper.fd] = NoFile],
             looper' = AtReply(r, Failed)
      PROVE  Rest' /\ Service!Release(r)
  <2>1. looper'.at = "reply" /\ looper'.val = Failed
    BY <1>6 DEF AtReply
  <2>2. LooperOn(r) /\ ~HasHandle(r)
    BY <1>1, <1>4 DEF LooperOn, HasHandle, Garbage
  <2>3. /\ Rest' /\ Service!Moves(r, "active", "over")
        /\ UNCHANGED <<leftBar, ownerBar>>
    BY <1>1, <1>2, <1>3, <1>6, <2>1, <2>2, CloseStep
  <2>4. ownerBar[r] # "has"
    BY <1>2, <1>4, OwnerValues DEF OwnerIs
  <2>5. QED
    BY <2>3, <2>4 DEF Service!Release
<1>7. QED
  BY <1>2, <1>5, <1>6 DEF MakePipe

LEMMA ListenStep ==
  ASSUME RInv, IInv', ListenForHandleToCloseFd
  PROVE  Rest' /\ UNCHANGED <<phaseBar, leftBar, ownerBar>>
<1> USE DEF Requests
<1> DEFINE r == looper.req
<1>1. /\ looper.at = "listen" /\ looper'.at = "reply" /\ looper'.req = r
      /\ UNCHANGED <<mQueuedEvents, mMessages, files, call, ret>>
  BY DEF ListenForHandleToCloseFd, AtReply, queue
<1>2. r \in HandleRequests /\ looper.fd \in Fd
  BY <1>1, LooperFields DEF RInv, IInv
<1>3. Held(r)
  BY <1>1, <1>2 DEF RInv, IInv, Owned, LooperOwns, Is, Held
<1> HIDE DEF r
<1>4. Single' /\ \A q \in Requests : Held(q)' <=> Held(q)
  BY <1>1, NodesStay DEF RInv, Rest, Nodes
<1>5. \A q : Pending(q)' <=> Pending(q)
  BY <1>1, QueueSeen
<1>6. Rest'
  BY <1>1, <1>3, <1>4, <1>5, RestKept
<1>7. \A q : Arming(q)' <=> Arming(q)
  BY <1>1 DEF Arming
<1>8. \A q, d : DueIn(q, d)' <=> DueIn(q, d)
  BY <1>1, QueueSeen
<1>9. QED
  BY <1>1, <1>4, <1>5, <1>6, <1>7, <1>8, HiddenStep DEF RInv

(* The handle is written into the frame of its caller, who does not have   *)
(* it before createPmQosHandle returns.                                    *)
LEMMA ReplyStep ==
  ASSUME RInv, IInv', Reply
  PROVE  Rest' /\ UNCHANGED <<phaseBar, leftBar, ownerBar>>
<1> USE DEF Requests
<1> DEFINE r == looper.req
<1>1. /\ looper.at = "reply" /\ looper'.at = "signal"
      /\ ret' = [ret EXCEPT ![r] = looper.val]
      /\ UNCHANGED <<mQueuedEvents, mMessages, files, call>>
  BY DEF Reply, AtSignal, queue
<1>2. r \in HandleRequests
  BY <1>1, LooperFields DEF RInv, IInv
<1>3. call[r] = "waiting"
  BY <1>1, <1>2 DEF RInv, IInv, Frames, Unanswered
<1>4. /\ ret'[r] = looper.val
      /\ \A q \in (HandleRequests \cup DirectRequests) \ {r} :
            ret'[q] = ret[q]
  BY <1>1, <1>2 DEF RInv, IInv, TypeOK
<1>5. looper.val # Failed => Held(r)
  BY <1>1, <1>2 DEF RInv, Rest, Backed
<1> HIDE DEF r
<1>6. Single' /\ \A q \in Requests : Held(q)' <=> Held(q)
  BY <1>1, NodesStay DEF RInv, Rest, Nodes
<1>7. \A q : Pending(q)' <=> Pending(q)
  BY <1>1, QueueSeen
<1>8. Nodes'
  BY <1>1, <1>6, <1>7 DEF RInv, Rest, Nodes
<1>9. ASSUME NEW q \in HandleRequests, HasHandle(q)' PROVE Held(q)
  <2>1. call[q] \in {"waiting", "returned"} /\ ret'[q] >= 0
    BY <1>1, <1>9 DEF HasHandle
  <2>2. CASE q # r
    <3>1. HasHandle(q)
      BY <1>4, <2>1, <2>2 DEF HasHandle
    <3>2. QED
      BY <3>1 DEF RInv, Rest, Backed
  <2>3. CASE q = r
    <3>1. looper.val # Failed
      BY <1>4, <2>1, <2>3 DEF Failed
    <3>2. QED
      BY <1>5, <2>3, <3>1
  <2>4. QED
    BY <2>2, <2>3
<1>10. Backed'
  BY <1>1, <1>6, <1>9 DEF Backed
<1>11. Closing'
  BY <1>1 DEF Closing
<1>12. \A q : Arming(q)' <=> Arming(q)
  BY <1>1 DEF Arming
<1>13. \A q, d : DueIn(q, d)' <=> DueIn(q, d)
  BY <1>1, QueueSeen
<1>14. \A q \in HandleRequests \cup DirectRequests :
          call[q] = "returned" => ret'[q] = ret[q]
  BY <1>3, <1>4
<1>15. UNCHANGED <<phaseBar, leftBar, ownerBar>>
  BY <1>1, <1>6, <1>7, <1>12, <1>13, <1>14, HiddenStep DEF RInv
<1>16. QED
  BY <1>8, <1>10, <1>11, <1>15 DEF Rest

LEMMA SignalStep ==
  ASSUME RInv, IInv', Signal
  PROVE  Rest' /\ UNCHANGED <<phaseBar, leftBar, ownerBar>>
<1> USE DEF Requests
<1>1. /\ looper.at = "signal" /\ looper'.at = "poll"
      /\ UNCHANGED <<mQueuedEvents, mMessages, files, call, ret>>
  BY DEF Signal, Poll, queue
<1>2. Single' /\ \A q \in Requests : Held(q)' <=> Held(q)
  BY <1>1, NodesStay DEF RInv, Rest, Nodes
<1>3. \A q : Pending(q)' <=> Pending(q)
  BY <1>1, QueueSeen
<1>4. Rest'
  BY <1>1, <1>2, <1>3, RestKept
<1>5. \A q : Arming(q)' <=> Arming(q)
  BY <1>1 DEF Arming
<1>6. \A q, d : DueIn(q, d)' <=> DueIn(q, d)
  BY <1>1, QueueSeen
<1>7. QED
  BY <1>1, <1>2, <1>3, <1>4, <1>5, <1>6, HiddenStep DEF RInv

(* A pipe only hangs up once nobody has its handle any more.               *)
LEMMA PipeCloseStep ==
  ASSUME RInv, IInv', PipeCloseCb
  PROVE  Rest' /\ UNCHANGED <<phaseBar, leftBar, ownerBar>>
<1> USE DEF Requests
<1>1. PICK w \in mRequests : /\ HungUp(w.handle)
                             /\ looper' = AtCloseHandle(w)
  BY DEF PipeCloseCb
<1>2. /\ looper.at = "poll" /\ looper'.at = "closeHandle"
      /\ looper'.req = w.req
      /\ UNCHANGED <<mQueuedEvents, mMessages, files, call, ret>>
  BY <1>1 DEF PipeCloseCb, Poll, AtCloseHandle, queue
<1>3. w.req \in HandleRequests /\ files[w.handle] = WriteEnd(w.req)
  BY Holders DEF RInv, IInv, Owned, WatchesOwn, Is
<1>4. \A c \in Fd : files[c] # ReadEnd(w.req)
  <2>1. PICK q \in HandleRequests : /\ files[w.handle] = WriteEnd(q)
                                    /\ \A c \in Fd : files[c] # ReadEnd(q)
    BY <1>1 DEF HungUp
  <2>2. q = w.req
    BY <1>3, <2>1, FileNames
  <2>3. QED
    BY <2>1, <2>2
<1>5. ~HasHandle(w.req)
  <2> SUFFICES ASSUME HasHandle(w.req) PROVE FALSE
    OBVIOUS
  <2>1. ret[w.req] \in Fd
    BY <1>3, Holders DEF RInv, IInv, HasHandle
  <2>2. files[ret[w.req]] = ReadEnd(w.req)
    BY <1>3 DEF RInv, IInv, Owned, ClientsOwn, Is, HasHandle
  <2>3. QED
    BY <1>4, <2>1, <2>2
<1>6. Single' /\ \A q \in Requests : Held(q)' <=> Held(q)
  BY <1>2, NodesStay DEF RInv, Rest, Nodes
<1>7. \A q : Pending(q)' <=> Pending(q)
  BY <1>2, QueueSeen
<1>8. Nodes'
  BY <1>2, <1>6, <1>7 DEF RInv, Rest, Nodes
<1>9. \A q : HasHandle(q)' <=> HasHandle(q)
  BY <1>2 DEF HasHandle
<1>10. Backed'
  BY <1>2, <1>6, <1>9 DEF RInv, Rest, Backed
<1>11. Closing'
  BY <1>2, <1>5 DEF Closing, HasHandle
<1>12. \A q : Arming(q)' <=> Arming(q)
  BY <1>2 DEF Arming
<1>13. \A q, d : DueIn(q, d)' <=> DueIn(q, d)
  BY <1>2, QueueSeen
<1>14. UNCHANGED <<phaseBar, leftBar, ownerBar>>
  BY <1>2, <1>6, <1>7, <1>12, <1>13, HiddenStep DEF RInv
<1>15. QED
  BY <1>8, <1>10, <1>11, <1>14 DEF Rest

LEMMA CloseHandleStep ==
  ASSUME RInv, IInv', CloseHandle
  PROVE  Rest' /\ UNCHANGED <<phaseBar, leftBar, ownerBar>>
<1> USE DEF Requests
<1> DEFINE h == looper.handle
<1>1. /\ looper.at = "closeHandle" /\ looper'.at = "closeFd"
      /\ looper'.req = looper.req
      /\ files' = [files EXCEPT ![h] = NoFile]
      /\ UNCHANGED <<mQueuedEvents, mMessages, call, ret>>
  BY DEF CloseHandle, AtCloseFd, queue
<1>2. h \in Fd /\ looper.req \in HandleRequests
  BY <1>1, LooperFields DEF RInv, IInv
<1>3. files[h] = WriteEnd(looper.req)
  BY <1>1 DEF RInv, IInv, Owned, LooperOwns, Is
<1>4. /\ files'[h] = NoFile
      /\ \A f \in Fd \ {h} : files'[f] = files[f]
  BY <1>1, <1>2 DEF RInv, IInv, TypeOK
<1>5. \A q \in Requests : files[h] # QosNode(q) /\ NoFile # QosNode(q)
  BY <1>3, FileNames
<1> HIDE DEF h
<1>6. Single' /\ \A q \in Requests : Held(q)' <=> Held(q)
  BY <1>4, <1>5, NodesStay DEF RInv, Rest, Nodes
<1>7. \A q : Pending(q)' <=> Pending(q)
  BY <1>1, QueueSeen
<1>8. Rest'
  BY <1>1, <1>6, <1>7, RestKept
<1>9. \A q : Arming(q)' <=> Arming(q)
  BY <1>1 DEF Arming
<1>10. \A q, d : DueIn(q, d)' <=> DueIn(q, d)
  BY <1>1, QueueSeen
<1>11. QED
  BY <1>1, <1>6, <1>7, <1>8, <1>9, <1>10, HiddenStep DEF RInv

LEMMA CloseFdStep ==
  ASSUME RInv, IInv', CloseFd
  PROVE  Rest' /\ \E r \in HandleRequests : Service!Release(r)
<1> USE DEF Requests
<1> DEFINE r == looper.req
<1>1. /\ looper.at = "closeFd" /\ looper'.at = "poll"
      /\ files' = [files EXCEPT ![looper.fd] = NoFile]
      /\ UNCHANGED <<mQueuedEvents, mMessages, mRequests, call, ret>>
  BY DEF CloseFd, Poll, queue
<1>2. r \in HandleRequests /\ looper.fd \in Fd
  BY <1>1, LooperFields DEF RInv, IInv
<1>3. files[looper.fd] = QosNode(r)
  BY <1>1 DEF RInv, IInv, Owned, LooperOwns, Is
<1>4. LooperOn(r) /\ ~HasHandle(r)
  BY <1>1 DEF LooperOn, RInv, Rest, Closing
<1>5. /\ Rest' /\ Service!Moves(r, "active", "over")
      /\ UNCHANGED <<leftBar, ownerBar>>
  BY <1>1, <1>2, <1>3, <1>4, CloseStep
<1>6. ownerBar[r] # "has"
  BY <1>2, <1>4, OwnerValues DEF OwnerIs, HasHandle
<1>7. QED
  BY <1>2, <1>5, <1>6 DEF Service!Release

-----------------------------------------------------------------------------
(* Time, and the theorem.                                                  *)

LEMMA LeftTypes == IInv => \A r \in TimedRequests : leftBar[r] \in Nat
<1> SUFFICES ASSUME IInv, NEW r \in TimedRequests PROVE leftBar[r] \in Nat
  OBVIOUS
<1>1. LeftIs
  BY LeftValues
<1>2. \A d : DueIn(r, d) => d \in Nat
  <2>1. \A j \in 1 .. Len(mMessages) : mMessages[j] \in Message
    BY DEF IInv, TypeOK
  <2>2. \A j \in 1 .. Len(mMessages) : mMessages[j].due \in Nat
    BY <2>1 DEF Message
  <2>3. QED
    BY <2>2 DEF DueIn
<1>3. CASE Arming(r)
  BY <1>1, <1>3, TimeoutAssumption DEF LeftIs
<1>4. CASE ~Arming(r) /\ \E d : DueIn(r, d)
  BY <1>1, <1>2, <1>4 DEF LeftIs
<1>5. CASE ~Arming(r) /\ \A d : ~DueIn(r, d)
  BY <1>1, <1>5 DEF LeftIs
<1>6. QED
  BY <1>3, <1>4, <1>5

(* A unit of uptime counts for the armed timeouts only.                    *)
LEMMA TickStep ==
  ASSUME RInv, IInv', Tick
  PROVE  /\ Rest'
         /\ UNCHANGED <<phaseBar, ownerBar>>
         /\ leftBar' \in [TimedRequests -> Nat]
         /\ \A r \in TimedRequests :
               leftBar'[r] = leftBar[r] \/ leftBar'[r] = leftBar[r] - 1
<1> USE DEF Requests
<1>1. UNCHANGED <<mQueuedEvents, looper, files, call, ret>>
  BY DEF Tick
<1>2. \A r : Pending(r)' <=> Pending(r)
  BY <1>1 DEF Pending
<1>3. Single' /\ \A r \in Requests : Held(r)' <=> Held(r)
  BY <1>1, NodesStay DEF RInv, Rest, Nodes
<1>4. Rest'
  <2>1. Nodes'
    BY <1>1, <1>2, <1>3 DEF RInv, Rest, Nodes
  <2>2. \A r : HasHandle(r)' <=> HasHandle(r)
    BY <1>1 DEF HasHandle
  <2>3. Backed'
    BY <1>1, <1>3, <2>2 DEF RInv, Rest, Backed
  <2>4. Closing'
    BY <1>1, <2>2 DEF RInv, Rest, Closing
  <2>5. QED
    BY <2>1, <2>3, <2>4 DEF Rest
<1>5. UNCHANGED phaseBar
  <2>1. \A r \in Requests : SamePhase(r)
    BY <1>1, <1>2, <1>3 DEF SamePhase
  <2>2. QED
    BY <2>1, PhaseKept
<1>6. UNCHANGED ownerBar
  <2>1. \A r \in HandleRequests \cup DirectRequests :
           ownerBar'[r] = ownerBar[r]
    BY <1>1, OwnerValues, NextValues DEF OwnerIs
  <2>2. QED
    BY <2>1, OwnerKept
<1>7. LeftIs /\ LeftIs'
  <2>1. (IInv => LeftIs)'
    BY LeftValues, PTL
  <2>2. QED
    BY <2>1, LeftValues DEF RInv
<1>8. \A r \in TimedRequests : leftBar[r] \in Nat /\ leftBar'[r] \in Nat
  <2>1. (IInv => \A r \in TimedRequests : leftBar[r] \in Nat)'
    BY LeftTypes, PTL
  <2>2. QED
    BY <2>1, LeftTypes DEF RInv
<1> DEFINE q == mMessages
           t == mMessages'
<1>9. /\ Len(t) = Len(q)
      /\ \A j \in 1 .. Len(q) :
            /\ q[j].due \in Nat
            /\ t[j].what = q[j].what
            /\ t[j].due = IF q[j].due = 0 THEN 0 ELSE q[j].due - 1
  BY ElapsedProperties DEF Tick, RInv, IInv, TypeOK
<1> HIDE DEF q, t
<1>10. \A r, d : DueIn(r, d) <=>
           \E j \in 1 .. Len(q) :
              /\ mQueuedEvents[q[j].what].type = "timeout"
              /\ mQueuedEvents[q[j].what].req = r
              /\ q[j].due = d
  BY DEF DueIn, q
<1>11. \A r, d : DueIn(r, d)' <=>
           \E j \in 1 .. Len(t) :
              /\ mQueuedEvents[t[j].what].type = "timeout"
              /\ mQueuedEvents[t[j].what].req = r
              /\ t[j].due = d
  BY <1>1 DEF DueIn, t
<1>12. ASSUME NEW r, NEW d, DueIn(r, d)
       PROVE  DueIn(r, IF d = 0 THEN 0 ELSE d - 1)'
  <2>1. PICK j \in 1 .. Len(q) :
              /\ mQueuedEvents[q[j].what].type = "timeout"
              /\ mQueuedEvents[q[j].what].req = r
              /\ q[j].due = d
    BY <1>10, <1>12
  <2>2. /\ j \in 1 .. Len(t) /\ t[j].what = q[j].what
        /\ t[j].due = IF d = 0 THEN 0 ELSE d - 1
    BY <1>9, <2>1
  <2>3. QED
    BY <1>11, <2>1, <2>2
<1>13. ASSUME NEW r, \A d : ~DueIn(r, d) PROVE \A d : ~DueIn(r, d)'
  BY <1>9, <1>10, <1>11, <1>13
<1>14. ASSUME NEW r \in TimedRequests
       PROVE  leftBar'[r] = leftBar[r] \/ leftBar'[r] = leftBar[r] - 1
  <2>1. Arming(r)' <=> Arming(r)
    BY <1>1 DEF Arming
  <2>2. CASE Arming(r)
    BY <1>7, <2>1, <2>2 DEF LeftIs
  <2>3. CASE ~Arming(r) /\ \A d : ~DueIn(r, d)
    BY <1>7, <1>13, <2>1, <2>3 DEF LeftIs
  <2>4. CASE ~Arming(r) /\ \E d : DueIn(r, d)
    <3>1. PICK d : DueIn(r, d)
      BY <2>4
    <3>2. leftBar[r] = d
      BY <1>7, <2>4, <3>1 DEF LeftIs
    <3> DEFINE n == IF d = 0 THEN 0 ELSE d - 1
    <3>3. DueIn(r, n)'
      BY <1>12, <3>1
    <3> HIDE DEF n
    <3>4. leftBar'[r] = n
      BY <1>7, <2>1, <2>4, <3>3 DEF LeftIs
    <3>5. QED
      BY <3>2, <3>4 DEF n
  <2>5. QED
    BY <2>2, <2>3, <2>4
<1>15. leftBar' \in [TimedRequests -> Nat]
  BY <1>8 DEF leftBar
<1>16. QED
  BY <1>4, <1>5, <1>6, <1>14, <1>15

LEMMA InitRest == Init => Rest
<1> SUFFICES ASSUME Init PROVE Rest
  OBVIOUS
<1> USE DEF Requests
<1>1. \A f \in Fd : files[f] = NoFile
  BY DEF Init
<1>2. \A r \in Requests : QosNode(r) # NoFile
  BY FileNames
<1>3. Nodes
  BY <1>1, <1>2 DEF Nodes, Single, Held
<1>4. \A r \in HandleRequests : ~HasHandle(r)
  BY DEF Init, HasHandle
<1>5. Backed /\ Closing
  BY <1>4 DEF Init, Backed, Closing, Poll
<1>6. QED
  BY <1>3, <1>5 DEF Rest

LEMMA InitMaps == TimedInit => Service!Init
<1> SUFFICES ASSUME TimedInit PROVE Service!Init
  OBVIOUS
<1> USE DEF Requests
<1>1. Init /\ beat = 0
  BY DEF TimedInit
<1>2. Rest /\ IInv
  BY <1>1, InitRest, InitTypes, InitOwned DEF IInv
<1>3. \A r \in Requests : call[r] = "idle"
  BY <1>1 DEF Init
<1>4. \A r \in Requests : phaseBar[r] = "idle"
  BY <1>2, <1>3, PhaseValues DEF PhaseIs, Rest, Nodes
<1>5. phaseBar = [r \in Requests |-> phaseBar[r]]
  BY DEF phaseBar
<1>6. \A r \in HandleRequests \cup DirectRequests : ownerBar[r] = "none"
  BY <1>3, OwnerValues DEF OwnerIs
<1>7. ownerBar = [r \in HandleRequests \cup DirectRequests |-> ownerBar[r]]
  BY DEF ownerBar
<1>8. \A r \in TimedRequests : leftBar[r] = 0
  <2>1. \A r, d : ~DueIn(r, d)
    BY <1>1 DEF Init, DueIn
  <2>2. \A r : ~Arming(r)
    BY <1>1 DEF Init, Arming, Poll
  <2>3. LeftIs
    BY <1>2, LeftValues
  <2>4. QED
    BY <2>1, <2>2, <2>3 DEF LeftIs
<1>9. leftBar = [r \in TimedRequests |-> leftBar[r]]
  BY DEF leftBar
<1>10. /\ phaseBar = [r \in Requests |-> "idle"]
       /\ leftBar = [r \in TimedRequests |-> 0]
       /\ ownerBar = [r \in HandleRequests \cup DirectRequests |-> "none"]
  BY <1>4, <1>5, <1>6, <1>7, <1>8, <1>9
<1>11. QED
  BY <1>1, <1>10 DEF Service!Init, Service!Requests, Service!Owned

(* Every step of the callers and of the Looper thread is a step of the     *)
(* service or one it does not see.                                         *)
LEMMA ServeStep ==
  ASSUME RInv, IInv', Callers \/ LooperThread
  PROVE  /\ Rest'
         /\ Service!Serve \/ UNCHANGED <<phaseBar, leftBar, ownerBar>>
<1>1. ASSUME NEW r \in TimedRequests, RequestPmQosTimed(r)
      PROVE  Rest' /\ Service!Serve
  <2>1. /\ TimedEvent(r) \in Events /\ IsRequestEvent(TimedEvent(r))
        /\ TimedEvent(r).req = r
    BY DEF TimedEvent, Events, IsRequestEvent
  <2>2. Rest' /\ Service!Ask(r)
    BY <1>1, <2>1, AskStep DEF RequestPmQosTimed
  <2>3. QED
    BY <2>2 DEF Service!Serve
<1>2. ASSUME NEW r \in HandleRequests, CreatePmQosHandle(r)
      PROVE  Rest' /\ Service!Serve
  <2>1. /\ HandleEvent(r) \in Events /\ IsRequestEvent(HandleEvent(r))
        /\ HandleEvent(r).req = r
    BY DEF HandleEvent, Events, IsRequestEvent
  <2>2. Rest' /\ Service!Ask(r)
    BY <1>2, <2>1, AskStep DEF CreatePmQosHandle
  <2>3. QED
    BY <2>2 DEF Service!Serve
<1>3. ASSUME NEW r \in HandleRequests, WaitReturns(r)
      PROVE  /\ Rest'
             /\ Service!Serve \/ UNCHANGED <<phaseBar, leftBar, ownerBar>>
  BY <1>3, WaitReturnsStep DEF Service!Serve
<1>4. ASSUME NEW r \in DirectRequests, RequestPmQos(r)
      PROVE  Rest' /\ Service!Serve
  BY <1>4, RequestPmQosStep DEF Service!Serve
<1>5. ASSUME NEW r \in HandleRequests \cup DirectRequests, ClientClose(r)
      PROVE  Rest' /\ Service!Serve
  BY <1>5, ClientCloseStep DEF Service!Serve
<1>6. CASE Receive \/ RemoveEventByKey \/ ArmTimeout
  BY <1>6, ReceiveStep, RemoveStep, ArmStep
<1>7. CASE OpenPmQosNode
  <2>1. PICK r : /\ Rest'
                 /\ \/ /\ r \in TimedRequests
                       /\ Service!Refuse(r) \/ Service!GrantTimed(r)
                    \/ /\ r \in HandleRequests
                       /\ Service!Refuse(r) \/ Service!GrantHandle(r)
    BY <1>7, OpenStep
  <2>2. QED
    BY <2>1 DEF Service!Serve
<1>8. CASE TimeoutRequest
  BY <1>8, ExpireStep DEF Service!Serve
<1>9. CASE MakePipe
  BY <1>9, PipeStep DEF Service!Serve
<1>10. CASE ListenForHandleToCloseFd \/ Reply \/ Signal
  BY <1>10, ListenStep, ReplyStep, SignalStep
<1>11. CASE PipeCloseCb \/ CloseHandle
  BY <1>11, PipeCloseStep, CloseHandleStep
<1>12. CASE CloseFd
  BY <1>12, CloseFdStep DEF Service!Serve
<1>13. QED
  BY <1>1, <1>2, <1>3, <1>4, <1>5, <1>6, <1>7, <1>8, <1>9, <1>10, <1>11,
     <1>12 DEF Callers, LooperThread

(* The service keeps the promise of PmQosService: no timed constraint ends *)
(* before its timeout has passed since it was granted, a handle that was   *)
(* handed out has its constraint behind it until its owner closes it, and  *)
(* a refused request never takes effect, whatever fails and in whatever    *)
(* order the threads run (timeoutpoker.cpp:17-283).                        *)
THEOREM ImplementsService == TimedSpec => ServiceSpec
<1>1. TimedInit => RInv
  BY InitRest, InitTypes, InitOwned DEF TimedInit, RInv, IInv
<1>2. TimedInit => Service!Init
  BY InitMaps
<1>3. ASSUME RInv, [TimedNext]_<<vars, beat>>
      PROVE  RInv' /\ [Service!Next]_(Service!vars)
  <2>1. [Next]_vars
    BY <1>3 DEF TimedNext, Next
  <2>2. IInv'
    BY <1>3, <2>1, NextTypes, NextEvents, NextTokens, NextFrames, NextOwned
       DEF RInv, IInv
  <2>3. CASE (Callers \/ LooperThread) /\ UNCHANGED beat
    <3>1. /\ Rest'
          /\ Service!Serve \/ UNCHANGED <<phaseBar, leftBar, ownerBar>>
      BY <1>3, <2>2, <2>3, ServeStep
    <3>2. QED
      BY <2>2, <2>3, <3>1 DEF RInv, Service!Next, Service!vars
  <2>4. CASE Tick /\ beat' = 1 - beat
    <3>1. /\ Rest'
          /\ UNCHANGED <<phaseBar, ownerBar>>
          /\ leftBar' \in [TimedRequests -> Nat]
          /\ \A r \in TimedRequests :
                leftBar'[r] = leftBar[r] \/ leftBar'[r] = leftBar[r] - 1
      BY <1>3, <2>2, <2>4, TickStep
    <3>2. Service!Tick
      BY <2>4, <3>1 DEF Service!Tick
    <3>3. QED
      BY <2>2, <3>1, <3>2 DEF RInv, Service!Next
  <2>5. CASE UNCHANGED <<vars, beat>>
    <3>1. UNCHANGED <<phaseBar, leftBar, ownerBar>>
      BY <2>5 DEF vars, queue, phaseBar, leftBar, ownerBar, Held, Pending,
                  TimeoutMessages
    <3>2. Rest'
      BY <1>3, <2>5 DEF vars, queue, RInv, Rest, Nodes, Single, Backed,
                        Closing, Held, Pending, HasHandle
    <3>3. QED
      BY <2>2, <2>5, <3>1, <3>2 DEF RInv, Service!vars
  <2>6. QED
    BY <1>3, <2>3, <2>4, <2>5 DEF TimedNext
<1>4. QED
  BY <1>1, <1>2, <1>3, PTL DEF TimedSpec, ServiceSpec, Service!Spec
=============================================================================

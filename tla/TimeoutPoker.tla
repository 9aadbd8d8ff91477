---------------------------- MODULE TimeoutPoker ----------------------------
(***************************************************************************)
(* power/timeoutpoker.{h,cpp}: the service through which the power HAL     *)
(* holds PM QoS constraints.  A constraint lasts as long as a descriptor   *)
(* of its /dev node stays open.  Binder threads call                       *)
(*   - requestPmQosTimed: the Looper thread opens the node and closes it   *)
(*     again when a delayed TimeoutEvent is delivered;                     *)
(*   - createPmQosHandle: the Looper thread opens the node and a pipe; the *)
(*     caller blocks on a Barrier until it has been handed the read end,   *)
(*     and the node is closed once the Looper sees the pipe hang up;       *)
(*   - requestPmQos: the caller opens the node itself and closes it.       *)
(*                                                                         *)
(* Every critical section of mEvLock (sendEventDelayed, removeEventByKey)  *)
(* is one action; every system call of the Looper thread, every write      *)
(* through outFd and every Barrier::open is one action of its own, so      *)
(* that callers and clients may run between any two of them.  The Barrier  *)
(* itself is module Barrier; here it is a flag.                            *)
(*                                                                         *)
(* A request is one call by a thread of its own (Binder serves any number  *)
(* of calls at once) and is made at most once: a repeated call is another  *)
(* request.  The file and the value written are left out, as is whether a  *)
(* request uses the priority interface: the control is the same.           *)
(***************************************************************************)
EXTENDS Integers, Sequences, LooperQueue, KeyedVector

CONSTANTS
    TimedRequests,   \* calls of requestPmQosTimed
    HandleRequests,  \* calls of createPmQosHandle
    DirectRequests,  \* calls of requestPmQos
    Timeout,         \* the timeout each timed request asks for
    MaxFd,           \* descriptors this process may have (RLIMIT_NOFILE)
    NoFile,          \* what an unused descriptor number refers to
    ListenMayFail    \* whether Looper::addFd can fail

Requests == TimedRequests \cup HandleRequests \cup DirectRequests
Fd == 0 .. MaxFd - 1

(* What a descriptor refers to: the node opened for a request, or an end   *)
(* of the pipe made for a handle request.                                  *)
QosNode(r)  == [end |-> "qos",   req |-> r]
ReadEnd(r)  == [end |-> "read",  req |-> r]
WriteEnd(r) == [end |-> "write", req |-> r]
Files == [end : {"qos", "read", "write"}, req : Requests]

ASSUME RequestsAssumption ==
    /\ TimedRequests \cap HandleRequests = {}
    /\ TimedRequests \cap DirectRequests = {}
    /\ HandleRequests \cap DirectRequests = {}
ASSUME TimeoutAssumption == Timeout \in [TimedRequests -> Nat]
ASSUME FdAssumption == MaxFd \in Nat /\ NoFile \notin Files
ASSUME ListenAssumption == ListenMayFail \in BOOLEAN

Failed  == -1     \* what open, pipe and the handle interface report
Garbage == -2     \* `int ret;' of createPmQosHandle before it is written

(* QueuedEvent and its three subclasses.  TimeoutEvent keeps only pmQosFd; *)
(* its req names, for the properties, the request the fd was opened for.   *)
TimedEvent(r)      == [type |-> "timed",   req |-> r, fd |-> Failed]
HandleEvent(r)     == [type |-> "handle",  req |-> r, fd |-> Failed]
TimeoutEvent(r, f) == [type |-> "timeout", req |-> r, fd |-> f]
Events ==
    [type : {"timed"}, req : TimedRequests, fd : {Failed}]
        \cup [type : {"handle"}, req : HandleRequests, fd : {Failed}]
        \cup [type : {"timeout"}, req : TimedRequests, fd : Fd]

VARIABLES
    mKey,            \* the next event key
    mQueuedEvents,   \* key -> event (a KeyedVector)
    mMessages,       \* the Looper's message queue
    mRequests,       \* the pipe ends the Looper watches, with their context
    looper,          \* where the Looper thread is, with its live locals
    files,           \* what each descriptor refers to
    call,            \* how far each request's caller is
    done,            \* the Barrier of each handle request
    ret              \* what each caller has been, or will be, returned

queue == <<mKey, mQueuedEvents, mMessages>>
vars == <<queue, mRequests, looper, files, call, done, ret>>

(* Where the Looper thread can be.  "poll" is Looper::pollAll.             *)
Poll            == [at |-> "poll"]
AtRemove(k)     == [at |-> "remove", key |-> k]
AtRun(e)        == [at |-> "run", ev |-> e]
AtArm(r, f)     == [at |-> "arm", req |-> r, fd |-> f]
AtPipe(r, f)    == [at |-> "pipe", req |-> r, fd |-> f]
AtListen(r, f, s, c) ==
    [at |-> "listen", req |-> r, fd |-> f, server |-> s, client |-> c]
AtReply(r, v)   == [at |-> "reply", req |-> r, val |-> v]
AtSignal(r)     == [at |-> "signal", req |-> r]
AtCloseHandle(w) ==
    [at |-> "closeHandle", req |-> w.req, handle |-> w.handle, fd |-> w.fd]
AtCloseFd(r, f) == [at |-> "closeFd", req |-> r, fd |-> f]

(* A watched pipe end: the Request of Looper with its CallbackContext.     *)
Watch == [handle : Fd, fd : Fd, req : HandleRequests]

Init ==
    /\ mKey = 0
    /\ mQueuedEvents = EmptyVector
    /\ mMessages = << >>
    /\ mRequests = {}
    /\ looper = Poll
    /\ files = [f \in Fd |-> NoFile]
    /\ call = [r \in Requests |-> "idle"]
    /\ done = [r \in HandleRequests |-> "CLOSED"]
    /\ ret = [r \in HandleRequests \cup DirectRequests |-> Garbage]

-----------------------------------------------------------------------------
(* The kernel hands out the lowest unused number (open, pipe).             *)
LowestUnused(f) ==
    /\ files[f] = NoFile
    /\ \A g \in Fd : g < f => files[g] # NoFile

(* Mutants stand before the operation they break and are named for the     *)
(* bug.  No specification uses them: they show that the properties notice. *)

PreIncremented == mKey + 1      \* mutant of GeneratedKey

(* generateNewKey: `mKey++'. *)
GeneratedKey == mKey

(* sendEventDelayed, all of it under mEvLock. *)
SendEventDelayed(delay, e) ==
    LET m == [what |-> GeneratedKey, due |-> delay]
    IN  /\ mKey' = mKey + 1
        /\ mQueuedEvents' = Added(mQueuedEvents, GeneratedKey, e)
        /\ \E i \in 1 .. Len(mMessages) + 1 :
              /\ IsPlaceFor(mMessages, i, m)
              /\ mMessages' = Placed(mMessages, i, m)

-----------------------------------------------------------------------------
(* The callers. *)

RequestPmQosLater(r) ==         \* mutant of RequestPmQosTimed
    /\ call[r] = "idle"
    /\ SendEventDelayed(Timeout[r], TimedEvent(r))
    /\ call' = [call EXCEPT ![r] = "returned"]
    /\ UNCHANGED <<mRequests, looper, files, done, ret>>

RequestPmQosTimed(r) ==
    /\ call[r] = "idle"
    /\ SendEventDelayed(0, TimedEvent(r))
    /\ call' = [call EXCEPT ![r] = "returned"]
    /\ UNCHANGED <<mRequests, looper, files, done, ret>>

(* createPmQosHandle up to done.wait() ... *)
CreatePmQosHandle(r) ==
    /\ call[r] = "idle"
    /\ SendEventDelayed(0, HandleEvent(r))
    /\ call' = [call EXCEPT ![r] = "waiting"]
    /\ UNCHANGED <<mRequests, looper, files, done, ret>>

(* ... and from there to `return ret'. *)
WaitReturns(r) ==
    /\ call[r] = "waiting"
    /\ done[r] = "OPENED"
    /\ call' = [call EXCEPT ![r] = "returned"]
    /\ UNCHANGED <<queue, mRequests, looper, files, done, ret>>

RequestPmQos(r) ==
    /\ call[r] = "idle"
    /\ call' = [call EXCEPT ![r] = "returned"]
    /\ \/ /\ ret' = [ret EXCEPT ![r] = Failed]
          /\ UNCHANGED files
       \/ \E f \in Fd :
            /\ LowestUnused(f)
            /\ files' = [files EXCEPT ![f] = QosNode(r)]
            /\ ret' = [ret EXCEPT ![r] = f]
    /\ UNCHANGED <<queue, mRequests, looper, done>>

(* The owner of a handle, or of a direct descriptor, closes it. *)
ClientClose(r) ==
    /\ call[r] = "returned"
    /\ ret[r] >= 0
    /\ files' = [files EXCEPT ![ret[r]] = NoFile]
    /\ call' = [call EXCEPT ![r] = "closed"]
    /\ UNCHANGED <<queue, mRequests, looper, done, ret>>

-----------------------------------------------------------------------------
(* The Looper thread: delivery of a message. *)

(* Looper takes the first message that is due and calls handleMessage. *)
Receive ==
    /\ looper = Poll
    /\ IsDue(mMessages)
    /\ looper' = AtRemove(Head(mMessages).what)
    /\ mMessages' = Tail(mMessages)
    /\ UNCHANGED <<mKey, mQueuedEvents, mRequests, files, call, done, ret>>

LookUpEventByKey ==             \* mutant of RemoveEventByKey
    /\ looper.at = "remove"
    /\ looper' = AtRun(mQueuedEvents[looper.key])
    /\ UNCHANGED <<queue, mRequests, files, call, done, ret>>

(* handleMessage's call of removeEventByKey.  valueFor aborts the process  *)
(* on a key that is not there: see EventForEveryMessage.                   *)
RemoveEventByKey ==
    /\ looper.at = "remove"
    /\ looper' = AtRun(mQueuedEvents[looper.key])
    /\ mQueuedEvents' = Removed(mQueuedEvents, looper.key)
    /\ UNCHANGED <<mKey, mMessages, mRequests, files, call, done, ret>>

NoResult(e) == IF e.type = "timed" THEN Poll ELSE AtSignal(e.req)
NoSignal(e) == Poll             \* mutants of AfterFailedOpen

(* Where openPmQosTimed and createHandleForPmQosRequest go on. *)
AfterOpen(e, f) ==
    IF e.type = "timed" THEN AtArm(e.req, f) ELSE AtPipe(e.req, f)
AfterFailedOpen(e) ==
    IF e.type = "timed" THEN Poll ELSE AtReply(e.req, Failed)

(* openPmQosNode for the event being run. *)
OpenPmQosNode ==
    /\ looper.at = "run"
    /\ looper.ev.type \in {"timed", "handle"}
    /\ \/ \E f \in Fd :
            /\ LowestUnused(f)
            /\ files' = [files EXCEPT ![f] = QosNode(looper.ev.req)]
            /\ looper' = AfterOpen(looper.ev, f)
       \/ /\ looper' = AfterFailedOpen(looper.ev)
          /\ UNCHANGED files
    /\ UNCHANGED <<queue, mRequests, call, done, ret>>

ArmEarly ==                     \* mutants of ArmTimeout
    /\ looper.at = "arm"
    /\ SendEventDelayed(Timeout[looper.req] - 1,
                        TimeoutEvent(looper.req, looper.fd))
    /\ looper' = Poll
    /\ UNCHANGED <<mRequests, files, call, done, ret>>

ArmNever ==
    /\ looper.at = "arm"
    /\ looper' = Poll
    /\ UNCHANGED <<queue, mRequests, files, call, done, ret>>

(* openPmQosTimed, once the node is open. *)
ArmTimeout ==
    /\ looper.at = "arm"
    /\ SendEventDelayed(Timeout[looper.req],
                        TimeoutEvent(looper.req, looper.fd))
    /\ looper' = Poll
    /\ UNCHANGED <<mRequests, files, call, done, ret>>

(* TimeoutEvent::run. *)
TimeoutRequest ==
    /\ looper.at = "run"
    /\ looper.ev.type = "timeout"
    /\ files' = [files EXCEPT ![looper.ev.fd] = NoFile]
    /\ looper' = Poll
    /\ UNCHANGED <<queue, mRequests, call, done, ret>>

MakePipeOrLeak ==               \* mutant of MakePipe, without close(fd)
    /\ looper.at = "pipe"
    /\ looper' = AtReply(looper.req, Failed)
    /\ UNCHANGED <<queue, mRequests, files, call, done, ret>>

(* createHandleForFd: pipe(), whose failure gives the node back. *)
MakePipe ==
    /\ looper.at = "pipe"
    /\ \/ \E c, s \in Fd :
            /\ LowestUnused(c)
            /\ c < s /\ files[s] = NoFile
            /\ \A g \in c + 1 .. s - 1 : files[g] # NoFile
            /\ files' = [files EXCEPT ![c] = ReadEnd(looper.req),
                                      ![s] = WriteEnd(looper.req)]
            /\ looper' = AtListen(looper.req, looper.fd, s, c)
       \/ /\ files' = [files EXCEPT ![looper.fd] = NoFile]
          /\ looper' = AtReply(looper.req, Failed)
    /\ UNCHANGED <<queue, mRequests, call, done, ret>>

(* listenForHandleToCloseFd.  The caller tests `res', which still holds    *)
(* pipe's 0, so the read end is the result whether or not addFd worked.    *)
ListenForHandleToCloseFd ==
    /\ looper.at = "listen"
    /\ looper' = AtReply(looper.req, looper.client)
    /\ \/ mRequests' = {w \in mRequests : w.handle # looper.server}
              \cup {[handle |-> looper.server, fd |-> looper.fd,
                     req |-> looper.req]}
       \/ ListenMayFail /\ UNCHANGED mRequests
    /\ UNCHANGED <<queue, files, call, done, ret>>

ReplyAndSignal ==               \* mutant of Reply: opens the barrier too
    /\ looper.at = "reply"
    /\ ret' = [ret EXCEPT ![looper.req] = looper.val]
    /\ done' = [done EXCEPT ![looper.req] = "OPENED"]
    /\ looper' = AtSignal(looper.req)
    /\ UNCHANGED <<queue, mRequests, files, call>>

(* PmQosOpenHandleEvent::run writes the result into the caller's frame ... *)
Reply ==
    /\ looper.at = "reply"
    /\ ret' = [ret EXCEPT ![looper.req] = looper.val]
    /\ looper' = AtSignal(looper.req)
    /\ UNCHANGED <<queue, mRequests, files, call, done>>

(* ... and then opens the caller's barrier. *)
Signal ==
    /\ looper.at = "signal"
    /\ done' = [done EXCEPT ![looper.req] = "OPENED"]
    /\ looper' = Poll
    /\ UNCHANGED <<queue, mRequests, files, call, ret>>

-----------------------------------------------------------------------------
(* The Looper thread: pipeCloseCb. *)

(* epoll reports an error on a write end that has no reader left. *)
HungUp(f) ==
    \E r \in HandleRequests :
        /\ files[f] = WriteEnd(r)
        /\ \A c \in Fd : files[c] # ReadEnd(r)

PipeCloseNoRemove ==            \* mutant of PipeCloseCb, without removeFd
    /\ looper = Poll
    /\ \E w \in mRequests : HungUp(w.handle) /\ looper' = AtCloseHandle(w)
    /\ UNCHANGED <<queue, mRequests, files, call, done, ret>>

PipeCloseCb ==
    /\ looper = Poll
    /\ \E w \in mRequests :
          /\ HungUp(w.handle)
          /\ mRequests' = mRequests \ {w}
          /\ looper' = AtCloseHandle(w)
    /\ UNCHANGED <<queue, files, call, done, ret>>

CloseHandleOnly ==              \* mutant of CloseHandle: keeps ctx->fd
    /\ looper.at = "closeHandle"
    /\ files' = [files EXCEPT ![looper.handle] = NoFile]
    /\ looper' = Poll
    /\ UNCHANGED <<queue, mRequests, call, done, ret>>

CloseHandle ==
    /\ looper.at = "closeHandle"
    /\ files' = [files EXCEPT ![looper.handle] = NoFile]
    /\ looper' = AtCloseFd(looper.req, looper.fd)
    /\ UNCHANGED <<queue, mRequests, call, done, ret>>

CloseFd ==
    /\ looper.at = "closeFd"
    /\ files' = [files EXCEPT ![looper.fd] = NoFile]
    /\ looper' = Poll
    /\ UNCHANGED <<queue, mRequests, call, done, ret>>

-----------------------------------------------------------------------------
(* Uptime.  It also passes while the Looper thread is busy. *)
Tick ==
    /\ SomeTimerRuns(mMessages)
    /\ mMessages' = Elapsed(mMessages)
    /\ UNCHANGED <<mKey, mQueuedEvents, mRequests, looper, files, call, done,
                   ret>>

Callers ==
    \/ \E r \in TimedRequests : RequestPmQosTimed(r)
    \/ \E r \in HandleRequests : CreatePmQosHandle(r) \/ WaitReturns(r)
    \/ \E r \in DirectRequests : RequestPmQos(r)
    \/ \E r \in HandleRequests \cup DirectRequests : ClientClose(r)

LooperThread ==
    \/ Receive \/ RemoveEventByKey
    \/ OpenPmQosNode \/ ArmTimeout \/ TimeoutRequest
    \/ MakePipe \/ ListenForHandleToCloseFd \/ Reply \/ Signal
    \/ PipeCloseCb \/ CloseHandle \/ CloseFd

Next == Callers \/ LooperThread \/ Tick

(* Time passes, the Looper thread is scheduled, and a thread whose barrier *)
(* is open gets to run.  Nobody has to make a request or to close one.     *)
Fairness ==
    /\ WF_vars(Tick)
    /\ WF_vars(LooperThread)
    /\ \A r \in HandleRequests : WF_vars(WaitReturns(r))

Spec == Init /\ [][Next]_vars /\ Fairness
-----------------------------------------------------------------------------
(* Properties. *)

LooperStates ==
    {Poll}
      \cup [at : {"remove"}, key : Nat]
      \cup [at : {"run"}, ev : Events]
      \cup [at : {"arm"}, req : TimedRequests, fd : Fd]
      \cup [at : {"pipe"}, req : HandleRequests, fd : Fd]
      \cup [at : {"listen"}, req : HandleRequests, fd : Fd, server : Fd,
            client : Fd]
      \cup [at : {"reply"}, req : HandleRequests, val : Fd \cup {Failed}]
      \cup [at : {"signal"}, req : HandleRequests]
      \cup [at : {"closeHandle"}, req : HandleRequests, handle : Fd, fd : Fd]
      \cup [at : {"closeFd"}, req : HandleRequests, fd : Fd]

(* Every variable has its type; a key in use was generated earlier. *)
TypeOK ==
    /\ mKey \in Nat
    /\ DOMAIN mQueuedEvents \subseteq 0 .. mKey - 1
    /\ mQueuedEvents \in [DOMAIN mQueuedEvents -> Events]
    /\ mMessages \in Seq(Message)
    /\ mRequests \subseteq Watch
    /\ looper \in LooperStates
    /\ files \in [Fd -> Files \cup {NoFile}]
    /\ call \in [Requests -> {"idle", "waiting", "returned", "closed"}]
    /\ done \in [HandleRequests -> {"CLOSED", "OPENED"}]
    /\ ret \in [HandleRequests \cup DirectRequests
                   -> Fd \cup {Failed, Garbage}]

(* removeEventByKey finds an event for every message it is ever called     *)
(* for, exactly once: the messages in the Looper's queue, and the one the  *)
(* Looper thread has taken out of it but not yet looked up, carry distinct *)
(* keys, and those are the keys of mQueuedEvents.  Otherwise valueFor      *)
(* aborts the process (timeoutpoker.cpp:180-182) or an event is never run. *)
EventForEveryMessage ==
    /\ \A i, j \in 1 .. Len(mMessages) :
          i # j => mMessages[i].what # mMessages[j].what
    /\ \A i \in 1 .. Len(mMessages) :
          mMessages[i].what \in DOMAIN mQueuedEvents
    /\ looper.at = "remove" =>
          /\ looper.key \in DOMAIN mQueuedEvents
          /\ \A i \in 1 .. Len(mMessages) : mMessages[i].what # looper.key
    /\ \A k \in DOMAIN mQueuedEvents :
          \/ looper.at = "remove" /\ looper.key = k
          \/ \E i \in 1 .. Len(mMessages) : mMessages[i].what = k

(* Who will close which descriptor, and what they take it to be.           *)
Claim(f, file) == [fd |-> f, file |-> file]
QueuedClaims ==
    {Claim(mQueuedEvents[k].fd, QosNode(mQueuedEvents[k].req)) :
        k \in {l \in DOMAIN mQueuedEvents :
                 mQueuedEvents[l].type = "timeout"}}
LooperClaims ==
    CASE looper.at = "run" ->
            IF looper.ev.type = "timeout"
            THEN {Claim(looper.ev.fd, QosNode(looper.ev.req))} ELSE {}
      [] looper.at \in {"arm", "pipe", "closeFd"} ->
            {Claim(looper.fd, QosNode(looper.req))}
      [] looper.at = "listen" ->
            {Claim(looper.fd, QosNode(looper.req)),
             Claim(looper.server, WriteEnd(looper.req)),
             Claim(looper.client, ReadEnd(looper.req))}
      [] looper.at = "closeHandle" ->
            {Claim(looper.fd, QosNode(looper.req)),
             Claim(looper.handle, WriteEnd(looper.req))}
      [] looper.at = "reply" ->
            IF looper.val # Failed
            THEN {Claim(looper.val, ReadEnd(looper.req))} ELSE {}
      [] OTHER -> {}
WatchClaims ==
    UNION {{Claim(w.handle, WriteEnd(w.req)), Claim(w.fd, QosNode(w.req))} :
             w \in mRequests}
ClientClaims ==
    {Claim(ret[r], ReadEnd(r)) :
        r \in {h \in HandleRequests :
                 call[h] \in {"waiting", "returned"} /\ ret[h] >= 0}}
      \cup {Claim(ret[r], QosNode(r)) :
        r \in {d \in DirectRequests : call[d] = "returned" /\ ret[d] >= 0}}
Claims == QueuedClaims \cup LooperClaims \cup WatchClaims \cup ClientClaims

(* A descriptor number that anyone is going to close still refers to the   *)
(* file it was opened for, although numbers are reused as soon as they are *)
(* free: no close(2) of the service hits a file opened for another request *)
(* or one closed before (timeoutpoker.cpp:38, 242, 277-278).               *)
ClaimsHold == \A c \in Claims : files[c.fd] = c.file

(* Nothing leaks: every open descriptor has somebody left to close it.     *)
(* With ListenMayFail the code breaks this: see HandleIsWatched.           *)
NothingLeaks ==
    \A f \in Fd : files[f] # NoFile => \E c \in Claims : c.fd = f

(* The Looper thread writes through outFd and opens the barrier, both in   *)
(* the stack frame of createPmQosHandle (timeoutpoker.cpp:101-107), only   *)
(* while that call has not returned.                                       *)
FrameIsAlive ==
    /\ looper.at \in {"pipe", "listen", "reply", "signal"} =>
          call[looper.req] = "waiting"
    /\ looper.at = "run" /\ looper.ev.type = "handle" =>
          call[looper.ev.req] = "waiting"
    /\ \A k \in DOMAIN mQueuedEvents :
          mQueuedEvents[k].type = "handle" =>
              call[mQueuedEvents[k].req] = "waiting"

(* createPmQosHandle never returns its uninitialised `int ret'.            *)
ReturnIsWritten ==
    \A r \in HandleRequests : call[r] = "returned" => ret[r] # Garbage

(* A handle that was handed out has its pipe watched until the client      *)
(* closes it: closing it will release the constraint.  timeoutpoker.cpp:42 *)
(* ignores the result that the comment at line 285 says the call site      *)
(* uses, so this fails when addFd does.                                    *)
HandleIsWatched ==
    \A r \in HandleRequests :
        call[r] = "returned" /\ ret[r] >= 0 =>
            \E w \in mRequests : w.req = r /\ files[w.fd] = QosNode(r)

IsRequestEvent(e) == e.type \in {"timed", "handle"}

(* Requests are served in the order in which they were made, whatever      *)
(* timeouts expire in between: when the Looper thread takes the message of *)
(* a request, every other pending request has a later key.                 *)
RequestsInOrder ==
    [][Receive /\ IsRequestEvent(mQueuedEvents[looper'.key]) =>
          \A k \in DOMAIN mQueuedEvents :
              IsRequestEvent(mQueuedEvents[k]) => looper'.key <= k]_vars

(* A call of createPmQosHandle returns. *)
HandleCallReturns ==
    \A r \in HandleRequests : call[r] = "waiting" ~> call[r] = "returned"

Held(r) == \E f \in Fd : files[f] = QosNode(r)

(* The constraint of a timed request is released in the end. *)
TimedRequestExpires ==
    \A r \in TimedRequests : call[r] = "returned" ~> []~Held(r)

(* Once a client has closed its handle the constraint goes away, if the    *)
(* Looper watches its pipe (see HandleIsWatched).                          *)
ClosedHandleReleases ==
    \A r \in HandleRequests :
        call[r] = "closed" /\ (\E w \in mRequests : w.req = r)
            ~> []~Held(r)
=============================================================================

------------------------- MODULE TimeoutPokerRefines -------------------------
(***************************************************************************)
(* TimeoutPoker implements PmQosService: the refinement mapping.  A        *)
(* constraint is in force exactly while a descriptor of its node is open,  *)
(* and the time a timed one must still last is the time its TimeoutEvent's *)
(* message has to go.  TimeoutPoker keeps no clock; an auxiliary variable  *)
(* records its ticks, so that the service can tell time that passed from   *)
(* time that was lost.                                                     *)
(***************************************************************************)
EXTENDS TimeoutPoker

VARIABLE beat    \* changes with every Tick

TimedInit == Init /\ beat = 0
TimedNext ==
    \/ (Callers \/ LooperThread) /\ UNCHANGED beat
    \/ Tick /\ beat' = 1 - beat
TimedSpec == TimedInit /\ [][TimedNext]_<<vars, beat>> /\ Fairness

(* The request's event is still queued, or is about to be run. *)
Pending(r) ==
    \/ \E k \in DOMAIN mQueuedEvents :
          IsRequestEvent(mQueuedEvents[k]) /\ mQueuedEvents[k].req = r
    \/ looper.at = "run" /\ IsRequestEvent(looper.ev) /\ looper.ev.req = r

phaseBar ==
    [r \in Requests |->
        IF Held(r) THEN "active"
        ELSE IF call[r] = "idle" THEN "idle"
        ELSE IF Pending(r) THEN "asked"
        ELSE "over"]

TimeoutMessages(r) ==
    {i \in 1 .. Len(mMessages) :
        \E k \in DOMAIN mQueuedEvents :
            /\ mMessages[i].what = k
            /\ mQueuedEvents[k].type = "timeout"
            /\ mQueuedEvents[k].req = r}

leftBar ==
    [r \in TimedRequests |->
        IF looper.at = "arm" /\ looper.req = r THEN Timeout[r]
        ELSE IF TimeoutMessages(r) # {}
             THEN mMessages[CHOOSE i \in TimeoutMessages(r) : TRUE].due
        ELSE 0]

ownerBar ==
    [r \in HandleRequests \cup DirectRequests |->
        IF call[r] = "closed" THEN "dropped"
        ELSE IF call[r] = "returned" /\ ret[r] >= 0 THEN "has"
        ELSE "none"]

Service == INSTANCE PmQosService
    WITH phase <- phaseBar, left <- leftBar, owner <- ownerBar,
         uptime <- beat

(* Every behaviour of the implementation is one of the service: timed      *)
(* constraints are never released early, a handle that is handed out       *)
(* always has its constraint behind it, and that constraint stays until    *)
(* the handle is closed.                                                   *)
ServiceSpec == Service!Spec
=============================================================================

--------------------------- MODULE BarrierProofs ---------------------------
(***************************************************************************)
(* Barrier is safe for any number of threads that open, close and wait.    *)
(***************************************************************************)
EXTENDS Barrier, TLAPS

(* Each role keeps to its own steps; a waiter that is about to leave saw   *)
(* the barrier open and still holds the mutex; and if there is a single    *)
(* open(), whatever follows from it follows its return.                    *)
Roles ==
    /\ \A t \in Threads : pc[t] = "broadcast" => t \in Openers
    /\ \A t \in Threads : pc[t] = "asleep" => t \in Waiters
    /\ \A t \in cv : pc[t] = "asleep"
    /\ \A t \in Waiters : pc[t] = "leave" => state = "OPENED"

Order ==
    \A o \in Openers : Openers = {o} =>
        /\ state = "OPENED" => pc[o] \in {"broadcast", "leave", "returned"}
        /\ \A t \in Waiters :
              pc[t] \in {"leave", "returned"} => pc[o] = "returned"

BInv == TypeOK /\ Roles /\ NoLostWakeup /\ Order

LEMMA InitBInv == Init => BInv
BY ThreadsAssumption
   DEF Init, BInv, TypeOK, Roles, NoLostWakeup, Order, Threads

LEMMA NextBInv == BInv /\ [Next]_vars => BInv'
<1> SUFFICES ASSUME BInv, [Next]_vars PROVE BInv'
  OBVIOUS
<1> USE ThreadsAssumption
    DEF BInv, TypeOK, Roles, NoLostWakeup, Order, Threads, Goto
<1>1. ASSUME NEW t \in Threads, Lock(t)
      PROVE  BInv'
  BY <1>1 DEF Lock
<1>2. ASSUME NEW t \in Threads, Unlock(t)
      PROVE  BInv'
  BY <1>2 DEF Unlock
<1>3. ASSUME NEW t \in Openers, SetOpened(t)
      PROVE  BInv'
  BY <1>3 DEF SetOpened
<1>4. ASSUME NEW t \in Openers, Broadcast(t)
      PROVE  BInv'
  BY <1>4 DEF Broadcast
<1>5. ASSUME NEW t \in Closers, SetClosed(t)
      PROVE  BInv'
  BY <1>5 DEF SetClosed
<1>6. ASSUME NEW t \in Waiters, TestOpened(t)
      PROVE  BInv'
  BY <1>6 DEF TestOpened
<1>7. ASSUME NEW t \in Waiters, Sleep(t)
      PROVE  BInv'
  BY <1>7 DEF Sleep
<1>8. ASSUME NEW t \in Waiters, Relock(t)
      PROVE  BInv'
  BY <1>8 DEF Relock
<1>9. ASSUME NEW t \in Waiters, SpuriousWakeup(t)
      PROVE  BInv'
  BY <1>9 DEF SpuriousWakeup
<1>10. CASE UNCHANGED vars
  BY <1>10 DEF vars
<1>11. QED
  BY <1>1, <1>2, <1>3, <1>4, <1>5, <1>6, <1>7, <1>8, <1>9, <1>10
     DEF Next, OpenStep, CloseStep, WaitStep

LEMMA BarrierInvariant == Spec => []BInv
BY InitBInv, NextBInv, PTL DEF Spec

(* The mutex is with the one thread between its lock and its unlock.       *)
THEOREM MutexIsExclusive == Spec => []TypeOK
<1>1. BInv => TypeOK
  BY DEF BInv
<1>2. QED
  BY <1>1, BarrierInvariant, PTL

(* Nobody sleeps in wait() with the barrier open and no broadcast to come, *)
(* for any number of threads (barrier.h:33-47).                            *)
THEOREM WakeupsArrive == Spec => []NoLostWakeup
<1>1. BInv => NoLostWakeup
  BY DEF BInv
<1>2. QED
  BY <1>1, BarrierInvariant, PTL

(* With one open(), a thread that has returned from wait() may destroy the *)
(* barrier (timeoutpoker.cpp:101-107).                                     *)
THEOREM OpenEndsFirst == Spec => []OpenIsOver
<1>1. BInv => OpenIsOver
  BY DEF BInv, Order, OpenIsOver
<1>2. QED
  BY <1>1, BarrierInvariant, PTL

(* Barrier implements Latch: wait() returns only while the barrier is      *)
(* open, in spite of spurious wakeups and of close() (barrier.h:42-47).    *)
THEOREM BarrierIsLatch == Spec => LatchSpec
<1> DEFINE Through == {t \in Waiters : pc[t] = "returned"}
<1>1. Init => Promise!Init
  BY DEF Init, Promise!Init, Threads
<1>2. BInv /\ [Next]_vars => [Promise!Next]_Promise!vars
  <2> SUFFICES ASSUME BInv, [Next]_vars
               PROVE  [Promise!Next]_Promise!vars
    OBVIOUS
  <2> USE ThreadsAssumption DEF BInv, TypeOK, Roles, Threads, Goto
  <2>1. ASSUME UNCHANGED state, Through' = Through
        PROVE  UNCHANGED Promise!vars
    BY <2>1 DEF Promise!vars
  <2>2. ASSUME NEW t \in Waiters, Unlock(t)
        PROVE  Promise!Next
    <3>1. /\ t \notin Through /\ Through' = Through \cup {t}
          /\ state = "OPENED" /\ UNCHANGED state
      BY <2>2 DEF Unlock
    <3>2. Promise!Pass(t)
      BY <3>1 DEF Promise!Pass
    <3>3. QED
      BY <3>2 DEF Promise!Next
  <2>3. ASSUME NEW t \in Openers, SetOpened(t)
        PROVE  Promise!Next
    <3>1. Through' = Through /\ state' = "OPENED"
      BY <2>3 DEF SetOpened
    <3>2. QED
      BY <3>1 DEF Promise!Next, Promise!Open
  <2>4. ASSUME NEW t \in Closers, SetClosed(t)
        PROVE  Promise!Next
    <3>1. Through' = Through /\ state' = "CLOSED"
      BY <2>4 DEF SetClosed
    <3>2. QED
      BY <3>1 DEF Promise!Next, Promise!Close
  <2>5. ASSUME NEW t \in Threads,
               Lock(t) \/ (t \notin Waiters /\ Unlock(t))
        PROVE  UNCHANGED Promise!vars
    BY <2>1, <2>5 DEF Lock, Unlock
  <2>6. ASSUME NEW t \in Openers, Broadcast(t)
        PROVE  UNCHANGED Promise!vars
    BY <2>1, <2>6 DEF Broadcast
  <2>7. ASSUME NEW t \in Waiters,
               TestOpened(t) \/ Sleep(t) \/ Relock(t) \/ SpuriousWakeup(t)
        PROVE  UNCHANGED Promise!vars
    BY <2>1, <2>7 DEF TestOpened, Sleep, Relock, SpuriousWakeup
  <2>8. CASE UNCHANGED vars
    BY <2>1, <2>8 DEF vars
  <2>9. QED
    BY <2>2, <2>3, <2>4, <2>5, <2>6, <2>7, <2>8
       DEF Next, OpenStep, CloseStep, WaitStep
<1>3. QED
  BY <1>1, <1>2, BarrierInvariant, PTL DEF Spec, LatchSpec, Promise!Spec
=============================================================================

---------------------------- MODULE LooperQueue ----------------------------
(***************************************************************************)
(* The message queue of android::Looper, as far as PokeHandler uses it     *)
(* (sendMessageDelayed, timeoutpoker.cpp:171, and the delivery that ends   *)
(* in handleMessage).  libutils is not part of the repository, so these    *)
(* operators are external: pure functions on sequences of messages.        *)
(*                                                                         *)
(* A message is the key it carries (msg.what) and the time still to go     *)
(* before it is due.  Absolute uptimes would grow for ever; the remaining  *)
(* times do not, and since the queue is kept in order of due time with     *)
(* ties in order of arrival, the order is in the sequence and a remaining  *)
(* time may be clamped at 0 without losing it.                             *)
(***************************************************************************)
EXTENDS Integers, Sequences
LOCAL INSTANCE SequencesExt

Message == [what : Nat, due : Nat]

(* Looper walks past every queued message that is due no later than the    *)
(* new one and stops at the first later one.                               *)
IsPlaceFor(q, i, m) ==
    /\ i \in 1 .. Len(q) + 1
    /\ \A j \in 1 .. i - 1 : q[j].due <= m.due
    /\ i <= Len(q) => q[i].due > m.due

Placed(q, i, m) == InsertAt(q, i, m)

(* The first message of a queue that is due now. *)
IsDue(q) == q # << >> /\ Head(q).due = 0

(* One unit of uptime passes. *)
Elapsed(q) ==
    [i \in 1 .. Len(q) |->
        [q[i] EXCEPT !.due = IF @ = 0 THEN 0 ELSE @ - 1]]

SomeTimerRuns(q) == \E i \in 1 .. Len(q) : q[i].due > 0
=============================================================================

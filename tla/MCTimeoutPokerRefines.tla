------------------------ MODULE MCTimeoutPokerRefines ------------------------
(* A small instance of TimeoutPokerRefines for TLC. *)
EXTENDS TimeoutPokerRefines

CONSTANTS t1, t2, h1, d1

(* Timeouts of different length, as in MCTimeoutPoker. *)
MCTimeout == [r \in TimedRequests |-> IF r = t1 THEN 2 ELSE 1]
=============================================================================

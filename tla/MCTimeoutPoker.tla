--------------------------- MODULE MCTimeoutPoker ---------------------------
(* Small instances of TimeoutPoker for TLC. *)
EXTENDS TimeoutPoker
LOCAL INSTANCE TLC

CONSTANTS t1, t2, h1, h2, d1

(* Timeouts of different length, so that an earlier request may expire     *)
(* after a later one.                                                      *)
MCTimeout == [r \in TimedRequests |-> IF r = t1 THEN 2 ELSE 1]

(* The handle requests are interchangeable. *)
HandleSymmetry == Permutations({h1, h2})
=============================================================================

---------------------------- MODULE MCEventQueue ----------------------------
(* Small instances of EventQueue for TLC. *)
EXTENDS EventQueue

CONSTANTS e1, e2, e3, e4

(* Two events at once, as requests are sent, and two delayed ones. *)
MCDelay == [e \in Events |-> CASE e = e3 -> 1 [] e = e4 -> 2 [] OTHER -> 0]
=============================================================================

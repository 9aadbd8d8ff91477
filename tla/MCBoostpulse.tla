---------------------------- MODULE MCBoostpulse ----------------------------
(* A small instance of Boostpulse for TLC. *)
EXTENDS Boostpulse

MCTunables == [g \in Governors |-> IF g \in PulseGovernors THEN 2 ELSE 0]
=============================================================================

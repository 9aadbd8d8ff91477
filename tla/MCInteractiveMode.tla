------------------------- MODULE MCInteractiveMode -------------------------
(* A small instance of InteractiveMode for TLC. *)
EXTENDS InteractiveMode

(* The second of three entries of input_devs has found no device. *)
MCInputDevs == <<2, -1, 0>>
=============================================================================

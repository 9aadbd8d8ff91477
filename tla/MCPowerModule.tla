--------------------------- MODULE MCPowerModule ---------------------------
(* A small instance of PowerModule for TLC. *)
EXTENDS PowerModule

MCDevNames == <<"raydium_ts", "touch">>

(* Every list of up to three input devices. *)
MCInputs == UNION {[1 .. n -> Names] : n \in 0 .. 3}

(* One frequency for each of the two thresholds, and one on either side.   *)
MCFreqList == <<696000, 1044000, 1326000, 2320500>>
=============================================================================

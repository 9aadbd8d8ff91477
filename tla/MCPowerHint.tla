---------------------------- MODULE MCPowerHint ----------------------------
(* Small instances of PowerHint for TLC.  One unit of time stands for half *)
(* of the interval of a hint; the clock has 8 values before it repeats.    *)
EXTENDS PowerHint

MCInterval == [h \in Hints |-> IF h \in {"VSYNC", "LOW_POWER"} THEN 0 ELSE 2]

(* No time passes while somebody is in a hint: every request, and the      *)
(* store of hint_time, follow the reading of the clock at once.            *)
PromptNext == Next /\ (uptime' # uptime => \A c \in Callers : caller[c] = Idle)
PromptSpec == Init /\ [][PromptNext]_vars
=============================================================================

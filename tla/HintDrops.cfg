\* Two callers, a clock that changes sign, an uninitialised hint_time.
SPECIFICATION Spec
CONSTANTS
    Callers = {c1, c2}
    SentHints = {"AUDIO"}
    Interval <- MCInterval
    BoostTime = 3
    AnimationTime = 4
    CpuBoostTime = 4
    AudioTime = 1
    LowPowerTime = 3
    InteractionFreq = 1326000
    AnimationFreq = 1024000
    Narrow = 8
    Wide = 16
    Zeroed = FALSE
    MaxUptime = 7
    MaxInForce = 1
PROPERTY
    DroppedIsCovered
CHECK_DEADLOCK FALSE

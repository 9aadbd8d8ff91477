\* A clock that repeats; hints take no time.
SPECIFICATION PromptSpec
CONSTANTS
    Callers = {c1}
    SentHints = {"INTERACTION"}
    Interval <- MCInterval
    BoostTime = 3
    AnimationTime = 4
    CpuBoostTime = 4
    AudioTime = 3
    LowPowerTime = 3
    InteractionFreq = 1326000
    AnimationFreq = 1024000
    Narrow = 8
    Wide = 16
    Zeroed = TRUE
    MaxUptime = 12
    MaxInForce = 1
PROPERTY
    BoostIsMaintained
CHECK_DEADLOCK FALSE

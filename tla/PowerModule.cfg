\* Two calls of init and open, one thread that sends hints.
SPECIFICATION Spec
CONSTANTS
    HintThreads = {c1}
    MaxCalls = 2
    Names = {"raydium_ts", "touch", "gpio-keys"}
    DevNames <- MCDevNames
    Inputs <- MCInputs
    FreqList <- MCFreqList
    IdleTopFreq = 1092000
    ErrorWords = {2, 5}
    NULL = NULL
INVARIANTS
    TypeOK
    PokersAreLive
    HintFreqAvailable
    BootBoostIsMax
    DevicesFound
PROPERTY
    StartReturns
\* The process may end, and calls are bounded.
CHECK_DEADLOCK FALSE

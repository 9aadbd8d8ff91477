\* Calls with at most one failed write; a disk that may be there; two
\* descriptors.
SPECIFICATION Spec
CONSTANTS
    MaxFd = 2
    InputDevs <- MCInputDevs
    InputCnt = 3
    MaxFaults = 1
INVARIANTS
    LastCallDecides
    DarkIsQuiet
    NothingLeftOpen
    HostWaitsForDelay
PROPERTY
    ForeignStaysOpen

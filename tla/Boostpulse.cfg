\* Three threads send hints while the governor is switched twice.
SPECIFICATION Spec
CONSTANTS
    Callers = {c1, c2, c3}
    PulseGovernors = {"interactive"}
    OtherGovernors = {"conservative"}
    Tunables <- MCTunables
    MaxFd = 3
    NoFile = NoFile
    NoThread = NoThread
    MaxSwitches = 2
INVARIANTS
    TypeOK
    FieldIsDescriptor
    PulseIsConfigured
PROPERTIES
    ForeignStaysOpen
    StalePulseIsClosed

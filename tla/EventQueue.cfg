\* Four threads sending at once, with delays 0, 0, 1 and 2.
SPECIFICATION Spec
CONSTANTS
    e1 = e1
    e2 = e2
    e3 = e3
    e4 = e4
    Events = {e1, e2, e3, e4}
    Delay <- MCDelay
    Worker = Worker
    NoThread = NoThread
PROPERTIES
    ChannelSpec
    SentEventsRun
\* Every event is sent once.
CHECK_DEADLOCK FALSE

\* Two timed requests, two handles and a direct request; any open and any
\* pipe may fail; at most five descriptors, so that they also run out.
SPECIFICATION Spec
SYMMETRY HandleSymmetry
CONSTANTS
    t1 = t1
    t2 = t2
    h1 = h1
    h2 = h2
    d1 = d1
    TimedRequests = {t1, t2}
    HandleRequests = {h1, h2}
    DirectRequests = {d1}
    Timeout <- MCTimeout
    MaxFd = 5
    NoFile = NoFile
    ListenMayFail = FALSE
INVARIANTS
    TypeOK
    EventForEveryMessage
    ClaimsHold
    NothingLeaks
    FrameIsAlive
    ReturnIsWritten
PROPERTY
    RequestsInOrder
\* Every request is made at most once: the system stops when all are done.
CHECK_DEADLOCK FALSE

\* The instance of TimeoutPokerSafety.cfg with one handle.  addFd may fail
\* here, which costs the release of a handle's node but no promise of
\* PmQosService, and what must eventually happen still does.
SPECIFICATION TimedSpec
CONSTANTS
    t1 = t1
    t2 = t2
    h1 = h1
    d1 = d1
    TimedRequests = {t1, t2}
    HandleRequests = {h1}
    DirectRequests = {d1}
    Timeout <- MCTimeout
    MaxFd = 5
    NoFile = NoFile
    ListenMayFail = TRUE
PROPERTIES
    ServiceSpec
    HandleCallReturns
    TimedRequestExpires
    ClosedHandleReleases
CHECK_DEADLOCK FALSE

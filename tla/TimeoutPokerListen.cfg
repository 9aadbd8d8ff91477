\* addFd may fail: the result of listenForHandleToCloseFd is ignored.
SPECIFICATION Spec
CONSTANTS
    t1 = t1
    t2 = t2
    h1 = h1
    h2 = h2
    d1 = d1
    TimedRequests = {t1, t2}
    HandleRequests = {h1}
    DirectRequests = {d1}
    Timeout <- MCTimeout
    MaxFd = 5
    NoFile = NoFile
    ListenMayFail = TRUE
INVARIANT HandleIsWatched
CHECK_DEADLOCK FALSE

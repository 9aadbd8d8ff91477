\* Three calls of wait(), one of open() and one of close(), in any order.
SPECIFICATION Spec
CONSTANTS
    Openers = {o1}
    Closers = {c1}
    Waiters = {w1, w2, w3}
    NoThread = NoThread
INVARIANTS
    TypeOK
    NoLostWakeup
    OpenIsOver
PROPERTIES
    LatchSpec
    EveryoneGetsThrough
\* Every thread makes one call.
CHECK_DEADLOCK FALSE

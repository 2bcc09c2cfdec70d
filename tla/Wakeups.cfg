SPECIFICATION Spec
CONSTANTS
    Thread = {t1, t2}
    Fiber = {f1, f2}
    Fd = {s}
    Timed = {f1}
    None = None
    MaxCall = 2
    MaxClose = 1
SYMMETRY Symmetry
INVARIANTS TypeOK WokenOnce RunsOnce PendingCounted NoMissedEvent
CHECK_DEADLOCK FALSE

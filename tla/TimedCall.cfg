SPECIFICATION LiveSpec
CONSTANTS
    Thread = {t1, t2}
    Fiber = {f1}
    Fd = {s}
    Timed = {f1}
    None = None
    MaxCall = 1
    MaxClose = 0
PROPERTY TimedCallReturns
CHECK_DEADLOCK FALSE

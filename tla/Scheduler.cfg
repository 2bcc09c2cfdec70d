\* Up to two workers, with and without the creator's thread.
SPECIFICATION LiveSpec
CONSTANTS
    w1 = w1
    w2 = w2
    Worker = {w1, w2}
    Pools <- SomePools
    Main = Main
    Anyone = Anyone
    None = None
    Timer = {1, 2}
    Delay = {1, 3}
    MaxTimeout = 2
    MaxOps = 2
    MaxLate = 1
INVARIANTS TypeOK TimerKept WakesInTime NothingLeftBehind
PROPERTIES StopReturns
CHECK_DEADLOCK FALSE

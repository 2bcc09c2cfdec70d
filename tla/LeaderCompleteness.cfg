\* A leader without a committed entry, because conflicts do not truncate.
SPECIFICATION Spec
CONSTANTS
    w = w
    x = x
    l = l
    c1 = c1
    None = None
    Server = {w, x, l}
    Command = {c1}
    MaxTerm = 4
    MaxLog = 3
    MaxRound = 1
    MaxSnapshotIndex = 0
    MaxRestart = 0
    MaxCalls = 2
CONSTRAINT Scripted
VIEW LiveState
INVARIANT LeaderCompleteness
CHECK_DEADLOCK FALSE

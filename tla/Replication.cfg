\* Two leaders, logs of two entries.
SPECIFICATION Spec
CONSTANTS
    s1 = s1
    s2 = s2
    s3 = s3
    c1 = c1
    c2 = c2
    None = None
    Server = {s1, s2, s3}
    Command = {c1, c2}
    MaxTerm = 2
    MaxLog = 2
    MaxRound = 1
    MaxSnapshotIndex = 0
    MaxRestart = 0
    MaxCalls = 2
CONSTRAINT OneApplies
VIEW LiveState
SYMMETRY Symmetry
INVARIANTS EntriesAgree CommittedOnMajority NoAssertFails
PROPERTIES LeaderAppendOnly
CHECK_DEADLOCK FALSE

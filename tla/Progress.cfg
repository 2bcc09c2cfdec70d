\* Two servers, one leader, calls fail at will (no bound on calls is reached).
SPECIFICATION LiveSpec
CONSTANTS
    s1 = s1
    s2 = s2
    c1 = c1
    None = None
    Server = {s1, s2}
    Command = {c1}
    MaxTerm = 1
    MaxLog = 2
    MaxRound = 2
    MaxSnapshotIndex = 0
    MaxRestart = 0
    MaxCalls = 20
CONSTRAINT FewCalls
PROPERTIES LeaderEntriesApplied
CHECK_DEADLOCK FALSE

\* Every order of votes, answers and new elections in two terms; then snapshots
\* taken, sent and installed across a change of leader.
SPECIFICATION Spec
CONSTANTS
    s1 = s1
    s2 = s2
    s3 = s3
    c1 = c1
    None = None
    Server = {s1, s2, s3}
    Command = {c1}
    MaxTerm = 2
    MaxLog = 1
    MaxRound = 1
    MaxSnapshotIndex = 1
    MaxRestart = 0
    MaxCalls = 2
CONSTRAINT Phases
VIEW PhaseState
SYMMETRY Symmetry
INVARIANTS TypeOK ElectInv ElectionSafety LogContiguous LogInv StatePersisted
PROPERTIES VoteIsFinal
CHECK_DEADLOCK FALSE

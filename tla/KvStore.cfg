\* Requests, timeouts and retries of two clients, a failed call, a restart.
SPECIFICATION Spec
CONSTANTS
    c1 = c1
    c2 = c2
    k1 = k1
    None = None
    Client = {c1, c2}
    Key = {k1}
    NServers = 2
    Budgets <- SmallBudgets
    LateGets = FALSE
SYMMETRY Symmetry
INVARIANTS TypeOK ChannelOwned ReplicaAgrees ExecutedOnce
PROPERTY ImplementsStore
CHECK_DEADLOCK FALSE

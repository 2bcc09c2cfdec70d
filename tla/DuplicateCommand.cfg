\* A Get whose call failed still runs while its client goes on.
SPECIFICATION Spec
CONSTANTS
    c1 = c1
    c2 = c2
    k1 = k1
    None = None
    Client = {c1, c2}
    Key = {k1}
    NServers = 2
    Budgets <- LateBudgets
    LateGets = TRUE
SYMMETRY Symmetry
INVARIANTS ExecutedOnce
CHECK_DEADLOCK FALSE

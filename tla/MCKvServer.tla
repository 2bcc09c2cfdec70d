------------------------------ MODULE MCKvServer ------------------------------
(* KvServer on small instances. *)
EXTENDS KvServer, TLC

\* Clients are interchangeable: every set of budgets below is closed under
\* exchanging them.
Symmetry == Permutations(Client)

\* One client makes n requests, the others none.
OneClient(n, index, fails, restarts) ==
    {[requests |-> [c \in Client |-> IF c = d THEN n ELSE 0], index |-> index, fails |-> fails,
      restarts |-> restarts] : d \in Client}

\* Every client makes one request.
EachOne(index, fails, restarts) ==
    {[requests |-> [c \in Client |-> 1], index |-> index, fails |-> fails, restarts |-> restarts]}

SmallBudgets == OneClient(2, 3, 0, 0) \cup OneClient(2, 2, 1, 0) \cup OneClient(2, 2, 0, 1) \cup EachOne(2, 0, 0)
LateBudgets == OneClient(2, 4, 1, 0)
=============================================================================

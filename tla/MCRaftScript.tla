----------------------------- MODULE MCRaftScript -----------------------------
(* A guided search: only the servers named below stand for election, and each *)
(* leader adds only so many entries.                                          *)
EXTENDS MCRaft

CONSTANTS w, x, l   \* the three servers

Standing == <<w, x, l, x>>      \* who stands in terms 1 to 4
Quota == <<3, 1, 1, 0>>         \* how many entries the leader of that term adds

Added(t) == Cardinality({e \in proposed : e.logterm = t})

Scripted ==
    /\ FewCalls
    /\ \A s \in Server : m_lastApplied[s] = 0
    /\ \A t \in 1..MaxTerm : Added(t) <= Quota[t]
    /\ \A b \in ballots :
          /\ b.voter = b.candidate => b.candidate = Standing[b.term]
          /\ \A t \in 1..(b.term - 1) : Added(t) = Quota[t]
=============================================================================

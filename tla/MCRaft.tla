-------------------------------- MODULE MCRaft --------------------------------
(* Raft on small instances. *)
EXTENDS Raft, TLC

CONSTANT MaxCalls   \* bound: calls under way at once

\* Servers are interchangeable, and so are commands.
Symmetry == Permutations(Server) \cup Permutations(Command)

\* A state with more calls under way is not explored further; CallFails keeps
\* every smaller subset of them reachable.
FewCalls ==
    Cardinality(rvArgs) + Cardinality(rvReply) + Cardinality(aeArgs) + Cardinality(aeReply)
      + Cardinality(isArgs) + Cardinality(isReply) <= MaxCalls

\* The same, and at most one server has applied entries.  Without snapshots
\* m_lastApplied is read by its own server's applier only, so what the others
\* have applied makes no difference to it.
OneApplies == FewCalls /\ Cardinality({s \in Server : m_lastApplied[s] > 0}) <= 1

\* FewCalls in three phases: twice as many calls while there are only votes, few
\* once heartbeats are sent, and, when a command has been proposed, only states in
\* which the voters of a term voted for one candidate.
Phases ==
    \/ /\ proposed = {} /\ aeArgs \cup aeReply = {}
       /\ Cardinality(rvArgs) + Cardinality(rvReply) <= 2 * MaxCalls
    \/ proposed = {} /\ FewCalls
    \/ FewCalls /\ \A b, c \in ballots : b.term = c.term => b.candidate = c.candidate

\* The part of the state later steps depend on.  No action reads the history
\* variables or the raft state file (a restart empties it); nextIndex and
\* matchIndex are read by leaders only and set anew on election; the vote
\* counter of an earlier term and the counter of a round nobody answers any
\* more are never read again.  Runs use it as their VIEW when their properties
\* do not mention what it leaves out.
LiveState ==
    <<termVars, m_status, m_logs, m_lastSnapshotIncludeIndex, m_lastSnapshotIncludeTerm, applyVars,
      [s \in {x \in Server : m_status[x] = Leader} |-> <<m_nextIndex[s], m_matchIndex[s]>>],
      [s \in Server |-> votedNum[s][m_currentTerm[s]]],
      [s \in Server |-> [r \in Round |-> IF RoundFree(s, r) THEN 0 ELSE appendNums[s][r]]],
      snapshotFile, procVars, voteNet, appendNet, snapNet>>

\* The same, for properties about who proposed which entry, the votes and the
\* raft state file.
HistoryState ==
    <<LiveState, {<<e.term, e.leader>> : e \in elected}, proposed, ballots, raftState>>

\* The same, with all vote counters and elections until a command is proposed.
PhaseState == <<HistoryState, IF proposed = {} THEN <<votedNum, elected>> ELSE <<>>>>

-----------------------------------------------------------------------------
(* What a comment in the code claims, and a run refutes. *)

\* raft.cpp:1091: an elected leader has every entry committed before.
Lacks(s, d, i) ==
    /\ i > m_lastSnapshotIncludeIndex[d] /\ i > m_lastSnapshotIncludeIndex[s]
    /\ HoldsIndex(s, i) => getLogTermFromLogIndex(s, i) # getLogTermFromLogIndex(d, i)

LeaderCompleteness ==
    \A s, d \in Server :
        m_status[s] = Leader /\ m_currentTerm[d] < m_currentTerm[s] =>
            \A i \in 1..m_commitIndex[d] : ~Lacks(s, d, i)
=============================================================================

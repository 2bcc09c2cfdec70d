--------------------------- MODULE RaftCommitProofs ---------------------------
(* Without snapshots no assertion fails, and what a leader commits in its term *)
(* is on a majority, for any number of servers and any order of calls.         *)
EXTENDS RaftProofs

-----------------------------------------------------------------------------
(* Indices *)

\* No snapshot exists, and nobody sends one.
NoSnapshots ==
    /\ \A s \in Server : m_lastSnapshotIncludeIndex[s] = 0 /\ m_lastSnapshotIncludeTerm[s] = 0
    /\ snapTask = {} /\ isArgs = {} /\ isReply = {}

\* What a server has committed, and what a leader knows of its peers, lies in
\* its log.
IndexInv ==
    /\ \A s \in Server : m_commitIndex[s] <= Len(m_logs[s])
    /\ \A s \in Server : m_status[s] = Leader =>
         \A d \in Server : /\ m_nextIndex[s][d] \in 1..Len(m_logs[s]) + 1
                           /\ m_matchIndex[s][d] <= Len(m_logs[s])

\* A call names entries the caller has, and a refusal goes back, never to 0.
ArgsIndex(m) ==
    /\ m.prevlogindex + Len(m.entries) <= Len(m_logs[m.leaderid])
    /\ m.prevlogindex = 0 => m.prevlogterm = 0
ReplyIndex(r) ==
    /\ r.upto <= Len(m_logs[r.to])
    /\ ~r.success /\ r.updatenextindex # -100 => r.updatenextindex \in 1..Len(m_logs[r.to])

CallIndexInv ==
    /\ \A m \in aeArgs : ArgsIndex(m)
    /\ \A r \in aeReply : ReplyIndex(r)

\* No assertion finds an index outside the log.
AssertInv == NoSnapshots /\ IndexInv /\ CallIndexInv /\ NoAssertFails

-----------------------------------------------------------------------------
(* What followers hold *)

\* Follower d has the entry of term t at index i, or has moved on.
HasEntry(d, i, t) ==
    \/ m_currentTerm[d] > t
    \/ /\ m_currentTerm[d] = t
       /\ i \in 1..Len(m_logs[d]) /\ m_logs[d][i].logterm = t

\* d has the entries of its own term that leader s holds up to index n.
Acked(s, d, n) ==
    \A i \in 1..n : m_logs[s][i].logterm = m_currentTerm[s] => HasEntry(d, i, m_currentTerm[s])

\* Does the reply answer a call of the term it names?
Answers(r) == r.success \/ r.updatenextindex # -100

\* A call comes from the winner of its term, carries what the winner still holds
\* while it leads, and starts where the follower has everything of that term.
ArgsSent(m) ==
    /\ \E w \in elected : w.term = m.term /\ w.leader = m.leaderid
    /\ m_status[m.leaderid] = Leader /\ m.term = m_currentTerm[m.leaderid] =>
         /\ \A k \in 1..Len(m.entries) : m.entries[k] = m_logs[m.leaderid][m.prevlogindex + k]
         /\ Acked(m.leaderid, m.to, m.prevlogindex)

\* A reply of success says that the follower has everything of that term up to
\* where the call ended, a refusal goes back to where it has.
ReplySent(r) ==
    /\ Answers(r) => \E w \in elected : w.term = r.term /\ w.leader = r.to
    /\ m_status[r.to] = Leader /\ r.term = m_currentTerm[r.to] =>
         /\ r.success => Acked(r.to, r.from, r.upto)
         /\ r.success /\ r.lastterm = r.term => r.upto >= 1 /\ m_logs[r.to][r.upto].logterm = r.term
         /\ ~r.success /\ r.updatenextindex # -100 => Acked(r.to, r.from, r.updatenextindex - 1)

SentInv == (\A m \in aeArgs : ArgsSent(m)) /\ \A r \in aeReply : ReplySent(r)

\* m_matchIndex and m_nextIndex stand for entries the follower has.
AckedInv ==
    \A s, d \in Server : m_status[s] = Leader =>
        Acked(s, d, m_matchIndex[s][d]) /\ Acked(s, d, m_nextIndex[s][d] - 1)

-----------------------------------------------------------------------------
(* Rounds of heartbeats *)

\* Each peer is asked once in a round, by this process, and the entries of a
\* round end at the same index.
RoundCalls ==
    /\ \A m \in aeArgs : m.to # m.leaderid /\ m.boot = incarnation[m.leaderid]
    /\ \A r \in aeReply : r.from # r.to /\ r.boot = incarnation[r.to]
    /\ \A m, n \in aeArgs : m.leaderid = n.leaderid /\ m.round = n.round =>
         /\ m.prevlogindex + Len(m.entries) = n.prevlogindex + Len(n.entries)
         /\ m.to = n.to => m = n
    /\ \A q, r \in aeReply : q.to = r.to /\ q.round = r.round =>
         /\ q.upto = r.upto
         /\ q.from = r.from => q = r
    /\ \A m \in aeArgs, r \in aeReply : m.leaderid = r.to /\ m.round = r.round =>
         /\ m.prevlogindex + Len(m.entries) = r.upto
         /\ m.to # r.from

\* Who has answered the round and holds the entries it sent.
IsPending(s, r, d) ==
    \/ \E m \in aeArgs : m.leaderid = s /\ m.round = r /\ m.to = d
    \/ \E q \in aeReply : q.to = s /\ q.round = r /\ q.from = d
Holders(s, r, n) == {d \in Server : Acked(s, d, n) /\ ~IsPending(s, r, d)}

\* appendNums counts the leader and peers that hold what the round sent.
Counts(s, r, n) == appendNums[s][r] <= Cardinality(Holders(s, r, n))
ArgsCounted(m) ==
    m_status[m.leaderid] = Leader /\ m.term = m_currentTerm[m.leaderid] =>
        Counts(m.leaderid, m.round, m.prevlogindex + Len(m.entries))
ReplyCounted(q) ==
    m_status[q.to] = Leader /\ q.term = m_currentTerm[q.to] /\ Answers(q) => Counts(q.to, q.round, q.upto)
CountInv == (\A m \in aeArgs : ArgsCounted(m)) /\ \A q \in aeReply : ReplyCounted(q)

\* CommittedOnMajority, for servers that hold the entry in the leader's term.
Having(i, t) == {d \in Server : HasEntry(d, i, t)}
MajorityAt(s) ==
    /\ m_status[s] = Leader /\ m_commitIndex[s] > 0
    /\ m_logs[s][m_commitIndex[s]].logterm = m_currentTerm[s]
    => IsMajority(Cardinality(Having(m_commitIndex[s], m_currentTerm[s])))
MajorityInv == \A s \in Server : MajorityAt(s)

\* What makes CommittedOnMajority inductive: what is on the wire, in the arrays
\* and in the counters of a leader says only what its followers hold.
CommitInv == SentInv /\ AckedInv /\ RoundCalls /\ CountInv /\ MajorityInv

-----------------------------------------------------------------------------
(* No assertion fails *)

\* Without snapshots the last index is the length of the log, and index 0 has
\* term 0.
LEMMA PlainLog ==
    ASSUME TypeInv, NoSnapshots, NEW s \in Server
    PROVE  /\ m_logs[s] \in Seq(Entry) /\ Len(m_logs[s]) \in Nat
           /\ getLastLogIndex(s) = Len(m_logs[s])
           /\ \A i : HoldsIndex(s, i) <=> i \in 0..Len(m_logs[s])
           /\ \A i \in Int : getLogTermFromLogIndex(s, i) = IF i = 0 THEN 0 ELSE m_logs[s][i].logterm
<1>1. /\ m_logs[s] \in Seq(Entry) /\ Len(m_logs[s]) \in Nat
      /\ m_lastSnapshotIncludeIndex[s] = 0 /\ m_lastSnapshotIncludeTerm[s] = 0
  BY DEF TypeInv, TypeOK, LogTypes, NoSnapshots
<1>2. getLastLogIndex(s) = m_lastSnapshotIncludeIndex[s] + Len(m_logs[s])
  BY LastIndex DEF TypeInv, TypeOK
<1>3. getLastLogIndex(s) = Len(m_logs[s])
  BY <1>1, <1>2
<1> QED
  BY <1>1, <1>3 DEF HoldsIndex, getLogTermFromLogIndex, getSlicesIndexFromLogIndex

\* No log gets shorter.
LogsGrow == \A s \in Server : Len(m_logs'[s]) >= Len(m_logs[s])

\* A step that keeps to what AssertInv says where it changes something.
LEMMA GrowKeepsAssertInv ==
    ASSUME TypeOK, TypeOK', AssertInv, LogsGrow,
           UNCHANGED <<exited, m_lastSnapshotIncludeIndex, m_lastSnapshotIncludeTerm, snapNet>>,
           \A s \in Server : m_commitIndex'[s] = m_commitIndex[s] \/ m_commitIndex'[s] <= Len(m_logs'[s]),
           \A s, d \in Server : m_status'[s] = Leader =>
               \/ m_status[s] = Leader /\ m_nextIndex'[s][d] = m_nextIndex[s][d]
               \/ m_nextIndex'[s][d] \in 1..Len(m_logs'[s]) + 1,
           \A s, d \in Server : m_status'[s] = Leader =>
               \/ m_status[s] = Leader /\ m_matchIndex'[s][d] = m_matchIndex[s][d]
               \/ m_matchIndex'[s][d] <= Len(m_logs'[s]),
           \A m \in aeArgs' : m \in aeArgs \/ ArgsIndex(m)',
           \A r \in aeReply' : r \in aeReply \/ ReplyIndex(r)'
    PROVE  AssertInv'
<1>1. \A s \in Server : /\ Len(m_logs[s]) \in Nat /\ Len(m_logs'[s]) \in Nat
                        /\ m_commitIndex[s] \in Nat /\ m_commitIndex'[s] \in Nat
                        /\ \A d \in Server : /\ m_nextIndex[s][d] \in Int /\ m_matchIndex[s][d] \in Nat
                                             /\ m_nextIndex'[s][d] \in Int /\ m_matchIndex'[s][d] \in Nat
  BY DEF TypeOK, MemberTypes, LogTypes
<1>2. /\ \A m \in aeArgs : m.leaderid \in Server /\ m.prevlogindex + Len(m.entries) \in Int
      /\ \A r \in aeReply : r.to \in Server /\ r.upto \in Nat /\ r.updatenextindex \in Int
  BY DEF TypeOK, CallTypes, AppendArgsType, AppendReplyType
<1>3. NoSnapshots' /\ NoAssertFails'
  BY DEF AssertInv, NoSnapshots, NoAssertFails, snapNet
<1>4. \A s \in Server : m_commitIndex'[s] <= Len(m_logs'[s])
  <2> TAKE s \in Server
  <2>1. m_commitIndex[s] <= Len(m_logs[s]) /\ Len(m_logs'[s]) >= Len(m_logs[s])
    BY DEF AssertInv, IndexInv, LogsGrow
  <2> QED
    BY <1>1, <2>1
<1>5. ASSUME NEW s \in Server, NEW d \in Server, m_status'[s] = Leader
      PROVE  m_nextIndex'[s][d] \in 1..Len(m_logs'[s]) + 1 /\ m_matchIndex'[s][d] <= Len(m_logs'[s])
  <2>1. /\ m_status[s] = Leader => /\ m_nextIndex[s][d] \in 1..Len(m_logs[s]) + 1
                                   /\ m_matchIndex[s][d] <= Len(m_logs[s])
        /\ Len(m_logs'[s]) >= Len(m_logs[s])
    BY DEF AssertInv, IndexInv, LogsGrow
  <2> QED
    BY <1>1, <1>5, <2>1
<1>6. IndexInv'
  BY <1>4, <1>5 DEF IndexInv
<1>7. ASSUME NEW m \in aeArgs' PROVE ArgsIndex(m)'
  <2>1. CASE m \in aeArgs
    <3>1. ArgsIndex(m) /\ Len(m_logs'[m.leaderid]) >= Len(m_logs[m.leaderid])
      BY <1>2, <2>1 DEF AssertInv, CallIndexInv, LogsGrow
    <3> QED
      BY <1>1, <1>2, <2>1, <3>1 DEF ArgsIndex
  <2> QED
    BY <2>1
<1>8. ASSUME NEW r \in aeReply' PROVE ReplyIndex(r)'
  <2>1. CASE r \in aeReply
    <3>1. ReplyIndex(r) /\ Len(m_logs'[r.to]) >= Len(m_logs[r.to])
      BY <1>2, <2>1 DEF AssertInv, CallIndexInv, LogsGrow
    <3> QED
      BY <1>1, <1>2, <2>1, <3>1 DEF ReplyIndex
  <2> QED
    BY <2>1
<1> QED
  BY <1>3, <1>6, <1>7, <1>8 DEF AssertInv, CallIndexInv

\* A step that touches neither logs nor what a leader knows, and makes no leader.
Quiet ==
    /\ UNCHANGED <<m_logs, m_commitIndex, m_nextIndex, m_matchIndex, appendNums, incarnation>>
    /\ UNCHANGED <<exited, m_lastSnapshotIncludeIndex, m_lastSnapshotIncludeTerm, snapNet>>
    /\ NoNewLeader
    /\ aeArgs' \subseteq aeArgs /\ aeReply' \subseteq aeReply

\* Such a step leaves the indices as they are.
LEMMA QuietKeepsAssertInv ==
    ASSUME TypeOK, TypeOK', AssertInv, Quiet
    PROVE  AssertInv'
<1>1. LogsGrow
  BY DEF Quiet, LogsGrow, TypeOK, LogTypes
<1> QED
  BY <1>1, GrowKeepsAssertInv DEF Quiet, NoNewLeader

\* Elections, and answers nobody waits for.
LEMMA ElectionQuiet ==
    ASSUME TypeOK, NoSnapshots,
           \/ \E m \in rvArgs : RequestVote(m)
           \/ \E m \in rvReply : VoteHigherTerm(m) \/ VoteIgnored(m) \/ VoteCounted(m)
           \/ \E m \in aeReply : AppendHigherTerm(m) \/ AppendIgnored(m)
           \/ CallFails
           \/ UNCHANGED vars
    PROVE  Quiet
<1> USE DEF memory, workVars, logVars, applyVars, leaderVars, procVars, snapNet, appendNet, Quiet
<1>1. /\ \A m \in rvArgs : m.to \in Server
      /\ \A m \in rvReply : m.to \in Server
      /\ \A m \in aeReply : m.to \in Server
      /\ m_status \in [Server -> {Follower, Candidate, Leader}]
  BY DEF TypeOK, CallTypes, VoteArgsType, VoteReplyType, AppendReplyType, MemberTypes
<1>2. ASSUME NEW m \in rvArgs, RequestVote(m) PROVE Quiet
  <2>1. CASE RequestVoteExpire(m)
    BY <2>1 DEF RequestVoteExpire, NoNewLeader
  <2>2. CASE RequestVoteCurrent(m)
    BY <1>1, <2>2 DEF RequestVoteCurrent, NoNewLeader, Follower, Leader
  <2> QED
    BY <1>2, <2>1, <2>2 DEF RequestVote
<1>3. ASSUME NEW m \in rvReply, VoteHigherTerm(m) \/ VoteIgnored(m) \/ VoteCounted(m) PROVE Quiet
  BY <1>1, <1>3, StepDownNoLeader DEF VoteHigherTerm, VoteIgnored, VoteCounted, NoNewLeader
<1>4. ASSUME NEW m \in aeReply, AppendHigherTerm(m) \/ AppendIgnored(m) PROVE Quiet
  BY <1>1, <1>4, StepDownNoLeader DEF AppendHigherTerm, AppendIgnored, NoNewLeader
<1>5. CASE CallFails
  BY <1>5 DEF CallFails, NoNewLeader, NoSnapshots
<1>6. CASE UNCHANGED vars
  BY <1>6 DEF vars, NoNewLeader
<1> QED
  BY <1>2, <1>3, <1>4, <1>5, <1>6

\* A new leader's arrays point behind its log.
LEMMA BecomeLeaderIndices ==
    ASSUME TypeInv, NoSnapshots, NEW s \in Server, BecomeLeader(s), m_logs' = m_logs
    PROVE  \A x, d \in Server : m_status'[x] = Leader =>
               /\ \/ m_status[x] = Leader /\ m_nextIndex'[x][d] = m_nextIndex[x][d]
                  \/ m_nextIndex'[x][d] \in 1..Len(m_logs'[x]) + 1
               /\ \/ m_status[x] = Leader /\ m_matchIndex'[x][d] = m_matchIndex[x][d]
                  \/ m_matchIndex'[x][d] <= Len(m_logs'[x])
<1>1. /\ m_status \in [Server -> {Follower, Candidate, Leader}]
      /\ m_nextIndex \in [Server -> [Server -> Int]] /\ m_matchIndex \in [Server -> [Server -> Nat]]
  BY DEF TypeInv, TypeOK, MemberTypes
<1>2. getLastLogIndex(s) = Len(m_logs[s]) /\ Len(m_logs[s]) \in Nat
  BY PlainLog
<1>3. \A d \in Server : m_nextIndex'[s][d] = Len(m_logs[s]) + 1 /\ m_matchIndex'[s][d] = 0
  BY <1>1, <1>2 DEF BecomeLeader
<1>4. \A x \in Server \ {s} : /\ m_status'[x] = m_status[x] /\ m_nextIndex'[x] = m_nextIndex[x]
                              /\ m_matchIndex'[x] = m_matchIndex[x]
  BY <1>1 DEF BecomeLeader
<1> QED
  BY <1>2, <1>3, <1>4

\* An election starts, and ends at once where there is one server.
LEMMA doElectionAsserts ==
    ASSUME TypeInv, TypeInv', AssertInv, NEW s \in Server, doElection(s)
    PROVE  AssertInv'
<1> USE DEF logVars, applyVars, procVars, snapNet, appendNet
<1>1. m_status \in [Server -> {Follower, Candidate, Leader}] /\ TypeOK /\ TypeOK' /\ NoSnapshots
  BY DEF TypeInv, TypeOK, MemberTypes, AssertInv
<1>2. CASE Server = {s}
  <2>1. BecomeLeader(s) /\ m_logs' = m_logs
    BY <1>2 DEF doElection
  <2>2. LogsGrow
    BY <2>1 DEF LogsGrow, TypeInv, TypeOK, LogTypes
  <2>3. /\ UNCHANGED <<exited, m_lastSnapshotIncludeIndex, m_lastSnapshotIncludeTerm, snapNet>>
        /\ UNCHANGED <<m_commitIndex, aeArgs, aeReply>>
    BY DEF doElection
  <2> QED
    BY <1>1, <2>1, <2>2, <2>3, BecomeLeaderIndices, GrowKeepsAssertInv
<1>3. CASE Server # {s}
  <2>1. Quiet
    BY <1>1, <1>3 DEF doElection, Quiet, NoNewLeader, Candidate, Leader
  <2> QED
    BY <1>1, <2>1, QuietKeepsAssertInv
<1> QED
  BY <1>2, <1>3

\* Nobody wins a term twice: the votes of the first time are not counted again,
\* and two majorities meet.
LEMMA VoteWinsAsserts ==
    ASSUME TypeInv, TypeInv', ElectInv, LogInv, AssertInv, NEW m \in rvReply, VoteWins(m)
    PROVE  AssertInv'
<1> DEFINE s == m.to
           votes == votedNum[s][m.election] \cup {m.from}
<1> USE DEF logVars, applyVars, procVars, snapNet, appendNet
<1>1. TypeOK /\ TypeOK' /\ NoSnapshots
  BY DEF TypeInv, AssertInv
<1>2. s \in Server /\ m.from \in Server /\ votedNum[s][m.election] \in SUBSET Server
  <2>1. m.to \in Server /\ m.from \in Server /\ m.election \in 1..MaxTerm
    BY <1>1 DEF TypeOK, CallTypes, VoteReplyType
  <2>2. m.election \in 0..MaxTerm
    BY <2>1, BoundAssumption
  <2>3. votedNum \in [Server -> [0..MaxTerm -> SUBSET Server]]
    BY <1>1 DEF TypeOK, MemberTypes
  <2> QED
    BY <2>1, <2>2, <2>3
<1>3. /\ m.term = m_currentTerm[s] /\ m.votegranted /\ IsMajority(Cardinality(votes))
  BY DEF VoteWins
<1>4. m_status[s] # Leader
  <2> SUFFICES ASSUME m_status[s] = Leader PROVE FALSE
    OBVIOUS
  <2>1. PICK w \in elected : w.term = m_currentTerm[s] /\ w.leader = s
    BY <1>2 DEF LogInv, LeaderHoldsTerm
  <2>2. m.term = m.election
    BY <1>3 DEF ElectInv, VotesGiven
  <2>3. w.votes \in SUBSET Server /\ IsMajority(Cardinality(w.votes))
    BY <1>1 DEF TypeOK, HistoryTypes, ElectInv, VotesGiven
  <2>4. \A v \in w.votes : v \notin votedNum[w.leader][w.term]
    BY DEF ElectInv, CountedOnce
  <2>5. m.from \notin w.votes
    BY <1>3, <2>1, <2>2 DEF ElectInv, CountedOnce
  <2>6. \A v \in w.votes : v \notin votes
    BY <1>3, <2>1, <2>2, <2>4, <2>5
  <2>7. votes \in SUBSET Server
    BY <1>2
  <2> HIDE DEF votes
  <2> QED
    BY <1>3, <2>3, <2>6, <2>7, MajoritiesMeet
<1>5. /\ BecomeLeader(s) /\ m_logs' = m_logs
      /\ UNCHANGED <<exited, m_lastSnapshotIncludeIndex, m_lastSnapshotIncludeTerm, snapNet>>
      /\ UNCHANGED <<m_commitIndex, aeArgs, aeReply>>
  BY <1>4 DEF VoteWins
<1>6. LogsGrow
  BY <1>5 DEF LogsGrow, TypeInv, TypeOK, LogTypes
<1> QED
  BY <1>1, <1>2, <1>5, <1>6, BecomeLeaderIndices, GrowKeepsAssertInv

\* Start: the commit index it finds lies in the new log.
LEMMA StartAsserts ==
    ASSUME TypeInv, TypeInv', AssertInv, NEW s \in Server, NEW c \in Command, Start(s, c)
    PROVE  AssertInv'
<1> USE DEF leaderVars, procVars, snapNet, appendNet
<1>1. TypeOK /\ TypeOK' /\ NoSnapshots
  BY DEF TypeInv, AssertInv
<1>2. m_logs \in [Server -> Seq(Entry)] /\ m_commitIndex \in [Server -> Nat] /\ Len(m_logs[s]) \in Nat
  BY <1>1, PlainLog DEF TypeOK, LogTypes, MemberTypes
<1>3. PICK e : m_logs' = [m_logs EXCEPT ![s] = Append(m_logs[s], e)]
  BY DEF Start
<1>4. m_logs'[s] = Append(m_logs[s], e) /\ Len(m_logs'[s]) = Len(m_logs[s]) + 1
  BY <1>2, <1>3
<1>5. LogsGrow
  BY <1>2, <1>3, <1>4 DEF LogsGrow
<1>6. PICK n \in 0..Len(m_logs'[s]) : m_commitIndex' = [m_commitIndex EXCEPT ![s] = n]
  <2>1. m_lastSnapshotIncludeIndex[s] = 0 /\ Len(m_logs'[s]) \in Nat
    BY <1>1, <1>2, <1>4 DEF NoSnapshots
  <2> DEFINE log == m_logs'[s]
  <2>2. \E n \in m_lastSnapshotIncludeIndex[s]..(m_lastSnapshotIncludeIndex[s] + Len(log)) :
            m_commitIndex' = [m_commitIndex EXCEPT ![s] = n]
    BY <1>2 DEF Start
  <2>3. m_lastSnapshotIncludeIndex[s]..(m_lastSnapshotIncludeIndex[s] + Len(log)) = 0..Len(log)
    BY <2>1
  <2> HIDE DEF log
  <2>4. \E n \in 0..Len(log) : m_commitIndex' = [m_commitIndex EXCEPT ![s] = n]
    BY <2>2, <2>3
  <2> QED
    BY <2>4 DEF log
<1>7. \A x \in Server : m_commitIndex'[x] = m_commitIndex[x] \/ m_commitIndex'[x] <= Len(m_logs'[x])
  BY <1>2, <1>4, <1>6
<1>8. /\ UNCHANGED <<exited, m_lastSnapshotIncludeIndex, m_lastSnapshotIncludeTerm, snapNet>>
      /\ UNCHANGED <<m_status, m_nextIndex, m_matchIndex, aeArgs, aeReply>>
  BY DEF Start
<1> QED
  BY <1>1, <1>5, <1>7, <1>8, GrowKeepsAssertInv

\* doHeartBeat: every nextIndex - 1 is in the leader's log, and every call is
\* about the leader's log.
LEMMA doHeartBeatCalls ==
    ASSUME TypeInv, AssertInv, NEW s \in Server, NEW r \in Round, doHeartBeat(s, r)
    PROVE  /\ \A d \in Server \ {s} : m_nextIndex[s][d] \in 1..Len(m_logs[s]) + 1
           /\ aeArgs' = aeArgs \cup {AppendEntriesArgs(s, d, r) : d \in Server \ {s}}
           /\ appendNums' = [appendNums EXCEPT ![s][r] = 1]
           /\ UNCHANGED <<m_currentTerm, m_status, elected, m_logs, m_commitIndex, m_nextIndex, m_matchIndex,
                          m_lastSnapshotIncludeIndex, m_lastSnapshotIncludeTerm, procVars, snapNet,
                          aeReply>>
           /\ m_status[s] = Leader /\ RoundFree(s, r)
<1> DEFINE peers == Server \ {s}
<1>1. NoSnapshots /\ m_status[s] = Leader /\ RoundFree(s, r)
  BY DEF AssertInv, doHeartBeat
<1>2. Len(m_logs[s]) \in Nat /\ \A i : HoldsIndex(s, i) <=> i \in 0..Len(m_logs[s])
  BY <1>1, PlainLog
<1>3. \A d \in peers : m_nextIndex[s][d] \in 1..Len(m_logs[s]) + 1
  BY <1>1 DEF AssertInv, IndexInv
<1>4. m_lastSnapshotIncludeIndex[s] = 0
  BY <1>1 DEF NoSnapshots
<1>5. \A d \in peers : m_nextIndex[s][d] >= 1 /\ ~NeedsSnapshot(s, d) /\ HoldsIndex(s, m_nextIndex[s][d] - 1)
  BY <1>2, <1>3, <1>4 DEF NeedsSnapshot
<1>6. /\ snapTask' = snapTask \cup {<<s, d>> : d \in {p \in peers : NeedsSnapshot(s, p)}}
      /\ aeArgs' = aeArgs \cup {AppendEntriesArgs(s, d, r) : d \in {p \in peers : ~NeedsSnapshot(s, p)}}
      /\ appendNums' = [appendNums EXCEPT ![s][r] = 1]
      /\ UNCHANGED <<termVars, m_status, voteVars, logVars, applyVars, m_nextIndex, m_matchIndex, diskVars,
                     procVars>>
      /\ UNCHANGED <<voteNet, aeReply, isArgs, isReply>>
  BY <1>5 DEF doHeartBeat
<1>7. {p \in peers : ~NeedsSnapshot(s, p)} = peers /\ {p \in peers : NeedsSnapshot(s, p)} = {}
  BY <1>5
<1>8. snapTask' = snapTask /\ aeArgs' = aeArgs \cup {AppendEntriesArgs(s, d, r) : d \in peers}
  BY <1>6, <1>7
<1> QED
  BY <1>1, <1>3, <1>6, <1>8 DEF termVars, voteVars, logVars, applyVars, snapNet

\* What a call of doHeartBeat carries.
LEMMA CallContents ==
    ASSUME TypeInv, NoSnapshots, NEW s \in Server, NEW d \in Server, NEW r,
           m_nextIndex[s][d] \in 1..Len(m_logs[s]) + 1
    PROVE  LET m == AppendEntriesArgs(s, d, r) IN
           /\ m.term = m_currentTerm[s] /\ m.leaderid = s /\ m.to = d /\ m.round = r
           /\ m.boot = incarnation[s]
           /\ m.prevlogindex = m_nextIndex[s][d] - 1
           /\ m.prevlogindex = 0 => m.prevlogterm = 0
           /\ Len(m.entries) \in Nat
           /\ m.prevlogindex + Len(m.entries) = Len(m_logs[s])
           /\ \A k \in 1..Len(m.entries) : m.entries[k] = m_logs[s][m.prevlogindex + k]
<1> DEFINE m == AppendEntriesArgs(s, d, r)
           prev == m_nextIndex[s][d] - 1
<1>1. m_logs[s] \in Seq(Entry) /\ Len(m_logs[s]) \in Nat /\ m_lastSnapshotIncludeIndex[s] = 0
  BY PlainLog DEF NoSnapshots
<1>2. \A i \in Int : getLogTermFromLogIndex(s, i) = IF i = 0 THEN 0 ELSE m_logs[s][i].logterm
  BY PlainLog
<1>3. prev \in 0..Len(m_logs[s]) /\ prev - m_lastSnapshotIncludeIndex[s] = prev
  BY <1>1
<1>4. /\ m.term = m_currentTerm[s] /\ m.leaderid = s /\ m.to = d /\ m.round = r
      /\ m.boot = incarnation[s] /\ m.prevlogindex = prev /\ m.prevlogterm = getLogTermFromLogIndex(s, prev)
      /\ m.entries = SubSeq(m_logs[s], prev - m_lastSnapshotIncludeIndex[s] + 1, Len(m_logs[s]))
  BY DEF AppendEntriesArgs
<1> HIDE DEF m, prev
<1>5. /\ Len(m.entries) = Len(m_logs[s]) - prev
      /\ \A k \in 1..(Len(m_logs[s]) - prev) : m.entries[k] = m_logs[s][prev + k]
  BY <1>1, <1>3, <1>4, Suffix
<1>6. m.prevlogindex = 0 => m.prevlogterm = 0
  BY <1>2, <1>3, <1>4
<1>7. Len(m.entries) \in Nat /\ m.prevlogindex + Len(m.entries) = Len(m_logs[s])
  BY <1>1, <1>3, <1>4, <1>5
<1> QED
  BY <1>3, <1>4, <1>5, <1>6, <1>7 DEF m, prev

\* doHeartBeat keeps AssertInv.
LEMMA doHeartBeatAsserts ==
    ASSUME TypeInv, TypeInv', AssertInv, NEW s \in Server, NEW r \in Round, doHeartBeat(s, r)
    PROVE  AssertInv'
<1>1. TypeOK /\ TypeOK' /\ NoSnapshots
  BY DEF TypeInv, AssertInv
<1>2. /\ \A d \in Server \ {s} : m_nextIndex[s][d] \in 1..Len(m_logs[s]) + 1
      /\ aeArgs' = aeArgs \cup {AppendEntriesArgs(s, d, r) : d \in Server \ {s}}
      /\ UNCHANGED <<m_status, m_logs, m_commitIndex, m_nextIndex, m_matchIndex,
                     m_lastSnapshotIncludeIndex, m_lastSnapshotIncludeTerm, exited, snapNet, aeReply>>
  BY doHeartBeatCalls DEF procVars
<1>3. LogsGrow /\ Len(m_logs[s]) \in Nat
  BY <1>1, <1>2, PlainLog DEF LogsGrow, TypeOK, LogTypes
<1>4. ASSUME NEW d \in Server \ {s}, NEW m, m = AppendEntriesArgs(s, d, r) PROVE ArgsIndex(m)'
  BY <1>1, <1>2, <1>3, <1>4, CallContents DEF ArgsIndex
<1>5. \A m \in aeArgs' : m \in aeArgs \/ ArgsIndex(m)'
  BY <1>2, <1>4
<1> QED
  BY <1>1, <1>2, <1>3, <1>5, GrowKeepsAssertInv

\* What is left alone by every answer to AppendEntries.
AnswerLeaves ==
    /\ UNCHANGED <<elected, m_lastSnapshotIncludeIndex, m_lastSnapshotIncludeTerm, leaderVars, procVars,
                   snapNet>>

\* AppendEntriesTooNew and AppendEntriesMismatch.
Refuses(m, next) ==
    /\ m.term >= m_currentTerm[m.to]
    /\ FollowTerm(m.to, m.term)
    /\ next \in 1..m.prevlogindex
    /\ AnswerAppend(m, m.term, FALSE, next)
    /\ UNCHANGED <<m_logs, m_commitIndex>>

\* AppendEntriesMatch.
Accepts(m) ==
    LET s == m.to
        log == MergeEntries(m_logs[s], m.prevlogindex, m.entries)
    IN  /\ m.term >= m_currentTerm[s]
        /\ FollowTerm(s, m.term)
        /\ m.prevlogindex \in 0..Len(m_logs[s])
        /\ m_logs' = [m_logs EXCEPT ![s] = log]
        /\ \E c \in 0..Len(log) : m_commitIndex' = [m_commitIndex EXCEPT ![s] = c]
        /\ AnswerAppend(m, m.term, TRUE, 0)

\* AppendEntries answers, and its assertions hold.
LEMMA AppendEntriesAnswers ==
    ASSUME TypeInv, LogInv, AssertInv, NEW m \in aeArgs, AppendEntries(m)
    PROVE  /\ AnswerLeaves
           /\ \/ AppendEntriesStale(m)
              \/ \E next \in Int : Refuses(m, next)
              \/ Accepts(m)
<1> DEFINE s == m.to
<1> USE DEF memory, workVars, voteVars, logVars, applyVars, AnswerLeaves
<1>1. /\ s \in Server /\ m.term \in Int /\ m.prevlogindex \in Nat /\ m.entries \in Seq(Entry)
      /\ Len(m.entries) \in Nat /\ m.leadercommit \in Nat
  BY DEF TypeInv, TypeOK, CallTypes, AppendArgsType
<1>2. /\ NoSnapshots /\ m_lastSnapshotIncludeIndex[s] = 0
      /\ m_commitIndex[s] \in Nat /\ m_commitIndex[s] <= Len(m_logs[s])
  BY <1>1 DEF AssertInv, NoSnapshots, IndexInv, TypeInv, TypeOK, MemberTypes
<1>3. /\ m_logs[s] \in Seq(Entry) /\ Len(m_logs[s]) \in Nat
      /\ getLastLogIndex(s) = Len(m_logs[s])
      /\ \A i : HoldsIndex(s, i) <=> i \in 0..Len(m_logs[s])
      /\ \A i \in Int : getLogTermFromLogIndex(s, i) = IF i = 0 THEN 0 ELSE m_logs[s][i].logterm
  BY <1>1, <1>2, PlainLog
<1>4. CASE AppendEntriesStale(m)
  BY <1>4 DEF AppendEntriesStale
<1>5. CASE AppendEntriesTooNew(m)
  <2>1. NextAfterShortLog(s) \in 1..m.prevlogindex
    BY <1>1, <1>3, <1>5 DEF AppendEntriesTooNew, NextAfterShortLog
  <2>2. Refuses(m, NextAfterShortLog(s)) /\ AnswerLeaves
    BY <1>5, <2>1 DEF AppendEntriesTooNew, Refuses
  <2> QED
    BY <2>1, <2>2
<1>6. CASE AppendEntriesBelowSnapshot(m)
  BY <1>1, <1>2, <1>6 DEF AppendEntriesBelowSnapshot
<1>7. CASE AppendEntriesMismatch(m)
  <2>1. /\ m.prevlogindex \in 0..Len(m_logs[s])
        /\ m.prevlogterm # getLogTermFromLogIndex(s, m.prevlogindex)
    BY <1>3, <1>7 DEF AppendEntriesMismatch, matchLog
  <2>2. m.prevlogindex # 0
    BY <1>3, <2>1 DEF AssertInv, CallIndexInv, ArgsIndex
  <2>3. PICK i \in m_lastSnapshotIncludeIndex[s]..m.prevlogindex :
             ConflictStart(s, m.prevlogindex, i) /\ AnswerAppend(m, m.term, FALSE, i)
    BY <1>7 DEF AppendEntriesMismatch
  <2>4. i = m.prevlogindex \/ i > m_lastSnapshotIncludeIndex[s]
    BY <2>3 DEF ConflictStart
  <2>5. i \in 1..m.prevlogindex
    BY <1>1, <1>2, <2>2, <2>3, <2>4
  <2>6. Refuses(m, i) /\ AnswerLeaves
    BY <1>7, <2>3, <2>5 DEF AppendEntriesMismatch, Refuses
  <2> QED
    BY <2>5, <2>6
<1>8. CASE AppendEntriesMatch(m)
  <2> DEFINE after == m.prevlogindex - m_lastSnapshotIncludeIndex[s]
             log == MergeEntries(m_logs[s], after, m.entries)
             last == m_lastSnapshotIncludeIndex[s] + Len(log)
             commit == IF m.leadercommit > m_commitIndex[s] THEN MinOf(m.leadercommit, last)
                                                            ELSE m_commitIndex[s]
  <2>1. m.prevlogindex \in 0..Len(m_logs[s]) /\ after = m.prevlogindex
    BY <1>1, <1>2, <1>3, <1>8 DEF AppendEntriesMatch
  <2>2. Len(log) \in Nat /\ Len(log) >= Len(m_logs[s]) /\ last = Len(log)
    <3>1. after \in 0..Len(m_logs[s])
      BY <2>1
    <3>2. log \in Seq(Entry) /\ Len(log) = MaxOf(Len(m_logs[s]), after + Len(m.entries))
      BY <1>1, <1>3, <3>1, MergeProperties
    <3> QED
      BY <1>1, <1>2, <1>3, <2>1, <3>2 DEF MaxOf
  <2>3. commit \in 0..Len(log) /\ ~(commit > last)
    BY <1>1, <1>2, <1>3, <2>2 DEF MinOf
  <2>4. ~CommandClash(m_logs[s], after, m.entries)
    <3> SUFFICES ASSUME NEW j \in 1..Len(m.entries), m.prevlogindex + j <= Len(m_logs[s]),
                        m_logs[s][m.prevlogindex + j].logterm = m.entries[j].logterm
                 PROVE  m_logs[s][m.prevlogindex + j].command = m.entries[j].command
      BY <2>1 DEF CommandClash
    <3>1. m.prevlogindex + j \in 1..Len(m_logs[s])
      BY <1>1, <1>3
    <3>2. /\ m_logs[s][m.prevlogindex + j].logindex = m_lastSnapshotIncludeIndex[s] + (m.prevlogindex + j)
          /\ m.entries[j].logindex = m.prevlogindex + j
      BY <1>1, <3>1 DEF TypeInv, LogContiguous
    <3>3. m_logs[s][m.prevlogindex + j] \in proposed /\ m.entries[j] \in proposed
      BY <1>1, <3>1 DEF LogInv, EntriesProposed
    <3>4. m_logs[s][m.prevlogindex + j].logindex = m.entries[j].logindex
      BY <1>1, <1>2, <3>2
    <3> QED
      BY <3>3, <3>4 DEF LogInv, ProposedOnce
  <2>5. /\ FollowTerm(s, m.term) /\ m.term >= m_currentTerm[s]
        /\ m_logs' = [m_logs EXCEPT ![s] = log]
        /\ m_commitIndex' = [m_commitIndex EXCEPT ![s] = commit]
        /\ AnswerAppend(m, m.term, TRUE, 0) /\ AnswerLeaves
    BY <1>8, <2>3, <2>4 DEF AppendEntriesMatch
  <2> HIDE DEF commit
  <2>6. Accepts(m)
    BY <2>1, <2>3, <2>5 DEF Accepts
  <2> QED
    BY <2>5, <2>6
<1> QED
  BY <1>4, <1>5, <1>6, <1>7, <1>8 DEF AppendEntries

\* Accepted entries are in the log afterwards, and the log is not shorter.
LEMMA AcceptedLog ==
    ASSUME TypeInv, NEW m \in aeArgs, Accepts(m)
    PROVE  LET s == m.to
               log == m_logs'[s]
           IN  /\ log = MergeEntries(m_logs[s], m.prevlogindex, m.entries)
               /\ Len(log) \in Nat /\ Len(log) >= Len(m_logs[s])
               /\ Len(log) >= m.prevlogindex + Len(m.entries)
               /\ \A k \in 1..Len(m.entries) : log[m.prevlogindex + k].logterm = m.entries[k].logterm
               /\ \A i \in 1..Len(m_logs[s]) :
                    \/ log[i] = m_logs[s][i]
                    \/ i - m.prevlogindex \in 1..Len(m.entries) /\ log[i] = m.entries[i - m.prevlogindex]
               /\ \A d \in Server \ {s} : m_logs'[d] = m_logs[d]
<1> DEFINE s == m.to
           log == MergeEntries(m_logs[s], m.prevlogindex, m.entries)
<1>1. /\ s \in Server /\ m.entries \in Seq(Entry) /\ Len(m.entries) \in Nat
      /\ m_logs \in [Server -> Seq(Entry)] /\ m_logs[s] \in Seq(Entry) /\ Len(m_logs[s]) \in Nat
  BY DEF TypeInv, TypeOK, CallTypes, AppendArgsType, LogTypes
<1>2. m.prevlogindex \in 0..Len(m_logs[s]) /\ m_logs' = [m_logs EXCEPT ![s] = log]
  BY DEF Accepts
<1>3. /\ log \in Seq(Entry) /\ Len(log) = MaxOf(Len(m_logs[s]), m.prevlogindex + Len(m.entries))
      /\ \A k \in 1..Len(log) :
           \/ k \in 1..Len(m_logs[s]) /\ log[k] = m_logs[s][k]
           \/ k - m.prevlogindex \in 1..Len(m.entries) /\ log[k] = m.entries[k - m.prevlogindex]
  BY <1>1, <1>2, MergeProperties
<1>4. ASSUME NEW k \in 1..Len(m.entries)
      PROVE  log[m.prevlogindex + k].logterm = m.entries[k].logterm
  <2>1. m.prevlogindex \in Nat /\ k \in Nat /\ (m.prevlogindex + k) - m.prevlogindex = k
    BY <1>1, <1>2
  <2>2. m.prevlogindex + k \in 1..MaxOf(Len(m_logs[s]), m.prevlogindex + Len(m.entries))
    BY <1>1, <2>1 DEF MaxOf
  <2>3. log[m.prevlogindex + k] =
           IF m.prevlogindex + k <= Len(m_logs[s])
                => m_logs[s][m.prevlogindex + k].logterm # m.entries[k].logterm
           THEN m.entries[k] ELSE m_logs[s][m.prevlogindex + k]
    BY <2>1, <2>2 DEF MergeEntries
  <2> QED
    BY <2>3
<1> HIDE DEF log
<1>5. m_logs'[s] = log /\ \A d \in Server \ {s} : m_logs'[d] = m_logs[d]
  BY <1>1, <1>2
<1>6. Len(log) \in Nat /\ Len(log) >= Len(m_logs[s]) /\ Len(log) >= m.prevlogindex + Len(m.entries)
  BY <1>1, <1>2, <1>3 DEF MaxOf
<1>7. \A i \in 1..Len(m_logs[s]) : i \in 1..Len(log)
  BY <1>1, <1>6
<1> QED
  BY <1>3, <1>4, <1>5, <1>6, <1>7 DEF log

\* A reply ends where the call ended, and what it refuses is in the caller's log.
LEMMA AnswerIndex ==
    ASSUME TypeInv, AssertInv, NEW m \in aeArgs, LogsGrow, NEW term, NEW success \in BOOLEAN,
           NEW next \in Int, success \/ next = -100 \/ next \in 1..m.prevlogindex
    PROVE  ReplyIndex(AppendReply(m, term, success, next))'
<1> DEFINE q == AppendReply(m, term, success, next)
<1>1. /\ m.leaderid \in Server /\ m.prevlogindex \in Nat /\ Len(m.entries) \in Nat
      /\ Len(m_logs[m.leaderid]) \in Nat
  BY DEF TypeInv, TypeOK, CallTypes, AppendArgsType, LogTypes
<1>2. /\ m.prevlogindex + Len(m.entries) <= Len(m_logs[m.leaderid])
      /\ Len(m_logs'[m.leaderid]) >= Len(m_logs[m.leaderid])
  BY <1>1 DEF AssertInv, CallIndexInv, ArgsIndex, LogsGrow
<1>3. /\ q.to = m.leaderid /\ q.upto = m.prevlogindex + Len(m.entries) /\ q.success = success
      /\ q.updatenextindex = next
  BY DEF AppendReply
<1> HIDE DEF q
<1>4. q.upto <= Len(m_logs'[q.to])
  BY <1>1, <1>2, <1>3
<1>5. next \in 1..m.prevlogindex => next \in 1..Len(m_logs'[q.to])
  BY <1>1, <1>2, <1>3
<1>6. ReplyIndex(q)'
  BY <1>3, <1>4, <1>5 DEF ReplyIndex
<1> QED
  BY <1>6 DEF q

\* AppendEntries keeps AssertInv.
LEMMA AppendEntriesAsserts ==
    ASSUME TypeInv, TypeInv', LogInv, AssertInv, NEW m \in aeArgs, AppendEntries(m)
    PROVE  AssertInv'
<1> DEFINE s == m.to
<1>1. TypeOK /\ TypeOK' /\ s \in Server
  BY DEF TypeInv, TypeOK, CallTypes, AppendArgsType
<1>2. \A d \in Server : Len(m_logs[d]) \in Nat
  BY <1>1 DEF TypeOK, LogTypes
<1>3. AnswerLeaves
  BY AppendEntriesAnswers
<1>4. /\ UNCHANGED <<exited, m_lastSnapshotIncludeIndex, m_lastSnapshotIncludeTerm, snapNet>>
      /\ UNCHANGED <<m_nextIndex, m_matchIndex>>
  BY <1>3 DEF AnswerLeaves, leaderVars, procVars
<1>5. ASSUME NEW term, NEW success \in BOOLEAN, NEW next \in Int, LogsGrow,
             success \/ next = -100 \/ next \in 1..m.prevlogindex,
             AnswerAppend(m, term, success, next), NoNewLeader,
             \A d \in Server : m_commitIndex'[d] = m_commitIndex[d] \/ m_commitIndex'[d] <= Len(m_logs'[d])
      PROVE  AssertInv'
  <2> DEFINE q == AppendReply(m, term, success, next)
  <2>1. ReplyIndex(q)'
    BY <1>5, AnswerIndex
  <2>2. aeArgs' = aeArgs \ {m} /\ aeReply' = aeReply \cup {q}
    BY <1>5 DEF AnswerAppend
  <2> HIDE DEF q
  <2>3. /\ \A n \in aeArgs' : n \in aeArgs \/ ArgsIndex(n)'
        /\ \A n \in aeReply' : n \in aeReply \/ ReplyIndex(n)'
    BY <2>1, <2>2
  <2> QED
    BY <1>1, <1>4, <1>5, <2>3, GrowKeepsAssertInv DEF NoNewLeader
<1>6. CASE AppendEntriesStale(m)
  <2>1. /\ AnswerAppend(m, m_currentTerm[s], FALSE, -100)
        /\ UNCHANGED <<m_logs, m_commitIndex, m_status>>
    BY <1>6 DEF AppendEntriesStale, memory, workVars, logVars, applyVars
  <2>2. LogsGrow /\ NoNewLeader
    BY <1>2, <2>1 DEF LogsGrow, NoNewLeader
  <2>3. FALSE \in BOOLEAN /\ -100 \in Int
    OBVIOUS
  <2> QED
    BY <1>5, <2>1, <2>2, <2>3
<1>7. ASSUME NEW next \in Int, Refuses(m, next) PROVE AssertInv'
  <2>1. /\ AnswerAppend(m, m.term, FALSE, next) /\ next \in 1..m.prevlogindex
        /\ UNCHANGED <<m_logs, m_commitIndex>> /\ FollowTerm(s, m.term)
    BY <1>7 DEF Refuses
  <2>2. LogsGrow /\ NoNewLeader
    BY <1>1, <1>2, <2>1, StepDownNoLeader DEF LogsGrow
  <2>3. FALSE \in BOOLEAN
    OBVIOUS
  <2> QED
    BY <1>5, <2>1, <2>2, <2>3
<1>8. CASE Accepts(m)
  <2>1. /\ AnswerAppend(m, m.term, TRUE, 0) /\ FollowTerm(s, m.term)
        /\ \E c \in 0..Len(MergeEntries(m_logs[s], m.prevlogindex, m.entries)) :
             m_commitIndex' = [m_commitIndex EXCEPT ![s] = c]
    BY <1>8 DEF Accepts
  <2>2. /\ m_logs'[s] = MergeEntries(m_logs[s], m.prevlogindex, m.entries)
        /\ Len(m_logs'[s]) \in Nat /\ Len(m_logs'[s]) >= Len(m_logs[s])
        /\ \A d \in Server \ {s} : m_logs'[d] = m_logs[d]
    BY <1>8, AcceptedLog
  <2>3. LogsGrow /\ NoNewLeader
    BY <1>1, <1>2, <2>1, <2>2, StepDownNoLeader DEF LogsGrow
  <2>4. \A d \in Server : m_commitIndex'[d] = m_commitIndex[d] \/ m_commitIndex'[d] <= Len(m_logs'[d])
    <3>1. m_commitIndex \in [Server -> Nat]
      BY <1>1 DEF TypeOK, MemberTypes
    <3>2. PICK c \in 0..Len(m_logs'[s]) : m_commitIndex' = [m_commitIndex EXCEPT ![s] = c]
      BY <2>1, <2>2
    <3> QED
      BY <2>2, <3>1, <3>2
  <2>5. TRUE \in BOOLEAN /\ 0 \in Int
    OBVIOUS
  <2> QED
    BY <1>5, <2>1, <2>3, <2>4, <2>5
<1> QED
  BY <1>6, <1>7, <1>8, AppendEntriesAnswers

\* A leader that hears of success: what the reply names is in its log.
LEMMA AppendAcceptedCounts ==
    ASSUME TypeInv, AssertInv, NEW m \in aeReply, AppendAccepted(m)
    PROVE  LET s == m.to
               match == MaxOf(m_matchIndex[s][m.from], m.upto)
               count == appendNums[s][m.round] + 1
               commit == CommitAfterReply(s, m, count)
           IN  /\ m_status[s] = Leader /\ m.term = m_currentTerm[s] /\ m.success
               /\ match \in 0..Len(m_logs[s]) /\ commit \in 0..Len(m_logs[s])
               /\ aeReply' = aeReply \ {m}
               /\ m_matchIndex' = [m_matchIndex EXCEPT ![s][m.from] = match]
               /\ m_nextIndex' = [m_nextIndex EXCEPT ![s][m.from] = match + 1]
               /\ appendNums' = [appendNums EXCEPT ![s][m.round] = IF IsMajority(count) THEN 0 ELSE count]
               /\ m_commitIndex' = [m_commitIndex EXCEPT ![s] = commit]
               /\ UNCHANGED <<m_currentTerm, m_status, elected, m_logs, m_lastSnapshotIncludeIndex,
                              m_lastSnapshotIncludeTerm, procVars, aeArgs, snapNet>>
<1> DEFINE s == m.to
           match == MaxOf(m_matchIndex[s][m.from], m.upto)
           count == appendNums[s][m.round] + 1
           commit == CommitAfterReply(s, m, count)
<1>1. /\ s \in Server /\ m.from \in Server /\ m.upto \in Nat
      /\ m_matchIndex[s][m.from] \in Nat /\ m_commitIndex[s] \in Nat
  BY DEF TypeInv, TypeOK, CallTypes, AppendReplyType, MemberTypes
<1>2. m_status[s] = Leader /\ m.term = m_currentTerm[s] /\ m.success
  BY DEF AppendAccepted, LeaderHears
<1>3. Len(m_logs[s]) \in Nat /\ getLastLogIndex(s) = Len(m_logs[s])
  BY <1>1, PlainLog DEF AssertInv
<1>4. /\ m_matchIndex[s][m.from] <= Len(m_logs[s]) /\ m_commitIndex[s] <= Len(m_logs[s])
      /\ m.upto <= Len(m_logs[s])
  BY <1>1, <1>2 DEF AssertInv, IndexInv, CallIndexInv, ReplyIndex
<1>5. match \in 0..Len(m_logs[s])
  BY <1>1, <1>3, <1>4 DEF MaxOf
<1>6. commit \in 0..Len(m_logs[s])
  BY <1>1, <1>3, <1>4 DEF MaxOf, CommitAfterReply
<1>7. ~(match > getLastLogIndex(s) \/ (IsMajority(count) /\ commit > getLastLogIndex(s)))
  BY <1>3, <1>5, <1>6
<1> HIDE DEF match, commit
<1>8. /\ aeReply' = aeReply \ {m}
      /\ m_matchIndex' = [m_matchIndex EXCEPT ![s][m.from] = match]
      /\ m_nextIndex' = [m_nextIndex EXCEPT ![s][m.from] = match + 1]
      /\ appendNums' = [appendNums EXCEPT ![s][m.round] = IF IsMajority(count) THEN 0 ELSE count]
      /\ m_commitIndex' = [m_commitIndex EXCEPT ![s] = commit]
      /\ UNCHANGED <<m_currentTerm, m_status, elected, m_logs, m_lastSnapshotIncludeIndex,
                     m_lastSnapshotIncludeTerm, procVars, aeArgs, snapNet>>
  BY <1>7 DEF AppendAccepted, match, commit, termVars, voteVars, logVars
<1> QED
  BY <1>2, <1>5, <1>6, <1>8 DEF match, commit

\* sendAppendEntries keeps AssertInv.
LEMMA sendAppendEntriesAsserts ==
    ASSUME TypeInv, TypeInv', AssertInv, NEW m \in aeReply, sendAppendEntries(m)
    PROVE  AssertInv'
<1> DEFINE s == m.to
<1>1. /\ TypeOK /\ TypeOK' /\ NoSnapshots /\ s \in Server /\ m.from \in Server
      /\ \A d \in Server : Len(m_logs[d]) \in Nat
      /\ m_matchIndex \in [Server -> [Server -> Nat]] /\ m_nextIndex \in [Server -> [Server -> Int]]
      /\ m_commitIndex \in [Server -> Nat]
  <2>1. TypeOK /\ TypeOK' /\ NoSnapshots
    BY DEF TypeInv, AssertInv
  <2>2. m \in AppendReplyType
    BY <2>1 DEF TypeOK, CallTypes
  <2>3. s \in Server /\ m.from \in Server
    BY <2>2 DEF AppendReplyType
  <2>4. \A d \in Server : Len(m_logs[d]) \in Nat
    BY <2>1 DEF TypeOK, LogTypes
  <2>5. /\ m_matchIndex \in [Server -> [Server -> Nat]] /\ m_nextIndex \in [Server -> [Server -> Int]]
        /\ m_commitIndex \in [Server -> Nat]
    BY <2>1 DEF TypeOK, MemberTypes
  <2> QED
    BY <2>1, <2>3, <2>4, <2>5
<1>2. CASE AppendHigherTerm(m) \/ AppendIgnored(m)
  BY <1>1, <1>2, ElectionQuiet, QuietKeepsAssertInv
<1>3. CASE AppendRefused(m)
  <2>1. m_status[s] = Leader /\ ~m.success /\ m.updatenextindex # -100
    BY <1>3 DEF AppendRefused, LeaderHears
  <2>2. m.updatenextindex \in 1..Len(m_logs[s])
    BY <2>1 DEF AssertInv, CallIndexInv, ReplyIndex
  <2>3. /\ m_nextIndex' = [m_nextIndex EXCEPT ![s][m.from] = m.updatenextindex]
        /\ UNCHANGED <<m_logs, m_commitIndex, m_matchIndex, m_status, aeArgs>>
        /\ UNCHANGED <<exited, m_lastSnapshotIncludeIndex, m_lastSnapshotIncludeTerm, snapNet>>
        /\ aeReply' \subseteq aeReply
    BY <1>3 DEF AppendRefused, logVars, applyVars, procVars
  <2>4. \A x, d \in Server : \/ m_nextIndex'[x][d] = m_nextIndex[x][d]
                             \/ m_nextIndex'[x][d] \in 1..Len(m_logs'[x]) + 1
    <3> TAKE x, d \in Server
    <3>1. m_nextIndex'[x][d] = IF x = s /\ d = m.from THEN m.updatenextindex ELSE m_nextIndex[x][d]
      BY <1>1, <2>3
    <3> QED
      <4>1. m.updatenextindex \in 1..Len(m_logs'[s]) + 1
        <5>1. Len(m_logs[s]) \in Nat
          BY <1>1
        <5> HIDE DEF s
        <5>2. m.updatenextindex \in 1..Len(m_logs[s]) + 1
          BY <2>2, <5>1
        <5> QED
          BY <2>3, <5>2
      <4> QED
        BY <3>1, <4>1
  <2>5. LogsGrow
    BY <1>1, <2>3 DEF LogsGrow
  <2> QED
    BY <1>1, <2>3, <2>4, <2>5, GrowKeepsAssertInv
<1>4. CASE AppendAccepted(m)
  <2>1. PICK match \in 0..Len(m_logs[s]), commit \in 0..Len(m_logs[s]) :
             /\ aeReply' = aeReply \ {m}
             /\ m_matchIndex' = [m_matchIndex EXCEPT ![s][m.from] = match]
             /\ m_nextIndex' = [m_nextIndex EXCEPT ![s][m.from] = match + 1]
             /\ m_commitIndex' = [m_commitIndex EXCEPT ![s] = commit]
             /\ UNCHANGED <<m_status, m_logs, m_lastSnapshotIncludeIndex, m_lastSnapshotIncludeTerm,
                            procVars, aeArgs, snapNet>>
    BY <1>4, AppendAcceptedCounts
  <2>2. \A x, d \in Server :
          /\ \/ m_nextIndex'[x][d] = m_nextIndex[x][d]
             \/ m_nextIndex'[x][d] \in 1..Len(m_logs'[x]) + 1
          /\ \/ m_matchIndex'[x][d] = m_matchIndex[x][d]
             \/ m_matchIndex'[x][d] <= Len(m_logs'[x])
    <3> TAKE x, d \in Server
    <3>1. /\ m_nextIndex'[x][d] = IF x = s /\ d = m.from THEN match + 1 ELSE m_nextIndex[x][d]
          /\ m_matchIndex'[x][d] = IF x = s /\ d = m.from THEN match ELSE m_matchIndex[x][d]
      BY <1>1, <2>1
    <3>2. match + 1 \in 1..Len(m_logs'[s]) + 1 /\ match <= Len(m_logs'[s])
      <4>1. Len(m_logs[s]) \in Nat
        BY <1>1
      <4> HIDE DEF s
      <4>2. match + 1 \in 1..Len(m_logs[s]) + 1 /\ match <= Len(m_logs[s])
        BY <4>1
      <4> QED
        BY <2>1, <4>2
    <3> QED
      BY <3>1, <3>2
  <2>3. LogsGrow /\ exited' = exited
    BY <1>1, <2>1 DEF LogsGrow, procVars
  <2>4. \A d \in Server : m_commitIndex'[d] = m_commitIndex[d] \/ m_commitIndex'[d] <= Len(m_logs'[d])
    BY <1>1, <2>1
  <2> QED
    BY <1>1, <2>1, <2>2, <2>3, <2>4, GrowKeepsAssertInv
<1> QED
  BY <1>2, <1>3, <1>4 DEF sendAppendEntries

\* applierTicker finds what is committed in the log.
LEMMA applierTickerQuiet ==
    ASSUME TypeInv, AssertInv, NEW s \in Server, applierTicker(s)
    PROVE  Quiet /\ UNCHANGED <<m_currentTerm, m_status, elected, appendNums, incarnation, aeArgs, aeReply>>
<1>1. getLastLogIndex(s) = Len(m_logs[s]) /\ Len(m_logs[s]) \in Nat
  BY PlainLog DEF AssertInv
<1>2. m_commitIndex[s] <= Len(m_logs[s]) /\ m_lastSnapshotIncludeIndex[s] = 0
  BY DEF AssertInv, IndexInv, NoSnapshots
<1>3. m_lastApplied[s] \in Nat /\ m_commitIndex[s] \in Nat
  BY DEF TypeInv, TypeOK, MemberTypes
<1>4. ~(m_commitIndex[s] > getLastLogIndex(s) \/ m_lastApplied[s] < m_lastSnapshotIncludeIndex[s])
  BY <1>1, <1>2, <1>3
<1> QED
  BY <1>4 DEF applierTicker, Quiet, NoNewLeader, termVars, voteVars, logVars, leaderVars, procVars,
     snapNet,
              appendNet

\* Snapshots stay out when Snapshot is never called.
LEMMA NoSnapshotStep ==
    ASSUME MaxSnapshotIndex = 0, NoSnapshots
    PROVE  /\ \A s \in Server, i \in 1..MaxSnapshotIndex : ~Snapshot(s, i)
           /\ \A s, d \in Server : ~leaderSendSnapShot(s, d)
           /\ isArgs = {} /\ isReply = {}
BY DEF NoSnapshots, leaderSendSnapShot

\* The steps there are without snapshots.
LEMMA PlainCases ==
    ASSUME MaxSnapshotIndex = 0, NoSnapshots, [Next]_vars
    PROVE  \/ \E s \in Server : \/ doElection(s) \/ applierTicker(s)
                                \/ \E c \in Command : Start(s, c)
                                \/ \E r \in Round : doHeartBeat(s, r)
           \/ \E m \in rvReply : VoteWins(m)
           \/ \E m \in aeArgs : AppendEntries(m)
           \/ \E m \in aeReply : AppendRefused(m) \/ AppendAccepted(m)
           \/ \/ \E m \in rvArgs : RequestVote(m)
              \/ \E m \in rvReply : VoteHigherTerm(m) \/ VoteIgnored(m) \/ VoteCounted(m)
              \/ \E m \in aeReply : AppendHigherTerm(m) \/ AppendIgnored(m)
              \/ CallFails
              \/ UNCHANGED vars
BY NoSnapshotStep DEF Next, ServerStep, sendRequestVote, sendAppendEntries

\* Every step keeps AssertInv.
LEMMA AssertInvStep ==
    ASSUME MaxSnapshotIndex = 0, TypeInv, TypeInv', ElectInv, LogInv, AssertInv, [Next]_vars
    PROVE  AssertInv'
<1>1. NoSnapshots /\ TypeOK /\ TypeOK'
  BY DEF AssertInv, TypeInv
<1>2. ASSUME NEW s \in Server, applierTicker(s) PROVE AssertInv'
  BY <1>1, <1>2, applierTickerQuiet, QuietKeepsAssertInv
<1>3. ASSUME NEW m \in aeReply, AppendRefused(m) \/ AppendAccepted(m) PROVE AssertInv'
  BY <1>3, sendAppendEntriesAsserts DEF sendAppendEntries
<1>4. CASE \/ \E m \in rvArgs : RequestVote(m)
           \/ \E m \in rvReply : VoteHigherTerm(m) \/ VoteIgnored(m) \/ VoteCounted(m)
           \/ \E m \in aeReply : AppendHigherTerm(m) \/ AppendIgnored(m)
           \/ CallFails
           \/ UNCHANGED vars
  BY <1>1, <1>4, ElectionQuiet, QuietKeepsAssertInv
<1> QED
  BY <1>1, <1>2, <1>3, <1>4, PlainCases, doElectionAsserts, StartAsserts, doHeartBeatAsserts,
     VoteWinsAsserts,
     AppendEntriesAsserts

\* At the start logs are empty and no call is under way.
LEMMA AssertInvInit == Init => AssertInv
BY DEF Init, AssertInv, NoSnapshots, IndexInv, CallIndexInv, NoAssertFails, Follower, Leader

\* AssertInv holds in every reachable state.
THEOREM IndicesInLog ==
    ASSUME MaxSnapshotIndex = 0
    PROVE  Spec => []AssertInv
<1>1. TypeInv /\ TypeInv' /\ ElectInv /\ LogInv /\ AssertInv /\ [Next]_vars => AssertInv'
  BY AssertInvStep
<1> QED
  BY <1>1, AssertInvInit, TypeCorrect, VotesCounted, EntriesAreProposed, PTL DEF Spec

\* As long as KvServer takes no snapshot, no myAssert of the Raft peer ends the
\* process: every index lies in the log it is used for, a leader is elected once
\* per term, and entries of one index and term have one command.
THEOREM NoAssertEverFails ==
    ASSUME MaxSnapshotIndex = 0
    PROVE  Spec => []NoAssertFails
<1>1. AssertInv => NoAssertFails
  BY DEF AssertInv
<1> QED
  BY <1>1, IndicesInLog, PTL

-----------------------------------------------------------------------------
(* What a follower has for its leader, it keeps *)

\* What is known of every reachable state.
LogsSound == TypeInv /\ ElectInv /\ LogInv /\ AssertInv

\* Logs change by Start and by accepted entries only.
LEMMA LogChanges ==
    ASSUME MaxSnapshotIndex = 0, LogsSound, [Next]_vars, NEW d \in Server
    PROVE  \/ m_logs'[d] = m_logs[d]
           \/ \E c \in Command : Start(d, c)
           \/ \E m \in aeArgs : m.to = d /\ Accepts(m)
<1>1. NoSnapshots /\ TypeOK /\ TypeInv /\ LogInv /\ AssertInv
  BY DEF LogsSound, AssertInv, TypeInv
<1>2. m_logs \in [Server -> Seq(Entry)]
  BY <1>1 DEF TypeOK, LogTypes
<1> USE DEF logVars
<1>3. ASSUME NEW s \in Server, doElection(s) \/ applierTicker(s) PROVE m_logs' = m_logs
  BY <1>1, <1>3, applierTickerQuiet DEF doElection, Quiet
<1>4. ASSUME NEW s \in Server, NEW c \in Command, Start(s, c), s # d PROVE m_logs'[d] = m_logs[d]
  BY <1>2, <1>4 DEF Start
<1>5. ASSUME NEW s \in Server, NEW r \in Round, doHeartBeat(s, r) PROVE m_logs' = m_logs
  BY <1>1, <1>5, doHeartBeatCalls
<1>6. ASSUME NEW m \in rvReply, VoteWins(m) PROVE m_logs' = m_logs
  BY <1>6 DEF VoteWins, Exit, memory, workVars
<1>7. ASSUME NEW m \in aeArgs, AppendEntries(m), ~(m.to = d /\ Accepts(m)) PROVE m_logs'[d] = m_logs[d]
  <2>1. CASE AppendEntriesStale(m)
    BY <2>1 DEF AppendEntriesStale, memory, workVars
  <2>2. ASSUME NEW next \in Int, Refuses(m, next) PROVE m_logs' = m_logs
    BY <2>2 DEF Refuses
  <2>3. ASSUME Accepts(m), m.to # d PROVE m_logs'[d] = m_logs[d]
    BY <1>1, <2>3, AcceptedLog
  <2> QED
    BY <1>1, <1>7, <2>1, <2>2, <2>3, AppendEntriesAnswers
<1>8. ASSUME NEW m \in aeReply, AppendRefused(m) \/ AppendAccepted(m) PROVE m_logs' = m_logs
  BY <1>1, <1>8, AppendAcceptedCounts DEF AppendRefused
<1>9. CASE \/ \E m \in rvArgs : RequestVote(m)
           \/ \E m \in rvReply : VoteHigherTerm(m) \/ VoteIgnored(m) \/ VoteCounted(m)
           \/ \E m \in aeReply : AppendHigherTerm(m) \/ AppendIgnored(m)
           \/ CallFails
           \/ UNCHANGED vars
  BY <1>1, <1>9, ElectionQuiet DEF Quiet
<1> QED
  BY <1>1, <1>3, <1>4, <1>5, <1>6, <1>7, <1>8, <1>9, PlainCases

\* A leader that stays leader keeps its term, and its log but for new entries.
LEMMA LeaderPrefix ==
    ASSUME LogsSound, LogsSound', [Next]_vars, NEW s \in Server, m_status[s] = Leader, m_status'[s] = Leader
    PROVE  /\ m_currentTerm'[s] = m_currentTerm[s]
           /\ Len(m_logs[s]) \in Nat /\ Len(m_logs'[s]) \in Nat /\ Len(m_logs'[s]) >= Len(m_logs[s])
           /\ \A k \in 1..Len(m_logs[s]) : m_logs'[s][k] = m_logs[s][k]
<1>1. LeaderKeeps(s)
  BY LeaderStep DEF LogsSound
<1>2. m_lastSnapshotIncludeIndex[s] = 0 /\ m_lastSnapshotIncludeIndex'[s] = 0
  BY DEF LogsSound, AssertInv, NoSnapshots
<1>3. Len(m_logs[s]) \in Nat /\ Len(m_logs'[s]) \in Nat
  BY DEF LogsSound, TypeInv, TypeOK, LogTypes
<1>4. ASSUME NEW k \in 1..Len(m_logs[s]) PROVE m_logs'[s][k] = m_logs[s][k]
  <2>1. m_lastSnapshotIncludeIndex[s] + k - m_lastSnapshotIncludeIndex'[s] = k /\ k >= 1
    BY <1>2, <1>3
  <2> QED
    BY <1>1, <2>1 DEF LeaderKeeps
<1> QED
  BY <1>1, <1>2, <1>3, <1>4 DEF LeaderKeeps

\* Terms do not fall.
LEMMA TermsRise ==
    ASSUME LogsSound, LogsSound', [Next]_vars, NEW d \in Server
    PROVE  m_currentTerm[d] \in Int /\ m_currentTerm'[d] \in Int /\ m_currentTerm'[d] >= m_currentTerm[d]
<1>1. TypeOK /\ TypeOK' /\ ElectInv
  BY DEF LogsSound, TypeInv
<1>2. VoteFinalStep
  BY <1>1, VoteFinal
<1>3. m_currentTerm[d] \in Int /\ m_currentTerm'[d] \in Int
  BY <1>1 DEF TypeOK, MemberTypes
<1> QED
  BY <1>2, <1>3 DEF VoteFinalStep

\* Calls of a leader's term are its own.
LEMMA LeaderCalls ==
    ASSUME LogsSound, SentInv, NEW s \in Server, m_status[s] = Leader
    PROVE  /\ \A m \in aeArgs : m.term = m_currentTerm[s] => m.leaderid = s
           /\ \A r \in aeReply : Answers(r) /\ r.term = m_currentTerm[s] => r.to = s
BY DEF LogsSound, LogInv, LeaderHoldsTerm, ElectInv, ElectionSafety, SentInv, ArgsSent, ReplySent

\* An entry of the leader's term stays with a follower that has it, as long as
\* the follower is in that term: the calls of the term carry the same entry.
LEMMA HasEntryStable ==
    ASSUME MaxSnapshotIndex = 0, LogsSound, LogsSound', SentInv, [Next]_vars,
           NEW s \in Server, m_status[s] = Leader, NEW d \in Server, NEW i \in 1..Len(m_logs[s]),
           NEW t, t = m_currentTerm[s], m_logs[s][i].logterm = t, HasEntry(d, i, t)
    PROVE  HasEntry(d, i, t)'
<1>1. /\ m_currentTerm[d] \in Int /\ m_currentTerm'[d] \in Int /\ m_currentTerm'[d] >= m_currentTerm[d]
      /\ t \in Int
  BY TermsRise
<1>2. Len(m_logs[s]) \in Nat /\ Len(m_logs[d]) \in Nat /\ m_logs[d] \in Seq(Entry) /\ m_logs \in [Server -> Seq(Entry)]
  BY DEF LogsSound, TypeInv, TypeOK, LogTypes
<1>3. CASE m_currentTerm'[d] > t
  BY <1>3 DEF HasEntry
<1>4. CASE m_currentTerm'[d] <= t
  <2>1. /\ m_currentTerm[d] = t /\ m_currentTerm'[d] = t
        /\ i \in 1..Len(m_logs[d]) /\ m_logs[d][i].logterm = t
    BY <1>1, <1>4 DEF HasEntry
  <2>2. CASE m_logs'[d] = m_logs[d]
    BY <2>1, <2>2 DEF HasEntry
  <2>3. ASSUME NEW c \in Command, Start(d, c) PROVE HasEntry(d, i, t)'
    <3>1. PICK e : m_logs' = [m_logs EXCEPT ![d] = Append(m_logs[d], e)]
      BY <2>3 DEF Start
    <3>2. m_logs'[d] = Append(m_logs[d], e)
      BY <1>2, <3>1
    <3>3. Len(m_logs'[d]) = Len(m_logs[d]) + 1 /\ m_logs'[d][i] = m_logs[d][i]
      BY <1>2, <2>1, <3>2
    <3>4. i \in 1..Len(m_logs'[d])
      BY <1>2, <2>1, <3>3
    <3> QED
      BY <2>1, <3>3, <3>4 DEF HasEntry
  <2>4. ASSUME NEW m \in aeArgs, m.to = d, Accepts(m) PROVE HasEntry(d, i, t)'
    <3>1. m.term \in Int /\ m.prevlogindex \in Nat /\ Len(m.entries) \in Nat
      BY DEF LogsSound, TypeInv, TypeOK, CallTypes, AppendArgsType
    <3>2. m.term = t
      <4>1. m.term >= m_currentTerm[d] /\ FollowTerm(d, m.term)
        BY <2>4 DEF Accepts
      <4>2. m_currentTerm \in [Server -> 0..MaxTerm]
        BY DEF LogsSound, TypeInv, TypeOK, MemberTypes
      <4>3. m.term > m_currentTerm[d] => m_currentTerm'[d] = m.term
        BY <4>1, <4>2 DEF FollowTerm, StepDown
      <4> QED
        BY <1>1, <2>1, <3>1, <4>1, <4>3
    <3>3. m.leaderid = s
      BY <3>2, LeaderCalls
    <3>4. /\ Len(m_logs'[d]) \in Nat /\ Len(m_logs'[d]) >= Len(m_logs[d])
          /\ \/ m_logs'[d][i] = m_logs[d][i]
             \/ i - m.prevlogindex \in 1..Len(m.entries) /\ m_logs'[d][i] = m.entries[i - m.prevlogindex]
      BY <2>1, <2>4, AcceptedLog DEF LogsSound
    <3>5. i - m.prevlogindex \in 1..Len(m.entries) => m.entries[i - m.prevlogindex] = m_logs[s][i]
      <4>1. m.prevlogindex + (i - m.prevlogindex) = i
        BY <1>2, <3>1
      <4> QED
        BY <3>2, <3>3, <4>1 DEF SentInv, ArgsSent
    <3>6. i \in 1..Len(m_logs'[d]) /\ m_logs'[d][i].logterm = t
      BY <1>2, <2>1, <3>4, <3>5
    <3> QED
      BY <2>1, <3>6 DEF HasEntry
  <2> QED
    BY <2>2, <2>3, <2>4, LogChanges
<1> QED
  BY <1>1, <1>3, <1>4

\* What a follower has up to n, it has up to any smaller index.
LEMMA AckedBelow ==
    ASSUME NEW s \in Server, NEW d \in Server, NEW n \in Int, NEW k \in Int, k <= n, Acked(s, d, n)
    PROVE  Acked(s, d, k)
BY DEF Acked

\* ... and keeps it.
LEMMA AckedStable ==
    ASSUME MaxSnapshotIndex = 0, LogsSound, LogsSound', SentInv, [Next]_vars,
           NEW s \in Server, m_status[s] = Leader, m_status'[s] = Leader, NEW d \in Server,
           NEW n \in Int, n <= Len(m_logs[s]), Acked(s, d, n)
    PROVE  Acked(s, d, n)'
<1>1. /\ m_currentTerm'[s] = m_currentTerm[s] /\ Len(m_logs[s]) \in Nat
      /\ \A k \in 1..Len(m_logs[s]) : m_logs'[s][k] = m_logs[s][k]
  BY LeaderPrefix
<1> SUFFICES ASSUME NEW i \in 1..n, m_logs'[s][i].logterm = m_currentTerm'[s]
             PROVE  HasEntry(d, i, m_currentTerm[s])'
  BY DEF Acked
<1>2. i \in 1..Len(m_logs[s]) /\ m_logs[s][i].logterm = m_currentTerm[s]
  BY <1>1
<1>3. HasEntry(d, i, m_currentTerm[s])
  BY <1>2 DEF Acked
<1>4. ASSUME NEW t, t = m_currentTerm[s] PROVE HasEntry(d, i, t)'
  BY <1>2, <1>3, <1>4, HasEntryStable
<1>5. \A t : t = m_currentTerm[s] => HasEntry(d, i, t)'
  BY <1>4
<1> QED
  BY <1>1, <1>5 DEF HasEntry

\* A new leader has no entry of its term, so everybody has those.
LEMMA NewLeaderAcked ==
    ASSUME LogsSound, LogsSound', [Next]_vars, NEW s \in Server, m_status[s] # Leader, m_status'[s] = Leader
    PROVE  /\ \A i \in 1..Len(m_logs'[s]) : m_logs'[s][i].logterm # m_currentTerm'[s]
           /\ \A d \in Server, n \in Int : n <= Len(m_logs'[s]) => Acked(s, d, n)'
<1>1. (\A f \in elected : f.term # m_currentTerm'[s]) /\ proposed' = proposed
  BY NewLeader DEF LogsSound, TypeInv
<1>2. ASSUME NEW i \in 1..Len(m_logs'[s]) PROVE m_logs'[s][i].logterm # m_currentTerm'[s]
  <2>1. m_logs'[s][i] \in proposed
    BY <1>1 DEF LogsSound, LogInv, EntriesProposed
  <2>2. \E w \in elected : w.term = m_logs'[s][i].logterm
    BY <2>1 DEF LogsSound, LogInv, ProposedOnce
  <2> QED
    BY <1>1, <2>2
<1>3. Len(m_logs'[s]) \in Nat
  BY DEF LogsSound, TypeInv, TypeOK, LogTypes
<1> QED
  BY <1>2, <1>3 DEF Acked

\* A leader after a step that has calls of its term under way was leader before.
LEMMA OldCalls ==
    ASSUME LogsSound, LogsSound', SentInv, [Next]_vars, NEW s \in Server, m_status'[s] = Leader
    PROVE  /\ \A m \in aeArgs : m.term = m_currentTerm'[s] =>
                m_status[s] = Leader /\ m_currentTerm[s] = m.term /\ m.leaderid = s
           /\ \A r \in aeReply : Answers(r) /\ r.term = m_currentTerm'[s] =>
                m_status[s] = Leader /\ m_currentTerm[s] = r.term /\ r.to = s
<1>1. CASE m_status[s] = Leader
  BY <1>1, LeaderPrefix, LeaderCalls
<1>2. CASE m_status[s] # Leader
  <2>1. \A f \in elected : f.term # m_currentTerm'[s]
    BY <1>2, NewLeader DEF LogsSound, TypeInv
  <2> QED
    BY <2>1 DEF SentInv, ArgsSent, ReplySent
<1> QED
  BY <1>1, <1>2

-----------------------------------------------------------------------------
(* The parts of CommitInv, step by step *)

\* What holds of a call made before the step still holds.
LEMMA OldArgsSent ==
    ASSUME MaxSnapshotIndex = 0, LogsSound, LogsSound', CommitInv, [Next]_vars, NEW m \in aeArgs
    PROVE  ArgsSent(m)'
<1> DEFINE s == m.leaderid
<1>1. s \in Server /\ m.to \in Server /\ m.prevlogindex \in Nat /\ Len(m.entries) \in Nat
  BY DEF LogsSound, TypeInv, TypeOK, CallTypes, AppendArgsType
<1>2. SentInv
  BY DEF CommitInv
<1>3. \E w \in elected' : w.term = m.term /\ w.leader = s
  BY <1>2, ElectedGrows DEF SentInv, ArgsSent, ReplySent, LogsSound, TypeInv
<1>4. ASSUME m_status'[s] = Leader, m.term = m_currentTerm'[s]
      PROVE  /\ \A k \in 1..Len(m.entries) : m.entries[k] = m_logs'[s][m.prevlogindex + k]
             /\ Acked(s, m.to, m.prevlogindex)'
  <2>1. m_status[s] = Leader /\ m.term = m_currentTerm[s]
    BY <1>1, <1>2, <1>4, OldCalls
  <2>2. m.prevlogindex + Len(m.entries) <= Len(m_logs[s])
    BY DEF LogsSound, AssertInv, CallIndexInv, ArgsIndex
  <2>3. /\ Len(m_logs[s]) \in Nat /\ \A k \in 1..Len(m_logs[s]) : m_logs'[s][k] = m_logs[s][k]
    BY <1>1, <1>4, <2>1, LeaderPrefix
  <2>4. Acked(s, m.to, m.prevlogindex)
    BY <2>1 DEF CommitInv, SentInv, ArgsSent
  <2>5. m.prevlogindex \in Int /\ m.prevlogindex <= Len(m_logs[s])
    BY <1>1, <2>2, <2>3
  <2>6. Acked(s, m.to, m.prevlogindex)'
    <3> DEFINE n == m.prevlogindex
               d == m.to
    <3>1. d \in Server /\ n \in Int /\ n <= Len(m_logs[s]) /\ Acked(s, d, n)
      BY <1>1, <2>4, <2>5
    <3> HIDE DEF n, d, s
    <3>2. Acked(s, d, n)'
      BY <1>1, <1>2, <1>4, <2>1, <3>1, AckedStable
    <3> QED
      BY <3>2 DEF n, d, s
  <2>7. ASSUME NEW k \in 1..Len(m.entries) PROVE m.entries[k] = m_logs'[s][m.prevlogindex + k]
    <3>1. m.prevlogindex + k \in 1..Len(m_logs[s])
      BY <1>1, <2>2, <2>3
    <3> QED
      BY <1>2, <2>1, <2>3, <3>1 DEF SentInv, ArgsSent
  <2> QED
    BY <2>6, <2>7
<1> QED
  BY <1>3, <1>4 DEF ArgsSent

\* The same for an answer given before the step.
LEMMA OldReplySent ==
    ASSUME MaxSnapshotIndex = 0, LogsSound, LogsSound', CommitInv, [Next]_vars, NEW r \in aeReply
    PROVE  ReplySent(r)'
<1> DEFINE s == r.to
           d == r.from
<1>1. s \in Server /\ d \in Server /\ r.upto \in Nat /\ r.updatenextindex \in Int
  BY DEF LogsSound, TypeInv, TypeOK, CallTypes, AppendReplyType
<1>2. SentInv
  BY DEF CommitInv
<1>3. Answers(r) => \E w \in elected' : w.term = r.term /\ w.leader = s
  BY <1>2, ElectedGrows DEF SentInv, ArgsSent, ReplySent, LogsSound, TypeInv
<1>4. ASSUME m_status'[s] = Leader, r.term = m_currentTerm'[s], Answers(r)
      PROVE  /\ r.success => Acked(s, d, r.upto)'
             /\ r.success /\ r.lastterm = r.term => r.upto >= 1 /\ m_logs'[s][r.upto].logterm = r.term
             /\ ~r.success /\ r.updatenextindex # -100 => Acked(s, d, r.updatenextindex - 1)'
  <2>1. m_status[s] = Leader /\ r.term = m_currentTerm[s]
    BY <1>1, <1>2, <1>4, OldCalls
  <2>2. /\ r.upto <= Len(m_logs[s])
        /\ ~r.success /\ r.updatenextindex # -100 => r.updatenextindex \in 1..Len(m_logs[s])
    BY DEF LogsSound, AssertInv, CallIndexInv, ReplyIndex
  <2>3. /\ Len(m_logs[s]) \in Nat /\ \A k \in 1..Len(m_logs[s]) : m_logs'[s][k] = m_logs[s][k]
    BY <1>1, <1>4, <2>1, LeaderPrefix
  <2>4. ASSUME NEW n \in Int, n <= Len(m_logs[s]), Acked(s, d, n) PROVE Acked(s, d, n)'
    <3>1. s \in Server /\ d \in Server /\ m_status[s] = Leader /\ m_status'[s] = Leader
      BY <1>1, <1>4, <2>1
    <3>2. n <= Len(m_logs[s]) /\ Acked(s, d, n)
      BY <2>4
    <3> HIDE DEF s, d
    <3> QED
      BY <1>2, <3>1, <3>2, AckedStable
  <2>5. ASSUME r.success PROVE Acked(s, d, r.upto)'
    <3>1. Acked(s, d, r.upto) /\ r.upto \in Int /\ r.upto <= Len(m_logs[s])
      BY <1>1, <2>1, <2>2, <2>5 DEF CommitInv, SentInv, ReplySent
    <3> QED
      BY <2>4, <3>1
  <2>6. ASSUME r.success, r.lastterm = r.term
        PROVE  r.upto >= 1 /\ m_logs'[s][r.upto].logterm = r.term
    <3>1. r.upto >= 1 /\ m_logs[s][r.upto].logterm = r.term
      BY <2>1, <2>6 DEF CommitInv, SentInv, ReplySent
    <3>2. r.upto \in 1..Len(m_logs[s])
      BY <1>1, <2>2, <2>3, <3>1
    <3> QED
      BY <2>3, <3>1, <3>2
  <2>7. ASSUME ~r.success, r.updatenextindex # -100 PROVE Acked(s, d, r.updatenextindex - 1)'
    <3> DEFINE n == r.updatenextindex - 1
    <3>1. Acked(s, d, n)
      BY <2>1, <2>7 DEF CommitInv, SentInv, ReplySent
    <3>2. n \in Int /\ n <= Len(m_logs[s])
      BY <1>1, <2>2, <2>3, <2>7
    <3> QED
      BY <2>4, <3>1, <3>2
  <2> QED
    BY <2>5, <2>6, <2>7
<1> QED
  BY <1>3, <1>4 DEF ReplySent, Answers

\* A larger set of servers has more members.
LEMMA MoreServers ==
    ASSUME NEW S \in SUBSET Server, NEW T \in SUBSET Server, S \subseteq T
    PROVE  Cardinality(S) \in Nat /\ Cardinality(T) \in Nat /\ Cardinality(S) <= Cardinality(T)
<1>1. IsFiniteSet(T)
  BY ServerAssumption, FS_Subset
<1>2. IsFiniteSet(S) /\ Cardinality(S) <= Cardinality(T)
  BY <1>1, FS_Subset
<1> QED
  BY <1>1, <1>2, FS_CardinalityType

\* More than a majority is a majority.
LEMMA MajorityGrows ==
    ASSUME NEW m \in Nat, NEW n \in Nat, m <= n, IsMajority(m)
    PROVE  IsMajority(n)
<1>1. Cardinality(Server) \in Nat
  BY ServerAssumption, FS_CardinalityType
<1> QED
  BY <1>1 DEF IsMajority

\* A count that holds goes on to hold while the round makes no new call.
LEMMA CountsKept ==
    ASSUME MaxSnapshotIndex = 0, LogsSound, LogsSound', SentInv, [Next]_vars,
           NEW s \in Server, m_status[s] = Leader, m_status'[s] = Leader,
           NEW r \in Round, NEW n \in Int, n <= Len(m_logs[s]), Counts(s, r, n),
           appendNums'[s][r] = appendNums[s][r],
           \A d \in Server : IsPending(s, r, d)' => IsPending(s, r, d)
    PROVE  Counts(s, r, n)'
<1>1. Holders(s, r, n) \subseteq Holders(s, r, n)'
  <2> SUFFICES ASSUME NEW d \in Server, Acked(s, d, n), ~IsPending(s, r, d)
               PROVE  Acked(s, d, n)' /\ ~IsPending(s, r, d)'
    BY DEF Holders
  <2> QED
    BY AckedStable
<1>2. Holders(s, r, n) \in SUBSET Server /\ Holders(s, r, n)' \in SUBSET Server
  BY DEF Holders
<1>3. Cardinality(Holders(s, r, n)) \in Nat /\ Cardinality(Holders(s, r, n)') \in Nat
      /\ Cardinality(Holders(s, r, n)) <= Cardinality(Holders(s, r, n)')
  BY <1>1, <1>2, MoreServers
<1>4. appendNums[s][r] \in Nat
  BY DEF LogsSound, TypeInv, TypeOK, MemberTypes
<1> QED
  BY <1>3, <1>4 DEF Counts

\* So what a call says of its round's count goes on to hold,
LEMMA OldArgsCounted ==
    ASSUME MaxSnapshotIndex = 0, LogsSound, LogsSound', CommitInv, [Next]_vars, NEW m \in aeArgs,
           appendNums'[m.leaderid][m.round] = appendNums[m.leaderid][m.round],
           \A d \in Server : IsPending(m.leaderid, m.round, d)' => IsPending(m.leaderid, m.round, d)
    PROVE  ArgsCounted(m)'
<1> DEFINE s == m.leaderid
           r == m.round
           n == m.prevlogindex + Len(m.entries)
<1>1. s \in Server /\ r \in Round /\ n \in Int
  BY DEF LogsSound, TypeInv, TypeOK, CallTypes, AppendArgsType
<1>2. SentInv
  BY DEF CommitInv
<1>3. ASSUME m_status'[s] = Leader, m.term = m_currentTerm'[s] PROVE Counts(s, r, n)'
  <2>1. m_status[s] = Leader /\ m.term = m_currentTerm[s]
    BY <1>1, <1>2, <1>3, OldCalls
  <2>2. Counts(s, r, n) /\ n <= Len(m_logs[s])
    BY <2>1 DEF CommitInv, CountInv, ArgsCounted, LogsSound, AssertInv, CallIndexInv, ArgsIndex
  <2>3. /\ appendNums'[s][r] = appendNums[s][r]
        /\ \A d \in Server : IsPending(s, r, d)' => IsPending(s, r, d)
    OBVIOUS
  <2> HIDE DEF s, r, n
  <2> QED
    BY <1>1, <1>2, <1>3, <2>1, <2>2, <2>3, CountsKept
<1> QED
  BY <1>3 DEF ArgsCounted

\* and what an answer says of it.
LEMMA OldReplyCounted ==
    ASSUME MaxSnapshotIndex = 0, LogsSound, LogsSound', CommitInv, [Next]_vars, NEW q \in aeReply,
           appendNums'[q.to][q.round] = appendNums[q.to][q.round],
           \A d \in Server : IsPending(q.to, q.round, d)' => IsPending(q.to, q.round, d)
    PROVE  ReplyCounted(q)'
<1> DEFINE s == q.to
           r == q.round
           n == q.upto
<1>1. s \in Server /\ r \in Round /\ n \in Int
  BY DEF LogsSound, TypeInv, TypeOK, CallTypes, AppendReplyType
<1>2. SentInv
  BY DEF CommitInv
<1>3. ASSUME m_status'[s] = Leader, q.term = m_currentTerm'[s], Answers(q) PROVE Counts(s, r, n)'
  <2>1. m_status[s] = Leader /\ q.term = m_currentTerm[s]
    BY <1>1, <1>2, <1>3, OldCalls
  <2>2. Counts(s, r, n) /\ n <= Len(m_logs[s])
    BY <1>3, <2>1 DEF CommitInv, CountInv, ReplyCounted, LogsSound, AssertInv, CallIndexInv,
       ReplyIndex
  <2>3. /\ appendNums'[s][r] = appendNums[s][r]
        /\ \A d \in Server : IsPending(s, r, d)' => IsPending(s, r, d)
    OBVIOUS
  <2> HIDE DEF s, r, n
  <2> QED
    BY <1>1, <1>2, <1>3, <2>1, <2>2, <2>3, CountsKept
<1> QED
  BY <1>3 DEF ReplyCounted, Answers

\* Steps in which calls end, and none is made or answered.
LEMMA EndedCalls ==
    ASSUME MaxSnapshotIndex = 0, LogsSound, LogsSound', CommitInv, [Next]_vars,
           aeArgs' \subseteq aeArgs, aeReply' \subseteq aeReply, incarnation' = incarnation
    PROVE  /\ SentInv' /\ RoundCalls'
           /\ appendNums' = appendNums => CountInv'
<1>1. SentInv'
  BY OldArgsSent, OldReplySent DEF SentInv
<1>2. RoundCalls'
  BY DEF CommitInv, RoundCalls
<1>3. ASSUME appendNums' = appendNums PROVE CountInv'
  <2>1. \A s, r, d : IsPending(s, r, d)' => IsPending(s, r, d)
    BY DEF IsPending
  <2> QED
    BY <1>3, <2>1, OldArgsCounted, OldReplyCounted DEF CountInv
<1> QED
  BY <1>1, <1>2, <1>3

\* The arrays of a leader are set by its election, and by what it hears.
LEMMA AckedInvKept ==
    ASSUME MaxSnapshotIndex = 0, LogsSound, LogsSound', CommitInv, [Next]_vars,
           \A s, d \in Server : m_status[s] = Leader /\ m_status'[s] = Leader =>
               /\ m_matchIndex'[s][d] = m_matchIndex[s][d] \/ Acked(s, d, m_matchIndex[s][d])'
               /\ m_nextIndex'[s][d] = m_nextIndex[s][d] \/ Acked(s, d, m_nextIndex[s][d] - 1)'
    PROVE  AckedInv'
<1> SUFFICES ASSUME NEW s \in Server, NEW d \in Server, m_status'[s] = Leader
             PROVE  Acked(s, d, m_matchIndex[s][d])' /\ Acked(s, d, m_nextIndex[s][d] - 1)'
  BY DEF AckedInv
<1>1. /\ m_matchIndex[s][d] \in Int /\ m_matchIndex'[s][d] \in Int
      /\ m_nextIndex[s][d] \in Int /\ m_nextIndex'[s][d] \in Int
      /\ Len(m_logs[s]) \in Nat /\ Len(m_logs'[s]) \in Nat
  <2>1. m_matchIndex[s][d] \in Int /\ m_nextIndex[s][d] \in Int
    BY DEF LogsSound, TypeInv, TypeOK, MemberTypes
  <2>2. m_matchIndex'[s][d] \in Int /\ m_nextIndex'[s][d] \in Int
    BY DEF LogsSound, TypeInv, TypeOK, MemberTypes
  <2>3. m_logs[s] \in Seq(Entry) /\ m_logs'[s] \in Seq(Entry)
    BY DEF LogsSound, TypeInv, TypeOK, LogTypes
  <2> QED
    BY <2>1, <2>2, <2>3
<1>2. CASE m_status[s] # Leader
  <2>1. \A n \in Int : n <= Len(m_logs'[s]) => Acked(s, d, n)'
    BY <1>2, NewLeaderAcked
  <2>2. m_nextIndex'[s][d] \in 1..Len(m_logs'[s]) + 1 /\ m_matchIndex'[s][d] <= Len(m_logs'[s])
    BY DEF LogsSound, AssertInv, IndexInv
  <2>3. m_nextIndex'[s][d] - 1 \in Int /\ m_nextIndex'[s][d] - 1 <= Len(m_logs'[s])
    BY <1>1, <2>2
  <2>4. ASSUME NEW n \in Int, n <= Len(m_logs'[s]) PROVE Acked(s, d, n)'
    BY <2>1, <2>4
  <2> QED
    BY <1>1, <2>2, <2>3, <2>4 DEF Acked
<1>3. CASE m_status[s] = Leader
  <2>1. Acked(s, d, m_matchIndex[s][d]) /\ Acked(s, d, m_nextIndex[s][d] - 1)
    BY <1>3 DEF CommitInv, AckedInv
  <2>2. m_nextIndex[s][d] \in 1..Len(m_logs[s]) + 1 /\ m_matchIndex[s][d] <= Len(m_logs[s])
    BY <1>3 DEF LogsSound, AssertInv, IndexInv
  <2>3. m_nextIndex[s][d] - 1 \in Int /\ m_nextIndex[s][d] - 1 <= Len(m_logs[s])
    BY <1>1, <2>2
  <2>4. ASSUME NEW n \in Int, n <= Len(m_logs[s]), Acked(s, d, n) PROVE Acked(s, d, n)'
    BY <1>3, <2>4, AckedStable DEF CommitInv
  <2>5. ASSUME m_matchIndex'[s][d] = m_matchIndex[s][d] PROVE Acked(s, d, m_matchIndex[s][d])'
    BY <1>1, <2>1, <2>2, <2>4, <2>5 DEF Acked
  <2>6. ASSUME m_nextIndex'[s][d] = m_nextIndex[s][d] PROVE Acked(s, d, m_nextIndex[s][d] - 1)'
    BY <2>1, <2>3, <2>4, <2>6 DEF Acked
  <2> QED
    BY <1>3, <2>5, <2>6
<1> QED
  BY <1>2, <1>3

\* What is committed stays on a majority.
LEMMA MajorityKept ==
    ASSUME MaxSnapshotIndex = 0, LogsSound, LogsSound', CommitInv, [Next]_vars,
           \A s \in Server : m_status[s] = Leader /\ m_status'[s] = Leader =>
               m_commitIndex'[s] = m_commitIndex[s] \/ MajorityAt(s)'
    PROVE  MajorityInv'
<1> SUFFICES ASSUME NEW s \in Server, m_status'[s] = Leader, m_commitIndex'[s] > 0,
                    m_logs'[s][m_commitIndex'[s]].logterm = m_currentTerm'[s]
             PROVE  IsMajority(Cardinality(Having(m_commitIndex[s], m_currentTerm[s])))'
  BY DEF MajorityInv, MajorityAt
<1>1. /\ m_commitIndex[s] \in Nat /\ m_commitIndex'[s] \in Nat
      /\ Len(m_logs[s]) \in Nat /\ Len(m_logs'[s]) \in Nat
      /\ m_commitIndex[s] <= Len(m_logs[s]) /\ m_commitIndex'[s] <= Len(m_logs'[s])
  <2>1. m_commitIndex[s] \in Nat
    BY DEF LogsSound, TypeInv, TypeOK, MemberTypes
  <2>2. m_commitIndex'[s] \in Nat
    BY DEF LogsSound, TypeInv, TypeOK, MemberTypes
  <2>3. m_logs[s] \in Seq(Entry) /\ m_logs'[s] \in Seq(Entry)
    BY DEF LogsSound, TypeInv, TypeOK, LogTypes
  <2>4. m_commitIndex[s] <= Len(m_logs[s]) /\ m_commitIndex'[s] <= Len(m_logs'[s])
    BY DEF LogsSound, AssertInv, IndexInv
  <2> QED
    BY <2>1, <2>2, <2>3, <2>4
<1>2. m_status[s] = Leader
  <2>1. m_commitIndex'[s] \in 1..Len(m_logs'[s])
    BY <1>1
  <2> QED
    BY <2>1, NewLeaderAcked
<1>3. CASE MajorityAt(s)'
  BY <1>3 DEF MajorityAt
<1>4. CASE m_commitIndex'[s] = m_commitIndex[s]
  <2>1. /\ m_currentTerm'[s] = m_currentTerm[s]
        /\ \A k \in 1..Len(m_logs[s]) : m_logs'[s][k] = m_logs[s][k]
    BY <1>2, LeaderPrefix
  <2>2. m_commitIndex[s] \in 1..Len(m_logs[s])
    BY <1>1, <1>4
  <2>3. m_logs[s][m_commitIndex[s]].logterm = m_currentTerm[s]
    BY <1>4, <2>1, <2>2
  <2>4. IsMajority(Cardinality(Having(m_commitIndex[s], m_currentTerm[s])))
    BY <1>1, <1>2, <2>2, <2>3 DEF CommitInv, MajorityInv, MajorityAt
  <2>5. ASSUME NEW i, i = m_commitIndex[s], NEW t, t = m_currentTerm[s]
        PROVE  Having(i, t) \subseteq Having(i, t)'
    <3> SUFFICES ASSUME NEW d \in Server, HasEntry(d, i, t) PROVE HasEntry(d, i, t)'
      BY DEF Having
    <3> QED
      BY <1>2, <2>2, <2>3, <2>5, HasEntryStable DEF CommitInv
  <2>6. Having(m_commitIndex[s], m_currentTerm[s]) \subseteq Having(m_commitIndex[s], m_currentTerm[s])'
    <3>1. \A i, t : i = m_commitIndex[s] /\ t = m_currentTerm[s] => Having(i, t) \subseteq Having(i, t)'
      BY <2>5
    <3> QED
      BY <1>4, <2>1, <3>1 DEF Having, HasEntry
  <2>7. /\ Having(m_commitIndex[s], m_currentTerm[s]) \in SUBSET Server
        /\ Having(m_commitIndex[s], m_currentTerm[s])' \in SUBSET Server
    BY DEF Having
  <2> QED
    BY <2>4, <2>6, <2>7, MoreServers, MajorityGrows DEF IsMajority
<1> QED
  BY <1>2, <1>3, <1>4

\* Steps in which calls end and no leader learns anything.
LEMMA NothingLearnt ==
    ASSUME MaxSnapshotIndex = 0, LogsSound, LogsSound', CommitInv, [Next]_vars,
           aeArgs' \subseteq aeArgs, aeReply' \subseteq aeReply, UNCHANGED <<incarnation, appendNums>>,
           \A s \in Server : m_status[s] = Leader /\ m_status'[s] = Leader =>
               /\ m_matchIndex'[s] = m_matchIndex[s]
               /\ m_nextIndex'[s] = m_nextIndex[s]
               /\ m_commitIndex'[s] = m_commitIndex[s]
    PROVE  CommitInv'
<1>1. SentInv' /\ RoundCalls' /\ CountInv'
  BY EndedCalls
<1>2. AckedInv'
  BY AckedInvKept
<1>3. MajorityInv'
  BY MajorityKept
<1> QED
  BY <1>1, <1>2, <1>3 DEF CommitInv

\* Such are the steps of Quiet,
LEMMA QuietKeepsCommitInv ==
    ASSUME MaxSnapshotIndex = 0, LogsSound, LogsSound', CommitInv, [Next]_vars, Quiet
    PROVE  CommitInv'
<1>1. aeArgs' \subseteq aeArgs /\ aeReply' \subseteq aeReply /\ UNCHANGED <<incarnation, appendNums>>
  BY DEF Quiet
<1>2. UNCHANGED <<m_matchIndex, m_nextIndex, m_commitIndex>>
  BY DEF Quiet
<1> QED
  BY <1>1, <1>2, NothingLearnt

\* the start of an election,
LEMMA doElectionCommits ==
    ASSUME MaxSnapshotIndex = 0, LogsSound, LogsSound', CommitInv, [Next]_vars,
           NEW s \in Server, doElection(s)
    PROVE  CommitInv'
<1>1. aeArgs' \subseteq aeArgs /\ aeReply' \subseteq aeReply /\ UNCHANGED <<incarnation, appendNums>>
  BY DEF doElection, appendNet, procVars
<1>2. m_status[s] # Leader /\ m_commitIndex' = m_commitIndex
  BY DEF doElection, applyVars
<1>3. BecomeLeader(s) \/ UNCHANGED <<m_nextIndex, m_matchIndex>>
  BY DEF doElection
<1>4. /\ m_nextIndex \in [Server -> [Server -> Int]]
      /\ m_matchIndex \in [Server -> [Server -> Nat]]
  BY DEF LogsSound, TypeInv, TypeOK, MemberTypes
<1>5. \A x \in Server \ {s} : m_matchIndex'[x] = m_matchIndex[x] /\ m_nextIndex'[x] = m_nextIndex[x]
  BY <1>3, <1>4 DEF BecomeLeader
<1> QED
  BY <1>1, <1>2, <1>5, NothingLearnt

\* and its end.
LEMMA VoteWinsCommits ==
    ASSUME MaxSnapshotIndex = 0, LogsSound, LogsSound', CommitInv, [Next]_vars,
           NEW m \in rvReply, VoteWins(m)
    PROVE  CommitInv'
<1> DEFINE s == m.to
<1>1. aeArgs' \subseteq aeArgs /\ aeReply' \subseteq aeReply /\ UNCHANGED <<incarnation, appendNums>>
  BY DEF VoteWins, appendNet, procVars, Exit, memory, workVars, leaderVars
<1>2. m_commitIndex' = m_commitIndex
  BY DEF VoteWins, applyVars, Exit, memory, workVars
<1>3. \/ m_status[s] # Leader /\ BecomeLeader(s)
      \/ UNCHANGED <<m_nextIndex, m_matchIndex>>
  BY DEF VoteWins, Exit, memory, workVars, leaderVars
<1>4. /\ m_nextIndex \in [Server -> [Server -> Int]]
      /\ m_matchIndex \in [Server -> [Server -> Nat]]
  BY DEF LogsSound, TypeInv, TypeOK, MemberTypes
<1> HIDE DEF s
<1>5. \A x \in Server : m_status[x] = Leader =>
         m_matchIndex'[x] = m_matchIndex[x] /\ m_nextIndex'[x] = m_nextIndex[x]
  BY <1>3, <1>4 DEF BecomeLeader
<1> QED
  BY <1>1, <1>2, <1>5, NothingLearnt

\* A leader that hears a refusal goes back to where the follower has everything.
LEMMA AppendRefusedCommits ==
    ASSUME MaxSnapshotIndex = 0, LogsSound, LogsSound', CommitInv, [Next]_vars,
           NEW m \in aeReply, AppendRefused(m)
    PROVE  CommitInv'
<1> DEFINE s == m.to
<1>1. /\ aeArgs' \subseteq aeArgs /\ aeReply' \subseteq aeReply
      /\ UNCHANGED <<incarnation, appendNums, m_matchIndex, m_commitIndex, m_logs, m_currentTerm>>
  BY DEF AppendRefused, procVars, logVars, applyVars, termVars
<1>2. SentInv' /\ RoundCalls' /\ CountInv'
  BY <1>1, EndedCalls
<1>3. MajorityInv'
  BY <1>1, MajorityKept
<1>4. m \in AppendReplyType
  BY DEF LogsSound, TypeInv, TypeOK, CallTypes
<1>5. s \in Server /\ m.from \in Server /\ m.updatenextindex \in Int
  BY <1>4 DEF AppendReplyType
<1>6. m_status[s] = Leader /\ m.term = m_currentTerm[s] /\ ~m.success /\ m.updatenextindex # -100
  BY DEF AppendRefused, LeaderHears
<1>7. Acked(s, m.from, m.updatenextindex - 1)
  BY <1>6 DEF CommitInv, SentInv, ReplySent
<1>8. Acked(s, m.from, m.updatenextindex - 1)'
  <2>1. UNCHANGED <<m_logs, m_currentTerm>>
    BY <1>1
  <2> QED
    BY <1>7, <2>1 DEF Acked, HasEntry
<1>9. \A x, d \in Server : m_nextIndex'[x][d] = IF x = s /\ d = m.from THEN m.updatenextindex
                                                                   ELSE m_nextIndex[x][d]
  <2>1. m_nextIndex \in [Server -> [Server -> Int]]
    BY DEF LogsSound, TypeInv, TypeOK, MemberTypes
  <2>2. m_nextIndex' = [m_nextIndex EXCEPT ![s][m.from] = m.updatenextindex]
    BY DEF AppendRefused
  <2> HIDE DEF s
  <2> QED
    BY <1>5, <2>1, <2>2
<1> HIDE DEF s
<1>10. \A x, d \in Server : m_nextIndex'[x][d] = m_nextIndex[x][d] \/ Acked(x, d, m_nextIndex[x][d] - 1)'
  <2> SUFFICES ASSUME NEW x \in Server, NEW d \in Server, m_nextIndex'[x][d] # m_nextIndex[x][d]
               PROVE  Acked(x, d, m_nextIndex[x][d] - 1)'
    OBVIOUS
  <2>1. x = s /\ d = m.from /\ m_nextIndex'[x][d] = m.updatenextindex
    BY <1>9
  <2> QED
    BY <1>8, <2>1 DEF Acked
<1>11. AckedInv'
  BY <1>1, <1>10, AckedInvKept
<1> QED
  BY <1>2, <1>3, <1>11 DEF CommitInv

\* Servers that hold what a leader has up to its new commit index make the
\* majority that MajorityInv asks for.
LEMMA MajorityFound ==
    ASSUME MaxSnapshotIndex = 0, LogsSound, LogsSound', CommitInv, [Next]_vars,
           NEW s \in Server, m_status[s] = Leader, m_status'[s] = Leader,
           NEW c, c = m_commitIndex'[s], c <= Len(m_logs'[s]),
           NEW D \in SUBSET Server, IsMajority(Cardinality(D)),
           \A d \in D : d = s \/ (c <= Len(m_logs[s]) /\ Acked(s, d, c))
    PROVE  MajorityAt(s)'
<1> SUFFICES ASSUME m_commitIndex'[s] > 0, m_logs'[s][m_commitIndex'[s]].logterm = m_currentTerm'[s]
             PROVE  IsMajority(Cardinality(Having(m_commitIndex[s], m_currentTerm[s])))'
  BY DEF MajorityAt
<1>1. c \in Nat /\ c > 0
  BY DEF LogsSound, TypeInv, TypeOK, MemberTypes
<1>2. /\ m_currentTerm'[s] = m_currentTerm[s]
      /\ Len(m_logs[s]) \in Nat /\ Len(m_logs'[s]) \in Nat
      /\ \A k \in 1..Len(m_logs[s]) : m_logs'[s][k] = m_logs[s][k]
  BY LeaderPrefix
<1>3. ASSUME NEW t, t = m_currentTerm[s], NEW d \in D PROVE HasEntry(d, c, t)'
  <2>1. CASE d = s
    <3>1. c \in 1..Len(m_logs'[s])
      BY <1>1, <1>2
    <3> QED
      BY <1>2, <1>3, <2>1, <3>1 DEF HasEntry
  <2>2. CASE c <= Len(m_logs[s]) /\ Acked(s, d, c)
    <3>1. c \in 1..Len(m_logs[s]) /\ c \in 1..c
      BY <1>1, <1>2, <2>2
    <3>2. m_logs[s][c].logterm = t
      BY <1>2, <1>3, <3>1
    <3>3. HasEntry(d, c, t)
      BY <1>3, <2>2, <3>1, <3>2 DEF Acked
    <3>4. d \in Server /\ SentInv
      BY DEF CommitInv
    <3> QED
      BY <1>3, <3>1, <3>2, <3>3, <3>4, HasEntryStable
  <2> QED
    BY <1>3, <2>1, <2>2
<1>4. ASSUME NEW t, t = m_currentTerm[s] PROVE D \subseteq Having(c, t)'
  BY <1>3, <1>4 DEF Having
<1>5. D \subseteq Having(m_commitIndex[s], m_currentTerm[s])'
  <2>1. \A t : t = m_currentTerm[s] => D \subseteq Having(c, t)'
    BY <1>4
  <2> QED
    BY <1>2, <2>1 DEF Having, HasEntry
<1>6. Having(m_commitIndex[s], m_currentTerm[s])' \in SUBSET Server
  BY DEF Having
<1> QED
  BY <1>5, <1>6, MoreServers, MajorityGrows DEF IsMajority

\* Start commits what m_matchIndex says a majority holds.
LEMMA StartCommits ==
    ASSUME MaxSnapshotIndex = 0, LogsSound, LogsSound', CommitInv, [Next]_vars,
           NEW s \in Server, NEW e \in Command, Start(s, e)
    PROVE  CommitInv'
<1>1. /\ aeArgs' \subseteq aeArgs /\ aeReply' \subseteq aeReply
      /\ UNCHANGED <<incarnation, appendNums, m_matchIndex, m_nextIndex, m_status>>
  BY DEF Start, appendNet, procVars, leaderVars
<1>2. SentInv' /\ RoundCalls' /\ CountInv'
  BY <1>1, EndedCalls
<1>3. AckedInv'
  BY <1>1, AckedInvKept
<1>4. m_status[s] = Leader /\ m_status'[s] = Leader
  BY <1>1 DEF Start
<1>5. PICK c \in 0..Len(m_logs'[s]) :
        /\ leaderUpdateCommitIndex(s, m_logs'[s], c)
        /\ m_commitIndex' = [m_commitIndex EXCEPT ![s] = c]
  <2> DEFINE log == Append(m_logs[s], [command |-> e, logterm |-> m_currentTerm[s],
                                       logindex |-> getLastLogIndex(s) + 1])
  <2>1. m_logs' = [m_logs EXCEPT ![s] = log]
    BY DEF Start
  <2>2. m_logs \in [Server -> Seq(Entry)]
    BY DEF LogsSound, TypeInv, TypeOK, LogTypes
  <2>3. m_lastSnapshotIncludeIndex[s] = 0
    BY DEF LogsSound, AssertInv, NoSnapshots
  <2>4. \E c \in m_lastSnapshotIncludeIndex[s]..(m_lastSnapshotIncludeIndex[s] + Len(log)) :
              /\ leaderUpdateCommitIndex(s, log, c)
              /\ m_commitIndex' = [m_commitIndex EXCEPT ![s] = c]
    BY DEF Start
  <2> HIDE DEF log
  <2>5. m_logs'[s] = log
    BY <2>1, <2>2
  <2>6. m_logs'[s] \in Seq(Entry)
    BY DEF LogsSound, TypeInv, TypeOK, LogTypes
  <2>7. m_lastSnapshotIncludeIndex[s] + Len(log) = Len(log)
    BY <2>3, <2>5, <2>6
  <2> QED
    BY <2>3, <2>4, <2>5, <2>7
<1>6. m_commitIndex'[s] = c /\ \A x \in Server \ {s} : m_commitIndex'[x] = m_commitIndex[x]
  BY <1>5 DEF LogsSound, TypeInv, TypeOK, MemberTypes
<1>7. /\ Len(m_logs[s]) \in Nat /\ Len(m_logs'[s]) \in Nat
  BY <1>4, LeaderPrefix
<1>8. ASSUME c = 0 PROVE MajorityAt(s)'
  <2>1. ~(m_commitIndex'[s] > 0)
    BY <1>6, <1>8
  <2> QED
    BY <2>1 DEF MajorityAt
<1>9. ASSUME c > 0 PROVE MajorityAt(s)'
  <2> DEFINE D == {s} \cup {d \in Server : m_matchIndex[s][d] >= c}
  <2>1. m_lastSnapshotIncludeIndex[s] = 0
    BY DEF LogsSound, AssertInv, NoSnapshots
  <2>2. IsMajority(Cardinality(D))
    BY <1>5, <1>9, <2>1 DEF leaderUpdateCommitIndex, ReplicatedTo
  <2>3. ASSUME NEW d \in Server, m_matchIndex[s][d] >= c
        PROVE  c <= Len(m_logs[s]) /\ Acked(s, d, c)
    <3>1. m_matchIndex[s][d] \in Nat
      BY DEF LogsSound, TypeInv, TypeOK, MemberTypes
    <3>2. m_matchIndex[s][d] <= Len(m_logs[s])
      BY <1>4 DEF LogsSound, AssertInv, IndexInv
    <3>3. Acked(s, d, m_matchIndex[s][d])
      BY <1>4 DEF CommitInv, AckedInv
    <3>4. c \in Int /\ m_matchIndex[s][d] \in Int /\ c <= m_matchIndex[s][d] /\ c <= Len(m_logs[s])
      BY <1>7, <2>3, <3>1, <3>2
    <3>5. Acked(s, d, c)
      BY <3>3, <3>4, AckedBelow
    <3> QED
      BY <3>4, <3>5
  <2>4. D \in SUBSET Server /\ \A d \in D : d = s \/ (c <= Len(m_logs[s]) /\ Acked(s, d, c))
    BY <2>3
  <2>5. c = m_commitIndex'[s] /\ c <= Len(m_logs'[s])
    BY <1>5, <1>6, <1>7
  <2>6. ASSUME NEW E \in SUBSET Server, IsMajority(Cardinality(E)),
               \A d \in E : d = s \/ (c <= Len(m_logs[s]) /\ Acked(s, d, c))
        PROVE  MajorityAt(s)'
    BY <1>4, <2>5, <2>6, MajorityFound
  <2> HIDE DEF D
  <2> QED
    BY <2>2, <2>4, <2>6
<1>10. MajorityAt(s)'
  <2>1. c = 0 \/ c > 0
    BY <1>5, <1>7
  <2> QED
    BY <1>8, <1>9, <2>1
<1>11. MajorityInv'
  BY <1>6, <1>10, MajorityKept
<1> QED
  BY <1>2, <1>3, <1>11 DEF CommitInv

\* The one who accepts joins those the round has counted.
LEMMA AcceptedCounted ==
    ASSUME LogsSound, CommitInv, NEW m \in aeReply, AppendAccepted(m)
    PROVE  LET s == m.to
               D == Holders(s, m.round, m.upto) \cup {m.from}
           IN  /\ Acked(s, m.from, m.upto)
               /\ D \in SUBSET Server /\ \A d \in D : Acked(s, d, m.upto)
               /\ D \subseteq Holders(s, m.round, m.upto)'
               /\ appendNums[s][m.round] + 1 <= Cardinality(D)
<1> DEFINE s == m.to
           f == m.from
           r == m.round
           n == m.upto
           H == Holders(s, r, n)
<1>1. /\ m_status[s] = Leader /\ m.term = m_currentTerm[s] /\ m.success
      /\ aeReply' = aeReply \ {m}
      /\ UNCHANGED <<m_currentTerm, m_logs, aeArgs>>
  BY AppendAcceptedCounts DEF LogsSound
<1>2. m \in AppendReplyType
  BY DEF LogsSound, TypeInv, TypeOK, CallTypes
<1>3. s \in Server /\ f \in Server /\ r \in Round /\ n \in Nat
  BY <1>2 DEF AppendReplyType
<1>4. Acked(s, f, n)
  BY <1>1 DEF CommitInv, SentInv, ReplySent
<1>5. appendNums[s][r] <= Cardinality(H)
  BY <1>1 DEF CommitInv, CountInv, ReplyCounted, Counts, Answers
<1>6. IsPending(s, r, f)
  BY DEF IsPending
<1>7. ~IsPending(s, r, f)'
  BY <1>1 DEF IsPending, CommitInv, RoundCalls
<1>8. \A d : IsPending(s, r, d)' => IsPending(s, r, d)
  BY <1>1 DEF IsPending
<1>9. \A d : Acked(s, d, n) => Acked(s, d, n)'
  BY <1>1 DEF Acked, HasEntry
<1>10. H \in SUBSET Server /\ f \notin H /\ \A d \in H : Acked(s, d, n)
  BY <1>6 DEF Holders
<1>11. H \cup {f} \subseteq Holders(s, r, n)'
  BY <1>3, <1>4, <1>7, <1>8, <1>9 DEF Holders
<1>12. appendNums[s][r] \in Nat
  BY <1>3 DEF LogsSound, TypeInv, TypeOK, MemberTypes
<1> HIDE DEF H, s, f, r, n
<1>13. IsFiniteSet(H) /\ Cardinality(H) \in Nat
  BY <1>10, ServerAssumption, FS_Subset, FS_CardinalityType
<1>14. Cardinality(H \cup {f}) = Cardinality(H) + 1
  BY <1>10, <1>13, FS_AddElement
<1>15. appendNums[s][r] + 1 <= Cardinality(H \cup {f})
  BY <1>5, <1>12, <1>13, <1>14
<1>16. /\ Acked(s, f, n)
       /\ H \cup {f} \in SUBSET Server /\ \A d \in H \cup {f} : Acked(s, d, n)
       /\ H \cup {f} \subseteq Holders(s, r, n)'
       /\ appendNums[s][r] + 1 <= Cardinality(H \cup {f})
  BY <1>3, <1>4, <1>10, <1>11, <1>15
<1> QED
  BY <1>16 DEF s, f, r, n, H

\* A leader that hears of success: the count goes up by one server that holds the
\* entries, and a majority of the round's commits what it sent.
LEMMA AppendAcceptedCommits ==
    ASSUME MaxSnapshotIndex = 0, LogsSound, LogsSound', CommitInv, [Next]_vars,
           NEW m \in aeReply, AppendAccepted(m)
    PROVE  CommitInv'
<1> DEFINE s == m.to
           f == m.from
           r == m.round
           n == m.upto
           match == MaxOf(m_matchIndex[s][f], n)
           count == appendNums[s][r] + 1
           commit == CommitAfterReply(s, m, count)
           D == Holders(s, r, n) \cup {f}
<1>1. /\ m_status[s] = Leader /\ m.term = m_currentTerm[s] /\ m.success
      /\ match \in 0..Len(m_logs[s]) /\ commit \in 0..Len(m_logs[s])
  BY AppendAcceptedCounts DEF LogsSound
<1>2. /\ aeReply' = aeReply \ {m}
      /\ UNCHANGED <<m_currentTerm, m_status, m_logs, aeArgs, incarnation>>
  BY AppendAcceptedCounts DEF LogsSound, procVars
<1>3. /\ m_matchIndex' = [m_matchIndex EXCEPT ![s][f] = match]
      /\ m_nextIndex' = [m_nextIndex EXCEPT ![s][f] = match + 1]
      /\ appendNums' = [appendNums EXCEPT ![s][r] = IF IsMajority(count) THEN 0 ELSE count]
      /\ m_commitIndex' = [m_commitIndex EXCEPT ![s] = commit]
  BY AppendAcceptedCounts DEF LogsSound
<1>4. /\ Acked(s, f, n)
      /\ D \in SUBSET Server /\ \A d \in D : Acked(s, d, n)
      /\ D \subseteq Holders(s, r, n)'
      /\ count <= Cardinality(D)
  BY AcceptedCounted
<1>5. m \in AppendReplyType
  BY DEF LogsSound, TypeInv, TypeOK, CallTypes
<1>6. s \in Server /\ f \in Server /\ r \in Round /\ n \in Nat
  BY <1>5 DEF AppendReplyType
<1>7. SentInv' /\ RoundCalls'
  BY <1>2, EndedCalls
<1>8. /\ m_matchIndex \in [Server -> [Server -> Nat]]
      /\ m_nextIndex \in [Server -> [Server -> Int]]
  BY DEF LogsSound, TypeInv, TypeOK, MemberTypes
<1>9. appendNums \in [Server -> [Round -> Nat]] /\ m_commitIndex \in [Server -> Nat]
  BY DEF LogsSound, TypeInv, TypeOK, MemberTypes
<1>10. Len(m_logs[s]) \in Nat
  BY <1>6 DEF LogsSound, TypeInv, TypeOK, LogTypes
<1>11. ASSUME NEW k, k = match PROVE Acked(s, f, k)'
  <2>1. Acked(s, f, m_matchIndex[s][f])
    BY <1>1, <1>6 DEF CommitInv, AckedInv
  <2>2. match = m_matchIndex[s][f] \/ match = n
    BY DEF MaxOf
  <2>3. Acked(s, f, match)
    BY <1>4, <2>1, <2>2 DEF Acked
  <2>4. Acked(s, f, k) => Acked(s, f, k)'
    BY <1>2 DEF Acked, HasEntry
  <2> QED
    BY <1>11, <2>3, <2>4 DEF Acked
<1> HIDE DEF s, f, r, n, match, count, commit, D
<1>12. \A x, d \in Server : m_matchIndex'[x][d] = IF x = s /\ d = f THEN match ELSE m_matchIndex[x][d]
  BY <1>3, <1>6, <1>8
<1>13. \A x, d \in Server : m_nextIndex'[x][d] = IF x = s /\ d = f THEN match + 1 ELSE m_nextIndex[x][d]
  BY <1>3, <1>6, <1>8
<1>14. AckedInv'
  <2> SUFFICES ASSUME NEW x \in Server, NEW d \in Server
               PROVE  /\ m_matchIndex'[x][d] = m_matchIndex[x][d] \/ Acked(x, d, m_matchIndex[x][d])'
                      /\ m_nextIndex'[x][d] = m_nextIndex[x][d] \/ Acked(x, d, m_nextIndex[x][d] - 1)'
    BY AckedInvKept
  <2>1. CASE x = s /\ d = f
    <3>1. m_matchIndex'[x][d] = match /\ m_nextIndex'[x][d] - 1 = match
      BY <1>1, <1>10, <1>12, <1>13, <2>1
    <3>2. \A k : k = match => Acked(x, d, k)'
      BY <1>11, <2>1
    <3> QED
      BY <3>1, <3>2 DEF Acked
  <2>2. CASE ~(x = s /\ d = f)
    BY <1>12, <1>13, <2>2
  <2> QED
    BY <2>1, <2>2
<1>15. \A x \in Server, q \in Round :
          appendNums'[x][q] = IF x = s /\ q = r THEN IF IsMajority(count) THEN 0 ELSE count
                                                ELSE appendNums[x][q]
  BY <1>3, <1>6, <1>9
<1>16. \A x, q, d : IsPending(x, q, d)' => IsPending(x, q, d)
  BY <1>2 DEF IsPending
<1>17. ASSUME NEW k, k = n PROVE Counts(s, r, k)'
  <2>1. Holders(s, r, n)' \in SUBSET Server
    BY DEF Holders
  <2>2. /\ Cardinality(D) \in Nat /\ Cardinality(Holders(s, r, n)') \in Nat
        /\ Cardinality(D) <= Cardinality(Holders(s, r, n)')
    BY <1>4, <2>1, MoreServers
  <2>3. count \in Nat
    BY <1>6, <1>9 DEF count
  <2>4. appendNums'[s][r] \in {0, count}
    BY <1>6, <1>15
  <2>5. appendNums'[s][r] <= Cardinality(Holders(s, r, n)')
    BY <1>4, <2>2, <2>3, <2>4
  <2>6. Holders(s, r, k)' = Holders(s, r, n)'
    BY <1>17 DEF n
  <2> QED
    BY <2>5, <2>6 DEF Counts
<1>18. ASSUME NEW a \in aeArgs' PROVE ArgsCounted(a)'
  <2>1. a \in aeArgs /\ a.leaderid \in Server /\ a.round \in Round
    BY <1>2 DEF LogsSound, TypeInv, TypeOK, CallTypes, AppendArgsType
  <2>2. CASE a.leaderid = s /\ a.round = r
    <3>1. a.prevlogindex + Len(a.entries) = n
      BY <2>1, <2>2 DEF CommitInv, RoundCalls, s, r, n
    <3> QED
      BY <1>17, <2>2, <3>1 DEF ArgsCounted
  <2>3. CASE ~(a.leaderid = s /\ a.round = r)
    BY <1>15, <1>16, <2>1, <2>3, OldArgsCounted
  <2> QED
    BY <2>2, <2>3
<1>19. ASSUME NEW q \in aeReply' PROVE ReplyCounted(q)'
  <2>1. q \in aeReply /\ q.to \in Server /\ q.round \in Round
    BY <1>2 DEF LogsSound, TypeInv, TypeOK, CallTypes, AppendReplyType
  <2>2. CASE q.to = s /\ q.round = r
    <3>1. q.upto = n
      BY <2>1, <2>2 DEF CommitInv, RoundCalls, s, r, n
    <3> QED
      BY <1>17, <2>2, <3>1 DEF ReplyCounted
  <2>3. CASE ~(q.to = s /\ q.round = r)
    BY <1>15, <1>16, <2>1, <2>3, OldReplyCounted
  <2> QED
    BY <2>2, <2>3
<1>20. \A x \in Server : m_commitIndex'[x] = IF x = s THEN commit ELSE m_commitIndex[x]
  BY <1>3, <1>6, <1>9
<1>21. ASSUME commit # m_commitIndex[s] PROVE MajorityAt(s)'
  <2>1. commit = n /\ IsMajority(count)
    BY <1>21 DEF commit, CommitAfterReply, n, MaxOf
  <2>2. n = m_commitIndex'[s] /\ n <= Len(m_logs[s]) /\ n <= Len(m_logs'[s])
    BY <1>1, <1>2, <1>6, <1>10, <1>20, <2>1
  <2>3. Cardinality(D) \in Nat
    BY <1>4, MoreServers
  <2>4. count \in Nat
    BY <1>6, <1>9 DEF count
  <2>5. IsMajority(Cardinality(D))
    BY <1>4, <2>1, <2>3, <2>4, MajorityGrows
  <2>6. ASSUME NEW E \in SUBSET Server, IsMajority(Cardinality(E)), \A d \in E : Acked(s, d, n)
        PROVE  MajorityAt(s)'
    <3>1. m_status[s] = Leader /\ m_status'[s] = Leader
      BY <1>1, <1>2
    <3>2. \A c : c = n => c = m_commitIndex'[s] /\ c <= Len(m_logs'[s]) /\ c <= Len(m_logs[s])
      BY <2>2
    <3>3. ASSUME NEW c, c = n PROVE \A d \in E : Acked(s, d, c)
      BY <2>6, <3>3 DEF Acked
    <3>4. ASSUME NEW c, c = n PROVE MajorityAt(s)'
      BY <1>6, <2>6, <3>1, <3>2, <3>3, <3>4, MajorityFound
    <3> QED
      BY <3>4
  <2> QED
    BY <1>4, <2>5, <2>6
<1>22. MajorityInv'
  BY <1>20, <1>21, MajorityKept
<1> QED
  BY <1>7, <1>14, <1>18, <1>19, <1>22 DEF CommitInv, CountInv

\* The calls of a new round: to each peer once, up to the end of the leader's log.
NewCall(a, s, r) ==
    /\ a.term = m_currentTerm[s] /\ a.leaderid = s /\ a.round = r /\ a.boot = incarnation[s]
    /\ a.to \in Server \ {s} /\ a = AppendEntriesArgs(s, a.to, r)
    /\ a.prevlogindex + Len(a.entries) = Len(m_logs[s])
    /\ \A k \in 1..Len(a.entries) : a.entries[k] = m_logs[s][a.prevlogindex + k]
    /\ Acked(s, a.to, a.prevlogindex)

\* doHeartBeat makes such calls, of a round that has no others.
LEMMA NewCalls ==
    ASSUME LogsSound, CommitInv, NEW s \in Server, NEW r \in Round, doHeartBeat(s, r)
    PROVE  /\ \A a \in aeArgs' : a \in aeArgs \/ NewCall(a, s, r)
           /\ \A a \in aeArgs : ~(a.leaderid = s /\ a.round = r)
           /\ \A q \in aeReply : ~(q.to = s /\ q.round = r)
<1>1. /\ \A d \in Server \ {s} : m_nextIndex[s][d] \in 1..Len(m_logs[s]) + 1
      /\ aeArgs' = aeArgs \cup {AppendEntriesArgs(s, d, r) : d \in Server \ {s}}
      /\ m_status[s] = Leader /\ RoundFree(s, r)
  BY doHeartBeatCalls DEF LogsSound
<1>2. ASSUME NEW d \in Server \ {s} PROVE NewCall(AppendEntriesArgs(s, d, r), s, r)
  <2> DEFINE a == AppendEntriesArgs(s, d, r)
  <2>1. TypeInv /\ NoSnapshots /\ m_nextIndex[s][d] \in 1..Len(m_logs[s]) + 1
    BY <1>1, <1>2 DEF LogsSound, AssertInv
  <2>2. /\ a.term = m_currentTerm[s] /\ a.leaderid = s /\ a.to = d /\ a.round = r
        /\ a.boot = incarnation[s]
        /\ a.prevlogindex = m_nextIndex[s][d] - 1
        /\ a.prevlogindex + Len(a.entries) = Len(m_logs[s])
        /\ \A k \in 1..Len(a.entries) : a.entries[k] = m_logs[s][a.prevlogindex + k]
    BY <2>1, CallContents
  <2>3. Acked(s, d, m_nextIndex[s][d] - 1)
    BY <1>1 DEF CommitInv, AckedInv
  <2> HIDE DEF a
  <2>4. Acked(s, a.to, a.prevlogindex)
    BY <2>2, <2>3
  <2>5. a = AppendEntriesArgs(s, a.to, r)
    BY <2>2 DEF a
  <2>6. NewCall(a, s, r)
    BY <2>2, <2>4, <2>5 DEF NewCall
  <2> QED
    BY <2>6 DEF a
<1>3. \A a \in aeArgs' : a \in aeArgs \/ NewCall(a, s, r)
  BY <1>1, <1>2
<1>4. \A a \in aeArgs : ~(a.leaderid = s /\ a.round = r)
  BY <1>1 DEF RoundFree, CommitInv, RoundCalls
<1>5. \A q \in aeReply : ~(q.to = s /\ q.round = r)
  BY <1>1 DEF RoundFree, CommitInv, RoundCalls
<1> QED
  BY <1>3, <1>4, <1>5

\* A heartbeat round starts: its count starts with the leader.
LEMMA doHeartBeatCommits ==
    ASSUME MaxSnapshotIndex = 0, LogsSound, LogsSound', CommitInv, [Next]_vars,
           NEW s \in Server, NEW r \in Round, doHeartBeat(s, r)
    PROVE  CommitInv'
<1>1. /\ m_status[s] = Leader
      /\ aeArgs' = aeArgs \cup {AppendEntriesArgs(s, d, r) : d \in Server \ {s}}
      /\ appendNums' = [appendNums EXCEPT ![s][r] = 1]
      /\ UNCHANGED <<m_currentTerm, m_status, elected, m_logs, m_commitIndex, m_nextIndex, m_matchIndex,
                     incarnation, aeReply>>
  BY doHeartBeatCalls DEF LogsSound, procVars
<1>2. /\ \A a \in aeArgs' : a \in aeArgs \/ NewCall(a, s, r)
      /\ \A a \in aeArgs : ~(a.leaderid = s /\ a.round = r)
      /\ \A q \in aeReply : ~(q.to = s /\ q.round = r)
  BY NewCalls
<1>3. AckedInv' /\ MajorityInv'
  BY <1>1, AckedInvKept, MajorityKept
<1>4. ASSUME NEW a, NewCall(a, s, r) PROVE ArgsSent(a)'
  <2>1. \E w \in elected' : w.term = a.term /\ w.leader = a.leaderid
    BY <1>1, <1>4 DEF NewCall, LogsSound, LogInv, LeaderHoldsTerm
  <2>2. \A k \in 1..Len(a.entries) : a.entries[k] = m_logs'[a.leaderid][a.prevlogindex + k]
    BY <1>1, <1>4 DEF NewCall
  <2>3. Acked(a.leaderid, a.to, a.prevlogindex)'
    BY <1>1, <1>4 DEF NewCall, Acked, HasEntry
  <2> QED
    BY <2>1, <2>2, <2>3 DEF ArgsSent
<1>5. SentInv'
  <2>1. \A a \in aeArgs' : ArgsSent(a)'
    BY <1>2, <1>4, OldArgsSent
  <2>2. \A q \in aeReply' : ReplySent(q)'
    BY <1>1, OldReplySent
  <2> QED
    BY <2>1, <2>2 DEF SentInv
<1>6. RoundCalls'
  <2>1. \A a \in aeArgs' : a.to # a.leaderid /\ a.boot = incarnation'[a.leaderid]
    BY <1>1, <1>2 DEF NewCall, CommitInv, RoundCalls
  <2>2. \A q \in aeReply' : q.from # q.to /\ q.boot = incarnation'[q.to]
    BY <1>1 DEF CommitInv, RoundCalls
  <2>3. \A m, n \in aeArgs' : m.leaderid = n.leaderid /\ m.round = n.round =>
          /\ m.prevlogindex + Len(m.entries) = n.prevlogindex + Len(n.entries)
          /\ m.to = n.to => m = n
    <3> SUFFICES ASSUME NEW m \in aeArgs', NEW n \in aeArgs', m.leaderid = n.leaderid, m.round = n.round
                 PROVE  /\ m.prevlogindex + Len(m.entries) = n.prevlogindex + Len(n.entries)
                        /\ m.to = n.to => m = n
      OBVIOUS
    <3>1. CASE m \in aeArgs /\ n \in aeArgs
      BY <3>1 DEF CommitInv, RoundCalls
    <3>2. CASE NewCall(m, s, r) /\ NewCall(n, s, r)
      BY <3>2 DEF NewCall
    <3>3. CASE m \in aeArgs /\ NewCall(n, s, r)
      BY <1>2, <3>3 DEF NewCall
    <3>4. CASE n \in aeArgs /\ NewCall(m, s, r)
      BY <1>2, <3>4 DEF NewCall
    <3> QED
      BY <1>2, <3>1, <3>2, <3>3, <3>4
  <2>4. \A q, p \in aeReply' : q.to = p.to /\ q.round = p.round =>
          /\ q.upto = p.upto
          /\ q.from = p.from => q = p
    BY <1>1 DEF CommitInv, RoundCalls
  <2>5. \A m \in aeArgs', q \in aeReply' : m.leaderid = q.to /\ m.round = q.round =>
          /\ m.prevlogindex + Len(m.entries) = q.upto
          /\ m.to # q.from
    <3> SUFFICES ASSUME NEW m \in aeArgs', NEW q \in aeReply', m.leaderid = q.to, m.round = q.round
                 PROVE  m.prevlogindex + Len(m.entries) = q.upto /\ m.to # q.from
      OBVIOUS
    <3>1. CASE m \in aeArgs
      BY <1>1, <3>1 DEF CommitInv, RoundCalls
    <3>2. CASE NewCall(m, s, r)
      BY <1>1, <1>2, <3>2 DEF NewCall
    <3> QED
      BY <1>2, <3>1, <3>2
  <2> QED
    BY <2>1, <2>2, <2>3, <2>4, <2>5 DEF RoundCalls
<1>7. appendNums \in [Server -> [Round -> Nat]]
  BY DEF LogsSound, TypeInv, TypeOK, MemberTypes
<1>8. \A x \in Server, q \in Round : appendNums'[x][q] = IF x = s /\ q = r THEN 1 ELSE appendNums[x][q]
  BY <1>1, <1>7
<1>9. \A x, q, d : ~(x = s /\ q = r) /\ IsPending(x, q, d)' => IsPending(x, q, d)
  BY <1>1, <1>2 DEF IsPending, NewCall
<1>10. ASSUME NEW k, k = Len(m_logs[s]) PROVE Counts(s, r, k)'
  <2>1. Acked(s, s, k)'
    BY <1>1, <1>10 DEF Acked, HasEntry
  <2>2. ~IsPending(s, r, s)'
    BY <1>6 DEF IsPending, RoundCalls
  <2>3. {s} \subseteq Holders(s, r, k)'
    BY <2>1, <2>2 DEF Holders
  <2>4. {s} \in SUBSET Server /\ Holders(s, r, k)' \in SUBSET Server
    BY DEF Holders
  <2>5. Cardinality({s}) = 1
    BY FS_Singleton
  <2>6. 1 <= Cardinality(Holders(s, r, k)')
    BY <2>3, <2>4, <2>5, MoreServers
  <2> QED
    BY <1>8, <2>6 DEF Counts
<1>11. ASSUME NEW a \in aeArgs' PROVE ArgsCounted(a)'
  <2>1. CASE a \in aeArgs
    <3>1. a.leaderid \in Server /\ a.round \in Round
      BY <2>1 DEF LogsSound, TypeInv, TypeOK, CallTypes, AppendArgsType
    <3>2. ~(a.leaderid = s /\ a.round = r)
      BY <1>2, <2>1
    <3> QED
      BY <1>8, <1>9, <2>1, <3>1, <3>2, OldArgsCounted
  <2>2. CASE NewCall(a, s, r)
    BY <1>10, <2>2 DEF NewCall, ArgsCounted
  <2> QED
    BY <1>2, <2>1, <2>2
<1>12. ASSUME NEW q \in aeReply' PROVE ReplyCounted(q)'
  <2>1. q \in aeReply /\ ~(q.to = s /\ q.round = r)
    BY <1>1, <1>2
  <2>2. q.to \in Server /\ q.round \in Round
    BY <2>1 DEF LogsSound, TypeInv, TypeOK, CallTypes, AppendReplyType
  <2> QED
    BY <1>8, <1>9, <2>1, <2>2, OldReplyCounted
<1> QED
  BY <1>3, <1>5, <1>6, <1>11, <1>12 DEF CommitInv, CountInv

\* An answer takes the place of its call.
LEMMA AnswerFields ==
    ASSUME NEW m, NEW term, NEW success, NEW next
    PROVE  LET q == AppendReply(m, term, success, next) IN
           /\ q.from = m.to /\ q.to = m.leaderid /\ q.round = m.round /\ q.boot = m.boot
           /\ q.upto = m.prevlogindex + Len(m.entries)
           /\ q.lastterm = IF m.entries = <<>> THEN 0 ELSE m.entries[Len(m.entries)].logterm
           /\ q.term = term /\ q.success = success /\ q.updatenextindex = next
  BY DEF AppendReply

\* Each peer is still asked once, and nobody new is waited for.
LEMMA AnswerRounds ==
    ASSUME CommitInv, NEW m \in aeArgs, NEW term, NEW success, NEW next,
           AnswerAppend(m, term, success, next), incarnation' = incarnation
    PROVE  RoundCalls' /\ \A s, r, d : IsPending(s, r, d)' => IsPending(s, r, d)
<1> DEFINE q == AppendReply(m, term, success, next)
<1>1. /\ q.from = m.to /\ q.to = m.leaderid /\ q.round = m.round /\ q.boot = m.boot
      /\ q.upto = m.prevlogindex + Len(m.entries)
  BY AnswerFields
<1>2. aeArgs' = aeArgs \ {m} /\ aeReply' = aeReply \cup {q}
  BY DEF AnswerAppend
<1> HIDE DEF q
<1>3. \A s, r, d : IsPending(s, r, d)' => IsPending(s, r, d)
  BY <1>1, <1>2 DEF IsPending
<1>4. /\ \A a \in aeArgs' : a.to # a.leaderid /\ a.boot = incarnation'[a.leaderid]
      /\ \A p \in aeReply' : p.from # p.to /\ p.boot = incarnation'[p.to]
  BY <1>1, <1>2 DEF CommitInv, RoundCalls
<1>5. \A a, n \in aeArgs' : a.leaderid = n.leaderid /\ a.round = n.round =>
        /\ a.prevlogindex + Len(a.entries) = n.prevlogindex + Len(n.entries)
        /\ a.to = n.to => a = n
  BY <1>2 DEF CommitInv, RoundCalls
<1>6. \A p, r \in aeReply' : p.to = r.to /\ p.round = r.round =>
        /\ p.upto = r.upto
        /\ p.from = r.from => p = r
  BY <1>1, <1>2 DEF CommitInv, RoundCalls
<1>7. \A a \in aeArgs', r \in aeReply' : a.leaderid = r.to /\ a.round = r.round =>
        /\ a.prevlogindex + Len(a.entries) = r.upto
        /\ a.to # r.from
  BY <1>1, <1>2 DEF CommitInv, RoundCalls
<1> QED
  BY <1>3, <1>4, <1>5, <1>6, <1>7 DEF RoundCalls

\* An answer that says what is so keeps CommitInv.
LEMMA AnswerCommits ==
    ASSUME MaxSnapshotIndex = 0, LogsSound, LogsSound', CommitInv, [Next]_vars, AnswerLeaves,
           NEW m \in aeArgs, NEW term, NEW success, NEW next,
           AnswerAppend(m, term, success, next),
           ReplySent(AppendReply(m, term, success, next))',
           success \/ next # -100 => term = m.term,
           \A x \in Server : m_status[x] = Leader /\ m_status'[x] = Leader =>
               m_commitIndex'[x] = m_commitIndex[x]
    PROVE  CommitInv'
<1> DEFINE q == AppendReply(m, term, success, next)
<1>1. /\ q.to = m.leaderid /\ q.round = m.round
      /\ q.upto = m.prevlogindex + Len(m.entries)
      /\ q.term = term /\ q.success = success /\ q.updatenextindex = next
  BY AnswerFields
<1>2. aeArgs' = aeArgs \ {m} /\ aeReply' = aeReply \cup {q}
  BY DEF AnswerAppend
<1>3. ReplySent(q)'
  OBVIOUS
<1> HIDE DEF q
<1>4. UNCHANGED <<m_nextIndex, m_matchIndex, appendNums, incarnation>>
  BY DEF AnswerLeaves, leaderVars, procVars
<1>5. RoundCalls' /\ \A s, r, d : IsPending(s, r, d)' => IsPending(s, r, d)
  BY <1>4, AnswerRounds
<1>6. AckedInv'
  BY <1>4, AckedInvKept
<1>7. MajorityInv'
  BY MajorityKept
<1>8. SentInv'
  <2>1. \A a \in aeArgs' : ArgsSent(a)'
    BY <1>2, OldArgsSent
  <2>2. \A p \in aeReply' : ReplySent(p)'
    BY <1>2, <1>3, OldReplySent
  <2> QED
    BY <2>1, <2>2 DEF SentInv
<1>9. \A a \in aeArgs : ArgsCounted(a)'
  BY <1>4, <1>5, OldArgsCounted
<1>10. ReplyCounted(q)'
  <2>1. ArgsCounted(m)'
    BY <1>9
  <2>2. Answers(q)' => q.term = m.term
    BY <1>1 DEF Answers
  <2> QED
    BY <1>1, <2>1, <2>2 DEF ArgsCounted, ReplyCounted
<1>11. \A p \in aeReply : ReplyCounted(p)'
  BY <1>4, <1>5, OldReplyCounted
<1> QED
  BY <1>2, <1>5, <1>6, <1>7, <1>8, <1>9, <1>10, <1>11 DEF CommitInv, CountInv

\* A follower that refuses goes back to an index up to which it has everything.
LEMMA RefusesSays ==
    ASSUME MaxSnapshotIndex = 0, LogsSound, LogsSound', CommitInv, [Next]_vars,
           NEW m \in aeArgs, NEW next \in Int, next \in 1..m.prevlogindex
    PROVE  ReplySent(AppendReply(m, m.term, FALSE, next))'
<1> DEFINE q == AppendReply(m, m.term, FALSE, next)
<1>1. /\ q.to = m.leaderid /\ q.from = m.to
      /\ q.term = m.term /\ ~q.success /\ q.updatenextindex = next
  BY DEF AppendReply
<1>2. ArgsSent(m)'
  BY OldArgsSent
<1>3. m.prevlogindex \in Nat
  BY DEF LogsSound, TypeInv, TypeOK, CallTypes, AppendArgsType
<1> HIDE DEF q
<1>4. Acked(m.leaderid, m.to, m.prevlogindex)' => Acked(m.leaderid, m.to, next - 1)'
  <2>1. \A i \in 1..next - 1 : i \in 1..m.prevlogindex
    BY <1>3
  <2> QED
    BY <2>1 DEF Acked
<1>5. ReplySent(q)'
  BY <1>1, <1>2, <1>4 DEF ReplySent, ArgsSent
<1> QED
  BY <1>5 DEF q

\* A follower that accepts has everything up to where the call ends.
LEMMA AcceptsSays ==
    ASSUME MaxSnapshotIndex = 0, LogsSound, LogsSound', CommitInv, [Next]_vars,
           NEW m \in aeArgs, Accepts(m), elected' = elected
    PROVE  ReplySent(AppendReply(m, m.term, TRUE, 0))'
<1> DEFINE q == AppendReply(m, m.term, TRUE, 0)
           l == m.leaderid
           f == m.to
           prev == m.prevlogindex
           n == Len(m.entries)
<1>1. /\ q.to = l /\ q.from = f /\ q.upto = prev + n
      /\ q.lastterm = IF m.entries = <<>> THEN 0 ELSE m.entries[n].logterm
      /\ q.term = m.term /\ q.success
  BY DEF AppendReply
<1>2. ArgsSent(m)'
  BY OldArgsSent
<1>3. m \in AppendArgsType
  BY DEF LogsSound, TypeInv, TypeOK, CallTypes
<1>4. l \in Server /\ f \in Server /\ prev \in Nat /\ m.entries \in Seq(Entry) /\ m.term \in Int
  BY <1>3 DEF AppendArgsType
<1>5. n \in Nat /\ (m.entries # <<>> => n >= 1)
  BY <1>4
<1>6. /\ Len(m_logs'[f]) \in Nat /\ Len(m_logs'[f]) >= prev + n
      /\ \A k \in 1..n : m_logs'[f][prev + k].logterm = m.entries[k].logterm
  BY AcceptedLog DEF LogsSound
<1>7. m_currentTerm'[f] = m.term
  <2>1. m_currentTerm \in [Server -> 0..MaxTerm]
    BY DEF LogsSound, TypeInv, TypeOK, MemberTypes
  <2>2. m.term >= m_currentTerm[f] /\ FollowTerm(f, m.term)
    BY DEF Accepts
  <2>3. m_currentTerm[f] \in Int
    BY <1>4, <2>1
  <2> HIDE DEF f
  <2> QED
    BY <1>4, <2>1, <2>2, <2>3 DEF FollowTerm, StepDown, termVars
<1>8. PICK w \in elected : w.term = m.term /\ w.leader = l
  BY DEF CommitInv, SentInv, ArgsSent
<1>9. m.term # 0
  BY <1>8 DEF LogsSound, TypeInv, TypeOK, HistoryTypes
<1>10. (\E w1 \in elected : w1.term = q.term /\ w1.leader = q.to)'
  BY <1>1, <1>2 DEF ArgsSent
<1> HIDE DEF q, l, f, prev, n
<1>11. ASSUME m_status'[l] = Leader, m.term = m_currentTerm'[l]
       PROVE  /\ Acked(l, f, prev + n)'
              /\ q.lastterm = m.term => prev + n >= 1 /\ m_logs'[l][prev + n].logterm = m.term
  <2>1. /\ \A k \in 1..n : m.entries[k] = m_logs'[l][prev + k]
        /\ Acked(l, f, prev)'
    BY <1>2, <1>11 DEF ArgsSent, l, f, prev, n
  <2>2. ASSUME NEW i \in 1..(prev + n), m_logs'[l][i].logterm = m_currentTerm'[l]
        PROVE  HasEntry(f, i, m_currentTerm[l])'
    <3>1. CASE i <= prev
      <4>1. i \in 1..prev
        BY <1>4, <1>5, <2>2, <3>1
      <4> QED
        BY <2>1, <2>2, <4>1 DEF Acked
    <3>2. CASE i > prev
      <4>1. i - prev \in 1..n /\ prev + (i - prev) = i /\ i \in 1..Len(m_logs'[f])
        BY <1>4, <1>5, <1>6, <2>2, <3>2
      <4>2. m_logs'[f][i].logterm = m_logs'[l][i].logterm
        BY <1>6, <2>1, <4>1
      <4> QED
        BY <1>7, <1>11, <2>2, <4>1, <4>2 DEF HasEntry
    <3> QED
      BY <1>4, <1>5, <2>2, <3>1, <3>2
  <2>3. Acked(l, f, prev + n)'
    BY <2>2 DEF Acked, l, f, prev, n
  <2>4. ASSUME q.lastterm = m.term PROVE prev + n >= 1 /\ m_logs'[l][prev + n].logterm = m.term
    <3>1. m.entries # <<>> /\ m.entries[n].logterm = m.term
      BY <1>1, <1>9, <2>4
    <3>2. n \in 1..n /\ prev + n >= 1
      BY <1>4, <1>5, <3>1
    <3> QED
      BY <2>1, <3>1, <3>2
  <2> QED
    BY <2>3, <2>4
<1>12. ReplySent(q)'
  BY <1>1, <1>10, <1>11 DEF ReplySent, l, f, prev, n
<1> QED
  BY <1>12 DEF q

\* A call arrives and is answered.
LEMMA AppendEntriesCommits ==
    ASSUME MaxSnapshotIndex = 0, LogsSound, LogsSound', CommitInv, [Next]_vars,
           NEW m \in aeArgs, AppendEntries(m)
    PROVE  CommitInv'
<1>1. /\ AnswerLeaves
      /\ \/ AppendEntriesStale(m)
         \/ \E next \in Int : Refuses(m, next)
         \/ Accepts(m)
  BY AppendEntriesAnswers DEF LogsSound
<1>2. CASE AppendEntriesStale(m)
  <2>1. AnswerAppend(m, m_currentTerm[m.to], FALSE, -100) /\ m_commitIndex' = m_commitIndex
    BY <1>2 DEF AppendEntriesStale, memory, workVars, applyVars
  <2>2. ASSUME NEW t PROVE ReplySent(AppendReply(m, t, FALSE, -100))'
    <3> DEFINE q == AppendReply(m, t, FALSE, -100)
    <3>1. ~q.success /\ q.updatenextindex = -100
      BY DEF AppendReply
    <3> HIDE DEF q
    <3>2. ReplySent(q)'
      BY <3>1 DEF ReplySent, Answers
    <3> QED
      BY <3>2 DEF q
  <2>3. ASSUME NEW t, t = m_currentTerm[m.to] PROVE CommitInv'
    BY <1>1, <2>1, <2>2, <2>3, AnswerCommits
  <2> QED
    BY <2>3
<1>3. ASSUME NEW next \in Int, Refuses(m, next) PROVE CommitInv'
  <2>1. /\ next \in 1..m.prevlogindex
        /\ AnswerAppend(m, m.term, FALSE, next) /\ m_commitIndex' = m_commitIndex
    BY <1>3 DEF Refuses
  <2>2. ReplySent(AppendReply(m, m.term, FALSE, next))'
    BY <2>1, RefusesSays
  <2> QED
    BY <1>1, <2>1, <2>2, AnswerCommits
<1>4. CASE Accepts(m)
  <2>1. elected' = elected
    BY <1>1 DEF AnswerLeaves
  <2>2. ReplySent(AppendReply(m, m.term, TRUE, 0))'
    BY <1>4, <2>1, AcceptsSays
  <2>3. AnswerAppend(m, m.term, TRUE, 0)
    BY <1>4 DEF Accepts
  <2>4. m.to \in Server
    BY DEF LogsSound, TypeInv, TypeOK, CallTypes, AppendArgsType
  <2>5. m_status'[m.to] # Leader
    <3>1. m_status \in [Server -> {Follower, Candidate, Leader}]
      BY DEF LogsSound, TypeInv, TypeOK, MemberTypes
    <3>2. FollowTerm(m.to, m.term)
      BY <1>4 DEF Accepts
    <3> QED
      BY <2>4, <3>1, <3>2 DEF FollowTerm, StepDown, Follower, Leader
  <2>6. \A x \in Server \ {m.to} : m_commitIndex'[x] = m_commitIndex[x]
    <3>1. m_commitIndex \in [Server -> Nat]
      BY DEF LogsSound, TypeInv, TypeOK, MemberTypes
    <3> QED
      BY <1>4, <2>4, <3>1 DEF Accepts
  <2> QED
    BY <1>1, <2>2, <2>3, <2>5, <2>6, AnswerCommits
<1> QED
  BY <1>1, <1>2, <1>3, <1>4

-----------------------------------------------------------------------------
(* What a leader commits in its term is on a majority *)

\* Every step keeps CommitInv.
LEMMA CommitInvStep ==
    ASSUME MaxSnapshotIndex = 0, LogsSound, LogsSound', CommitInv, [Next]_vars
    PROVE  CommitInv'
<1>1. NoSnapshots /\ TypeOK /\ TypeInv /\ AssertInv
  BY DEF LogsSound, AssertInv, TypeInv
<1>2. ASSUME NEW s \in Server, applierTicker(s) PROVE CommitInv'
  BY <1>1, <1>2, applierTickerQuiet, QuietKeepsCommitInv
<1>3. CASE \/ \E m \in rvArgs : RequestVote(m)
           \/ \E m \in rvReply : VoteHigherTerm(m) \/ VoteIgnored(m) \/ VoteCounted(m)
           \/ \E m \in aeReply : AppendHigherTerm(m) \/ AppendIgnored(m)
           \/ CallFails
           \/ UNCHANGED vars
  BY <1>1, <1>3, ElectionQuiet, QuietKeepsCommitInv
<1>4. ASSUME NEW s \in Server,
             \/ doElection(s)
             \/ \E c \in Command : Start(s, c)
             \/ \E r \in Round : doHeartBeat(s, r)
      PROVE  CommitInv'
  BY <1>4, doElectionCommits, StartCommits, doHeartBeatCommits
<1>5. ASSUME NEW m \in aeReply, AppendRefused(m) \/ AppendAccepted(m) PROVE CommitInv'
  BY <1>5, AppendRefusedCommits, AppendAcceptedCommits
<1>6. ASSUME NEW m \in rvReply, VoteWins(m) PROVE CommitInv'
  BY <1>6, VoteWinsCommits
<1>7. ASSUME NEW m \in aeArgs, AppendEntries(m) PROVE CommitInv'
  BY <1>7, AppendEntriesCommits
<1> QED
  BY <1>1, <1>2, <1>3, <1>4, <1>5, <1>6, <1>7, PlainCases

\* At the start there is no leader and no call.
LEMMA CommitInvInit == Init => CommitInv
BY DEF Init, CommitInv, SentInv, AckedInv, RoundCalls, CountInv, MajorityInv, MajorityAt, Follower,
   Leader

\* What a leader has heard of its followers, counted in its rounds and committed
\* is what they hold, in every reachable state.
THEOREM CountsAreSound ==
    ASSUME MaxSnapshotIndex = 0
    PROVE  Spec => []CommitInv
<1>1. LogsSound /\ LogsSound' /\ CommitInv /\ [Next]_vars => CommitInv'
  BY CommitInvStep
<1>2. TypeInv /\ ElectInv /\ LogInv /\ AssertInv => LogsSound
  BY DEF LogsSound
<1> QED
  BY <1>1, <1>2, CommitInvInit, TypeCorrect, VotesCounted, EntriesAreProposed, IndicesInLog, PTL
     DEF Spec

\* The entries of its own term that a leader commits, in sendAppendEntries by
\* counting the answers of a round and in leaderUpdateCommitIndex by m_matchIndex,
\* are held by a majority of the servers, each of which keeps them as long as it
\* stays in that term: as long as no snapshot is taken, whatever calls are lost,
\* overtake one another or answer late.
THEOREM CommitsAreOnMajority ==
    ASSUME MaxSnapshotIndex = 0
    PROVE  Spec => []CommittedOnMajority
<1>1. TypeInv /\ AssertInv /\ CommitInv => CommittedOnMajority
  <2> SUFFICES ASSUME TypeInv, AssertInv, CommitInv, NEW s \in Server, m_status[s] = Leader,
                      m_commitIndex[s] > m_lastSnapshotIncludeIndex[s],
                      getLogTermFromLogIndex(s, m_commitIndex[s]) = m_currentTerm[s]
               PROVE  IsMajority(Cardinality({d \in Server : HasCommitted(s, d)}))
    BY DEF CommittedOnMajority
  <2> DEFINE c == m_commitIndex[s]
             t == m_currentTerm[s]
             D == {d \in Server : HasCommitted(s, d)}
  <2>1. NoSnapshots
    BY DEF AssertInv
  <2>2. c \in Nat /\ c > 0
    BY <2>1 DEF NoSnapshots, TypeInv, TypeOK, MemberTypes
  <2>3. m_logs[s][c].logterm = t
    BY <2>1, <2>2, PlainLog
  <2>4. IsMajority(Cardinality(Having(c, t)))
    BY <2>2, <2>3 DEF CommitInv, MajorityInv, MajorityAt
  <2>5. ASSUME NEW d \in Server, HasEntry(d, c, t) PROVE HasCommitted(s, d)
    <3>1. CASE m_currentTerm[d] > t
      BY <3>1 DEF HasCommitted
    <3>2. CASE c \in 1..Len(m_logs[d]) /\ m_logs[d][c].logterm = t
      <4>1. Len(m_logs[d]) \in Nat
        BY <2>1, PlainLog
      <4>2. c \in 0..Len(m_logs[d]) /\ c # 0 /\ c \in Int
        BY <3>2, <4>1
      <4>3. HoldsIndex(d, c) /\ getLogTermFromLogIndex(d, c) = t
        BY <2>1, <3>2, <4>2, PlainLog
      <4> QED
        BY <4>3 DEF HasCommitted
    <3> QED
      BY <2>5, <3>1, <3>2 DEF HasEntry
  <2>6. Having(c, t) \subseteq D /\ Having(c, t) \in SUBSET Server /\ D \in SUBSET Server
    BY <2>5 DEF Having
  <2> HIDE DEF c, t, D
  <2>7. IsMajority(Cardinality(D))
    BY <2>4, <2>6, MoreServers, MajorityGrows
  <2> QED
    BY <2>7 DEF D
<1> QED
  BY <1>1, CountsAreSound, IndicesInLog, TypeCorrect, PTL
=============================================================================

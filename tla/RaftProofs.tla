------------------------------ MODULE RaftProofs ------------------------------
(* Theorems about module Raft, for any number of servers and any bounds: types, *)
(* elections, votes on disk, and logs. *)
EXTENDS Raft, FiniteSetTheorems, SequenceTheorems, TLAPS

-----------------------------------------------------------------------------
(* Functions and the log operators *)

\* An update of an array member keeps its type.
LEMMA Update ==
    ASSUME NEW S, NEW T, NEW f \in [S -> T], NEW x \in S, NEW v \in T
    PROVE  [f EXCEPT ![x] = v] \in [S -> T]
OBVIOUS

\* Changing one cell of a function of functions (m_nextIndex[s][d] = v) keeps its type.
LEMMA Update2 ==
    ASSUME NEW S, NEW D, NEW T, NEW f \in [S -> [D -> T]], NEW x \in S, NEW y \in D, NEW v \in T
    PROVE  [f EXCEPT ![x][y] = v] \in [S -> [D -> T]]
OBVIOUS

\* The last entry's own index agrees with the length of the log.
LEMMA LastIndex ==
    ASSUME LogTypes, LogContiguous, NEW s \in Server
    PROVE  /\ getLastLogIndex(s) = m_lastSnapshotIncludeIndex[s] + Len(m_logs[s])
           /\ getLastLogIndex(s) \in Nat
           /\ getLastLogTerm(s) \in Nat
<1>1. m_logs[s] \in Seq(Entry) /\ m_lastSnapshotIncludeIndex[s] \in Nat /\ m_lastSnapshotIncludeTerm[s] \in Nat
  BY DEF LogTypes
<1>2. CASE m_logs[s] = <<>>
  BY <1>1, <1>2 DEF getLastLogIndex, getLastLogTerm
<1>3. CASE m_logs[s] # <<>>
  <2>1. Len(m_logs[s]) \in 1..Len(m_logs[s])
    BY <1>1, <1>3
  <2>2. m_logs[s][Len(m_logs[s])] \in Entry
    BY <1>1, <2>1
  <2>3. m_logs[s][Len(m_logs[s])].logindex = m_lastSnapshotIncludeIndex[s] + Len(m_logs[s])
    BY <2>1 DEF LogContiguous
  <2> QED
    BY <1>1, <1>3, <2>1, <2>2, <2>3 DEF getLastLogIndex, getLastLogTerm, Entry
<1> QED
  BY <1>2, <1>3

\* An index the assertions admit has a term.
LEMMA TermAt ==
    ASSUME LogTypes, LogContiguous, NEW s \in Server, NEW i \in Int, HoldsIndex(s, i)
    PROVE  getLogTermFromLogIndex(s, i) \in Nat
<1>1. m_logs[s] \in Seq(Entry) /\ m_lastSnapshotIncludeIndex[s] \in Nat /\ m_lastSnapshotIncludeTerm[s] \in Nat
  BY DEF LogTypes
<1>2. i \in m_lastSnapshotIncludeIndex[s]..(m_lastSnapshotIncludeIndex[s] + Len(m_logs[s]))
  BY LastIndex DEF HoldsIndex
<1>3. CASE i # m_lastSnapshotIncludeIndex[s]
  <2>1. i - m_lastSnapshotIncludeIndex[s] \in 1..Len(m_logs[s])
    BY <1>1, <1>2, <1>3
  <2>2. m_logs[s][i - m_lastSnapshotIncludeIndex[s]] \in Entry
    BY <1>1, <2>1
  <2> QED
    BY <1>3, <2>2 DEF getLogTermFromLogIndex, getSlicesIndexFromLogIndex, Entry
<1> QED
  BY <1>1, <1>3 DEF getLogTermFromLogIndex

\* MergeEntries returns a log, and each of its entries comes from one of the
\* two it merges.
LEMMA MergeProperties ==
    ASSUME NEW log \in Seq(Entry), NEW entries \in Seq(Entry), NEW after \in 0..Len(log)
    PROVE  /\ MergeEntries(log, after, entries) \in Seq(Entry)
           /\ Len(MergeEntries(log, after, entries)) = MaxOf(Len(log), after + Len(entries))
           /\ \A k \in 1..Len(MergeEntries(log, after, entries)) :
                \/ k \in 1..Len(log) /\ MergeEntries(log, after, entries)[k] = log[k]
                \/ /\ k - after \in 1..Len(entries)
                   /\ MergeEntries(log, after, entries)[k] = entries[k - after]
<1> DEFINE n == MaxOf(Len(log), after + Len(entries))
           f == MergeEntries(log, after, entries)
<1>1. n \in Nat /\ n >= Len(log) /\ n >= after + Len(entries) /\ (n = Len(log) \/ n = after + Len(entries))
  BY DEF MaxOf
<1>2. ASSUME NEW k \in 1..n
      PROVE  /\ f[k] \in Entry
             /\ \/ k \in 1..Len(log) /\ f[k] = log[k]
                \/ k - after \in 1..Len(entries) /\ f[k] = entries[k - after]
  <2>1. f[k] = IF /\ k - after \in 1..Len(entries)
                  /\ k <= Len(log) => log[k].logterm # entries[k - after].logterm
               THEN entries[k - after] ELSE log[k]
    BY DEF MergeEntries
  <2>2. k \in 1..Len(log) \/ k - after \in 1..Len(entries)
    BY <1>1
  <2>3. k - after \in 1..Len(entries) => entries[k - after] \in Entry
    OBVIOUS
  <2>4. k \in 1..Len(log) => log[k] \in Entry
    OBVIOUS
  <2> QED
    BY <2>1, <2>2, <2>3, <2>4
<1>3. DOMAIN f = 1..n
  BY DEF MergeEntries
<1>4. f \in [1..n -> Entry]
  BY <1>2, <1>3 DEF MergeEntries
<1>5. f \in Seq(Entry) /\ Len(f) = n
  BY <1>1, <1>3, <1>4, SeqDef, LenProperties
<1> QED
  BY <1>2, <1>5
-----------------------------------------------------------------------------
(* Type correctness *)

TypeInv == TypeOK /\ LogContiguous

\* persist() and Save() leave well-typed files behind.
LEMMA PersistTypes ==
    ASSUME FileTypes, MemberTypes', LogTypes', NEW s \in Server,
           \/ persist(s)
           \/ \E data \in Data : Save(s, data)
    PROVE  FileTypes'
<1>1. persistData(s) \in StateRecord
  BY DEF persistData, StateRecord, MemberTypes, LogTypes
<1>2. raftState' = [raftState EXCEPT ![s] = persistData(s)]
  BY DEF persist, Save
<1>3. raftState' \in [Server -> StateRecord]
  BY <1>1, <1>2 DEF FileTypes
<1>4. snapshotFile' \in [Server -> Data]
  BY DEF FileTypes, persist, Save
<1> QED
  BY <1>3, <1>4 DEF FileTypes

\* Winning sets the role and fresh nextIndex and matchIndex arrays of the right type.
LEMMA BecomeLeaderTypes ==
    ASSUME MemberTypes, NEW s \in Server, getLastLogIndex(s) \in Nat, BecomeLeader(s)
    PROVE  /\ m_status' \in [Server -> {Follower, Candidate, Leader}]
           /\ m_nextIndex' \in [Server -> [Server -> Int]]
           /\ m_matchIndex' \in [Server -> [Server -> Nat]]
<1>1. m_status' \in [Server -> {Follower, Candidate, Leader}]
  BY DEF BecomeLeader, MemberTypes
<1>2. m_nextIndex' \in [Server -> [Server -> Int]]
  <2>1. [d \in Server |-> getLastLogIndex(s) + 1] \in [Server -> Int]
    OBVIOUS
  <2> QED
    BY <2>1, Update DEF BecomeLeader, MemberTypes
<1>3. m_matchIndex' \in [Server -> [Server -> Nat]]
  BY DEF BecomeLeader, MemberTypes
<1> QED
  BY <1>1, <1>2, <1>3

\* doElection keeps TypeInv.
LEMMA doElectionTypes ==
    ASSUME TypeInv, NEW s \in Server, doElection(s)
    PROVE  TypeInv'
<1> USE DEF TypeInv, TypeOK
<1>1. getLastLogIndex(s) \in Nat /\ getLastLogTerm(s) \in Nat
  BY LastIndex
<1>2. m_currentTerm[s] + 1 \in 1..MaxTerm
  BY BoundAssumption DEF doElection, MemberTypes
<1>3. LogTypes' /\ LogContiguous'
  BY DEF doElection, LogTypes, LogContiguous, logVars, appendNet
<1>4. MemberTypes'
  <2>1. votedNum' \in [Server -> [0..MaxTerm -> SUBSET Server]]
    <3>1. CASE votedNum' = votedNum
      BY <3>1 DEF MemberTypes
    <3>2. CASE votedNum' = [votedNum EXCEPT ![s][m_currentTerm[s] + 1] = {s}]
      BY <1>2, <3>2 DEF MemberTypes
    <3> QED BY <3>1, <3>2 DEF doElection
  <2>2. m_status' \in [Server -> {Follower, Candidate, Leader}]
    BY DEF doElection, MemberTypes, BecomeLeader
  <2>3. m_nextIndex' \in [Server -> [Server -> Int]] /\ m_matchIndex' \in [Server -> [Server -> Nat]]
    <3>1. CASE BecomeLeader(s)
      BY <1>1, <3>1 DEF MemberTypes, BecomeLeader
    <3> QED BY <3>1 DEF doElection, MemberTypes
  <2>4. m_currentTerm' \in [Server -> 0..MaxTerm] /\ m_votedFor' \in [Server -> Server \cup {None}]
    BY <1>2 DEF doElection, MemberTypes
  <2> QED
    BY <2>1, <2>2, <2>3, <2>4 DEF doElection, MemberTypes, applyVars, snapNet, procVars
<1>5. FileTypes'
  BY <1>3, <1>4, PersistTypes DEF doElection
<1>6. CallTypes'
  <2>1. ASSUME NEW d \in Server \ {s}
        PROVE  RequestVoteArgs(s, d, m_currentTerm[s] + 1) \in VoteArgsType
    BY <1>1, <1>2 DEF RequestVoteArgs, VoteArgsType, MemberTypes
  <2> QED
    BY <2>1 DEF doElection, CallTypes, appendNet, snapNet
<1>7. HistoryTypes'
  BY <1>2 DEF doElection, HistoryTypes, logVars
<1> QED
  BY <1>3, <1>4, <1>5, <1>6, <1>7

\* The three changes, with a term from a message.
LEMMA StepDownTypes ==
    ASSUME MemberTypes, NEW s \in Server, NEW term \in 0..MaxTerm,
           StepDown(s, term) \/ FollowTerm(s, term)
    PROVE  /\ m_currentTerm' \in [Server -> 0..MaxTerm]
           /\ m_votedFor' \in [Server -> Server \cup {None}]
           /\ m_status' \in [Server -> {Follower, Candidate, Leader}]
<1>1. CASE StepDown(s, term)
  <2>1. m_currentTerm' \in [Server -> 0..MaxTerm]
    BY <1>1 DEF StepDown, MemberTypes
  <2>2. m_votedFor' \in [Server -> Server \cup {None}]
    BY <1>1 DEF StepDown, MemberTypes
  <2>3. m_status' \in [Server -> {Follower, Candidate, Leader}]
    BY <1>1 DEF StepDown, MemberTypes
  <2> QED
    BY <2>1, <2>2, <2>3
<1>2. CASE UNCHANGED termVars /\ m_status' = [m_status EXCEPT ![s] = Follower]
  <2>1. m_status' \in [Server -> {Follower, Candidate, Leader}]
    BY <1>2 DEF MemberTypes
  <2> QED
    BY <1>2, <2>1 DEF MemberTypes, termVars
<1> QED
  BY <1>1, <1>2 DEF FollowTerm

\* Logs stay as they are, and AppendEntries calls only leave the wire.
LEMMA LogsKept ==
    ASSUME TypeInv, UNCHANGED logVars, aeArgs' \subseteq aeArgs
    PROVE  LogTypes' /\ LogContiguous'
BY DEF TypeInv, TypeOK, LogTypes, LogContiguous, logVars

\* A failing myAssert keeps TypeInv.
LEMMA ExitTypes ==
    ASSUME TypeInv, NEW s \in Server, Exit(s), CallTypes', aeArgs' \subseteq aeArgs,
           UNCHANGED snapTask
    PROVE  TypeInv'
<1> USE DEF TypeInv, TypeOK
<1>1. LogTypes' /\ LogContiguous'
  BY LogsKept DEF Exit, memory, workVars
<1>2. MemberTypes' /\ FileTypes' /\ HistoryTypes'
  BY DEF Exit, MemberTypes, FileTypes, HistoryTypes, memory, workVars, termVars, voteVars, logVars,
         applyVars, leaderVars, diskVars
<1> QED
  BY <1>1, <1>2

\* The RequestVote handler keeps TypeInv.
LEMMA RequestVoteTypes ==
    ASSUME TypeInv, NEW m \in rvArgs, RequestVote(m)
    PROVE  TypeInv'
<1> USE DEF TypeInv, TypeOK
<1>1. m \in VoteArgsType /\ m.to \in Server /\ m.candidateid \in Server /\ m.term \in 1..MaxTerm
      /\ m.boot \in Nat
  BY DEF CallTypes, VoteArgsType
<1>2. ASSUME NEW term \in 1..MaxTerm, NEW granted \in BOOLEAN, AnswerVote(m, term, granted),
             UNCHANGED <<appendNet, snapNet>>
      PROVE  CallTypes'
  <2>1. VoteReply(m, term, granted) \in VoteReplyType
    BY <1>1 DEF VoteReply, VoteReplyType
  <2> QED
    BY <1>2, <2>1 DEF AnswerVote, CallTypes, appendNet, snapNet
<1>3. CASE RequestVoteExpire(m)
  <2>1. LogTypes' /\ LogContiguous'
    BY <1>3, LogsKept DEF RequestVoteExpire, memory, workVars, appendNet
  <2>2. MemberTypes' /\ HistoryTypes'
    BY <1>3 DEF RequestVoteExpire, MemberTypes, HistoryTypes, memory, workVars, termVars, voteVars,
                logVars, applyVars, leaderVars, procVars, snapNet
  <2>3. FileTypes'
    BY <1>1, <1>3, <2>1, <2>2, PersistTypes DEF RequestVoteExpire
  <2>4. CallTypes'
    <3>1. m_currentTerm[m.to] \in 1..MaxTerm
      BY <1>1, <1>3 DEF RequestVoteExpire, MemberTypes
    <3> QED
      BY <1>2, <1>3, <3>1 DEF RequestVoteExpire
  <2> QED
    BY <2>1, <2>2, <2>3, <2>4
<1>4. CASE RequestVoteCurrent(m)
  <2>1. LogTypes' /\ LogContiguous'
    BY <1>4, LogsKept DEF RequestVoteCurrent, appendNet
  <2>2. /\ m_currentTerm' \in [Server -> 0..MaxTerm]
        /\ m_votedFor' \in [Server -> Server \cup {None}]
        /\ m_status' \in [Server -> {Follower, Candidate, Leader}]
    <3>1. m_currentTerm' \in [Server -> 0..MaxTerm]
      BY <1>1, <1>4 DEF RequestVoteCurrent, MemberTypes
    <3>2. m_votedFor' \in [Server -> Server \cup {None}]
      BY <1>1, <1>4 DEF RequestVoteCurrent, MemberTypes
    <3>3. m_status' \in [Server -> {Follower, Candidate, Leader}]
      BY <1>1, <1>4 DEF RequestVoteCurrent, MemberTypes
    <3> QED
      BY <3>1, <3>2, <3>3
  <2>3. MemberTypes'
    BY <1>4, <2>2 DEF RequestVoteCurrent, MemberTypes, applyVars, leaderVars, procVars, snapNet
  <2>4. HistoryTypes'
    BY <1>1, <1>4 DEF RequestVoteCurrent, HistoryTypes, logVars
  <2>5. FileTypes'
    BY <1>1, <1>4, <2>1, <2>3, PersistTypes DEF RequestVoteCurrent
  <2>6. GrantsVote(m.to, m) \in BOOLEAN
    BY DEF GrantsVote
  <2>7. CallTypes'
    BY <1>1, <1>2, <1>4, <2>6 DEF RequestVoteCurrent
  <2> QED
    BY <2>1, <2>3, <2>4, <2>5, <2>7
<1> QED
  BY <1>3, <1>4 DEF RequestVote

\* sendRequestVote, after the call returned, keeps TypeInv.
LEMMA sendRequestVoteTypes ==
    ASSUME TypeInv, NEW m \in rvReply, sendRequestVote(m)
    PROVE  TypeInv'
<1> USE DEF TypeInv, TypeOK
<1>1. m.to \in Server /\ m.from \in Server /\ m.election \in 1..MaxTerm /\ m.term \in 1..MaxTerm
      /\ m.election \in 0..MaxTerm /\ m.term \in 0..MaxTerm
  BY DEF CallTypes, VoteReplyType
<1>2. CallTypes' /\ aeArgs' = aeArgs /\ UNCHANGED snapTask
  BY DEF sendRequestVote, VoteHigherTerm, VoteIgnored, VoteCounted, VoteWins, CallTypes, appendNet, snapNet
<1>3. CASE VoteHigherTerm(m)
  <2>1. LogTypes' /\ LogContiguous'
    BY <1>2, <1>3, LogsKept DEF VoteHigherTerm, workVars
  <2>2. MemberTypes' /\ HistoryTypes'
    BY <1>1, <1>2, <1>3, StepDownTypes DEF VoteHigherTerm, MemberTypes, HistoryTypes, workVars, voteVars,
       logVars, applyVars, leaderVars, procVars
  <2>3. FileTypes'
    BY <1>1, <1>3, <2>1, <2>2, PersistTypes DEF VoteHigherTerm
  <2> QED
    BY <1>2, <2>1, <2>2, <2>3
<1>4. CASE VoteIgnored(m)
  <2>1. LogTypes' /\ LogContiguous'
    BY <1>2, <1>4, LogsKept DEF VoteIgnored, memory, workVars
  <2>2. MemberTypes' /\ HistoryTypes' /\ FileTypes'
    BY <1>2, <1>4 DEF VoteIgnored, MemberTypes, HistoryTypes, FileTypes, memory, workVars, termVars, voteVars,
       logVars, applyVars, leaderVars, procVars, diskVars
  <2> QED
    BY <1>2, <2>1, <2>2
<1> DEFINE votes == votedNum[m.to][m.election] \cup {m.from}
<1>5. votes \in SUBSET Server
  <2>1. votedNum[m.to] \in [0..MaxTerm -> SUBSET Server]
    BY <1>1 DEF MemberTypes
  <2>2. votedNum[m.to][m.election] \in SUBSET Server
    BY <1>1, <2>1
  <2> QED
    BY <1>1, <2>2
<1> HIDE DEF votes
<1>6. CASE VoteCounted(m)
  <2>1. LogTypes' /\ LogContiguous'
    BY <1>2, <1>6, LogsKept DEF VoteCounted
  <2>2. votedNum' \in [Server -> [0..MaxTerm -> SUBSET Server]]
    <3>1. votedNum' = [votedNum EXCEPT ![m.to][m.election] = votes]
      BY <1>6 DEF VoteCounted, votes
    <3> QED
      BY <1>1, <1>5, <3>1, Update2 DEF MemberTypes
  <2>3. MemberTypes' /\ HistoryTypes' /\ FileTypes'
    BY <1>2, <1>6, <2>2 DEF VoteCounted, MemberTypes, HistoryTypes, FileTypes, termVars,
       logVars, applyVars, leaderVars, procVars, diskVars
  <2> QED
    BY <1>2, <2>1, <2>3
<1>7. CASE VoteWins(m) /\ m_status[m.to] = Leader
  BY <1>1, <1>2, <1>7, ExitTypes DEF VoteWins
<1>8. CASE VoteWins(m) /\ m_status[m.to] # Leader
  <2>1. LogTypes' /\ LogContiguous'
    BY <1>2, <1>8, LogsKept DEF VoteWins
  <2>2. getLastLogIndex(m.to) \in Nat
    BY <1>1, LastIndex
  <2>3. votedNum' \in [Server -> [0..MaxTerm -> SUBSET Server]]
    <3>1. votedNum' = [votedNum EXCEPT ![m.to][m.election] = {}]
      BY <1>8 DEF VoteWins
    <3> QED
      BY <1>1, <3>1, Update2 DEF MemberTypes
  <2>4. /\ m_status' \in [Server -> {Follower, Candidate, Leader}]
        /\ m_nextIndex' \in [Server -> [Server -> Int]]
        /\ m_matchIndex' \in [Server -> [Server -> Nat]]
    BY <1>1, <1>8, <2>2, BecomeLeaderTypes DEF VoteWins
  <2>5. MemberTypes'
    BY <1>2, <1>8, <2>3, <2>4 DEF VoteWins, MemberTypes, termVars, applyVars, procVars
  <2>6. HistoryTypes'
    <3>1. elected' = elected \cup {[term |-> m.term, leader |-> m.to, votes |-> votes]}
      BY <1>8 DEF VoteWins, votes
    <3>2. [term |-> m.term, leader |-> m.to, votes |-> votes]
             \in [term : 1..MaxTerm, leader : Server, votes : SUBSET Server]
      BY <1>1, <1>5
    <3> QED
      BY <1>8, <3>1, <3>2 DEF VoteWins, HistoryTypes, logVars
  <2>7. FileTypes'
    BY <1>1, <1>8, <2>1, <2>5, PersistTypes DEF VoteWins
  <2> QED
    BY <1>2, <2>1, <2>5, <2>6, <2>7
<1> QED
  BY <1>3, <1>4, <1>6, <1>7, <1>8 DEF sendRequestVote

\* Start: the new entry takes the next index.
LEMMA StartTypes ==
    ASSUME TypeInv, NEW s \in Server, NEW command \in Command, Start(s, command)
    PROVE  TypeInv'
<1> USE DEF TypeInv, TypeOK
<1> DEFINE e == [command |-> command, logterm |-> m_currentTerm[s], logindex |-> getLastLogIndex(s) + 1]
           log == Append(m_logs[s], e)
<1>1. m_logs[s] \in Seq(Entry) /\ m_lastSnapshotIncludeIndex[s] \in Nat /\ m_currentTerm[s] \in Nat
  BY DEF LogTypes, MemberTypes
<1>2. getLastLogIndex(s) = m_lastSnapshotIncludeIndex[s] + Len(m_logs[s])
  BY LastIndex
<1>3. e \in Entry
  BY <1>1, <1>2 DEF Entry
<1>4. /\ log \in Seq(Entry) /\ Len(log) = Len(m_logs[s]) + 1 /\ log[Len(m_logs[s]) + 1] = e
      /\ \A k \in 1..Len(m_logs[s]) : log[k] = m_logs[s][k]
  <2> HIDE DEF e
  <2> QED
    BY <1>1, <1>3, AppendProperties
<1>5. m_logs' = [m_logs EXCEPT ![s] = log] /\ m_lastSnapshotIncludeIndex' = m_lastSnapshotIncludeIndex
      /\ m_lastSnapshotIncludeTerm' = m_lastSnapshotIncludeTerm /\ aeArgs' = aeArgs
      /\ proposed' = proposed \cup {e}
  BY DEF Start, appendNet
<1>6. LogTypes'
  <2> HIDE DEF log
  <2> QED
    BY <1>4, <1>5, Update DEF LogTypes
<1>7. LogContiguous'
  <2>1. ASSUME NEW k \in 1..Len(log)
        PROVE  log[k].logindex = m_lastSnapshotIncludeIndex[s] + k
    <3>1. CASE k \in 1..Len(m_logs[s])
      <4> HIDE DEF e, log
      <4> QED
        BY <1>4, <3>1 DEF LogContiguous
    <3>2. CASE k = Len(m_logs[s]) + 1
      <4>1. e.logindex = m_lastSnapshotIncludeIndex[s] + k
        BY <1>2, <1>1, <3>2
      <4> HIDE DEF e, log
      <4> QED
        BY <1>4, <3>2, <4>1
    <3> HIDE DEF e, log
    <3> QED
      BY <1>1, <1>4, <3>1, <3>2
  <2> HIDE DEF e, log
  <2> QED
    BY <1>5, <2>1 DEF LogContiguous, LogTypes
<1>8. MemberTypes'
  <2>1. PICK c \in m_lastSnapshotIncludeIndex[s]..(m_lastSnapshotIncludeIndex[s] + Len(log)) :
           m_commitIndex' = [m_commitIndex EXCEPT ![s] = c]
    BY DEF Start
  <2>2. c \in Nat
    <3> HIDE DEF log
    <3> QED
      BY <1>1, <1>4
  <2>3. m_commitIndex' \in [Server -> Nat]
    BY <2>1, <2>2, Update DEF MemberTypes
  <2> QED
    BY <2>3 DEF Start, MemberTypes, termVars, voteVars, leaderVars, procVars, snapNet
<1>9. FileTypes'
  BY <1>6, <1>8, PersistTypes DEF Start
<1>10. CallTypes'
  BY DEF Start, CallTypes, voteNet, appendNet, snapNet
<1>11. HistoryTypes'
  <2> HIDE DEF e
  <2> QED
    BY <1>3, <1>5 DEF Start, HistoryTypes, voteVars
<1> QED
  BY <1>6, <1>7, <1>8, <1>9, <1>10, <1>11

\* The entries after a position are a log of their own.
LEMMA Suffix ==
    ASSUME NEW log \in Seq(Entry), NEW after \in 0..Len(log)
    PROVE  /\ SubSeq(log, after + 1, Len(log)) \in Seq(Entry)
           /\ Len(SubSeq(log, after + 1, Len(log))) = Len(log) - after
           /\ \A k \in 1..(Len(log) - after) : SubSeq(log, after + 1, Len(log))[k] = log[after + k]
<1>1. \A i \in (after + 1)..Len(log) : log[i] \in Entry
  OBVIOUS
<1>2. after + 1 \in 1..(Len(log) + 1)
  OBVIOUS
<1> QED
  BY <1>1, <1>2, SubSeqProperties

\* doHeartBeat: what an AppendEntries call carries starts right after prevlogindex.
LEMMA doHeartBeatTypes ==
    ASSUME TypeInv, NEW s \in Server, NEW r \in Round, doHeartBeat(s, r)
    PROVE  TypeInv'
<1> USE DEF TypeInv, TypeOK
<1> DEFINE peers == Server \ {s}
           Built == {AppendEntriesArgs(s, d, r) : d \in {p \in peers : ~NeedsSnapshot(s, p)}}
           ready == \A d \in peers : /\ m_nextIndex[s][d] >= 1
                                     /\ NeedsSnapshot(s, d) \/ HoldsIndex(s, m_nextIndex[s][d] - 1)
<1>1. m_logs[s] \in Seq(Entry) /\ m_lastSnapshotIncludeIndex[s] \in Nat /\ m_currentTerm[s] \in 0..MaxTerm
      /\ m_commitIndex[s] \in Nat /\ incarnation[s] \in Nat /\ m_nextIndex[s] \in [Server -> Int]
  BY DEF LogTypes, MemberTypes
<1>2. CASE ~ready
  <2>1. CallTypes' /\ aeArgs' = aeArgs /\ UNCHANGED snapTask /\ Exit(s)
    BY <1>2 DEF doHeartBeat, CallTypes, voteNet
  <2> QED
    BY <2>1, ExitTypes
<1>3. CASE ready
  <2>1. ASSUME NEW d \in peers, ~NeedsSnapshot(s, d)
        PROVE  /\ AppendEntriesArgs(s, d, r) \in AppendArgsType
               /\ \A k \in 1..Len(AppendEntriesArgs(s, d, r).entries) :
                    AppendEntriesArgs(s, d, r).entries[k].logindex
                        = AppendEntriesArgs(s, d, r).prevlogindex + k
    <3> DEFINE prev == m_nextIndex[s][d] - 1
               after == prev - m_lastSnapshotIncludeIndex[s]
               entries == SubSeq(m_logs[s], after + 1, Len(m_logs[s]))
    <3>1. prev \in Int /\ HoldsIndex(s, prev)
      BY <1>1, <1>3, <2>1
    <3>2. prev \in Nat /\ after \in 0..Len(m_logs[s])
      <4>1. getLastLogIndex(s) = m_lastSnapshotIncludeIndex[s] + Len(m_logs[s])
        BY LastIndex
      <4>2. Len(m_logs[s]) \in Nat
        BY <1>1
      <4> HIDE DEF prev
      <4> QED
        BY <1>1, <3>1, <4>1, <4>2 DEF HoldsIndex
    <3>3. getLogTermFromLogIndex(s, prev) \in Nat
      BY <3>1, TermAt
    <3>4. /\ entries \in Seq(Entry) /\ Len(entries) = Len(m_logs[s]) - after
          /\ \A k \in 1..(Len(m_logs[s]) - after) : entries[k] = m_logs[s][after + k]
      <4> HIDE DEF after
      <4> QED
        BY <1>1, <3>2, Suffix
    <3>5. AppendEntriesArgs(s, d, r) =
            [term |-> m_currentTerm[s], leaderid |-> s, prevlogindex |-> prev,
             prevlogterm |-> getLogTermFromLogIndex(s, prev), entries |-> entries,
             leadercommit |-> m_commitIndex[s], to |-> d, round |-> r, boot |-> incarnation[s]]
      BY DEF AppendEntriesArgs
    <3>6. \A k \in 1..Len(entries) : entries[k].logindex = prev + k
      <4>1. TAKE k \in 1..Len(entries)
      <4>2. after + k \in 1..Len(m_logs[s]) /\ entries[k] = m_logs[s][after + k]
        <5> HIDE DEF entries, after
        <5> QED
          BY <1>1, <3>2, <3>4
      <4>3. m_logs[s][after + k].logindex = m_lastSnapshotIncludeIndex[s] + (after + k)
        BY <4>2 DEF LogContiguous
      <4>4. m_lastSnapshotIncludeIndex[s] + (after + k) = prev + k
        <5>1. k \in Int
          OBVIOUS
        <5> HIDE DEF prev
        <5> QED
          BY <1>1, <3>2, <5>1
      <4> QED
        BY <4>2, <4>3, <4>4
    <3> HIDE DEF prev, after, entries
    <3>7. AppendEntriesArgs(s, d, r) \in AppendArgsType
      BY <1>1, <3>2, <3>3, <3>4, <3>5 DEF AppendArgsType
    <3>8. AppendEntriesArgs(s, d, r).entries = entries /\ AppendEntriesArgs(s, d, r).prevlogindex = prev
      BY <3>5
    <3> QED
      BY <3>6, <3>7, <3>8
  <2>2. /\ aeArgs' = aeArgs \cup Built
        /\ snapTask' = snapTask \cup {<<s, d>> : d \in {p \in peers : NeedsSnapshot(s, p)}}
        /\ appendNums' = [appendNums EXCEPT ![s][r] = 1]
        /\ UNCHANGED <<termVars, m_status, voteVars, logVars, applyVars, m_nextIndex,
                       m_matchIndex, diskVars, procVars, voteNet, aeReply, isArgs, isReply>>
    BY <1>3 DEF doHeartBeat
  <2> HIDE DEF Built, ready
  <2>3. \A m \in Built : m \in AppendArgsType /\ \A k \in 1..Len(m.entries) :
                             m.entries[k].logindex = m.prevlogindex + k
    BY <2>1 DEF Built
  <2>4. LogTypes' /\ LogContiguous'
    BY <2>2, <2>3 DEF LogTypes, LogContiguous, logVars
  <2>5. CallTypes'
    BY <2>2, <2>3 DEF CallTypes, voteNet
  <2>6. appendNums' \in [Server -> [Round -> Nat]]
    BY <2>2, Update2 DEF MemberTypes
  <2>7. snapTask' \subseteq Server \X Server
    BY <2>2 DEF MemberTypes
  <2>8. MemberTypes'
    BY <2>2, <2>6, <2>7 DEF MemberTypes, termVars, voteVars, applyVars, procVars
  <2>9. FileTypes' /\ HistoryTypes'
    BY <2>2 DEF FileTypes, HistoryTypes, diskVars, voteVars, logVars
  <2> QED
    BY <2>4, <2>5, <2>8, <2>9
<1> QED
  BY <1>2, <1>3

\* A handler that only follows a term.
LEMMA TermStepTypes ==
    ASSUME TypeInv, NEW s \in Server, NEW term \in 0..MaxTerm,
           StepDown(s, term) \/ FollowTerm(s, term),
           UNCHANGED <<workVars, procVars, snapTask>>, aeArgs' \subseteq aeArgs
    PROVE  MemberTypes' /\ LogTypes' /\ LogContiguous' /\ HistoryTypes'
<1>1. LogTypes' /\ LogContiguous'
  BY LogsKept DEF workVars
<1>2. /\ m_currentTerm' \in [Server -> 0..MaxTerm]
      /\ m_votedFor' \in [Server -> Server \cup {None}]
      /\ m_status' \in [Server -> {Follower, Candidate, Leader}]
  BY StepDownTypes DEF TypeInv, TypeOK
<1>3. MemberTypes' /\ HistoryTypes'
  BY <1>2 DEF TypeInv, TypeOK, MemberTypes, HistoryTypes, workVars, voteVars, logVars, applyVars,
     leaderVars, procVars
<1> QED
  BY <1>1, <1>3

\* A handler that leaves the members alone.
LEMMA MemoryKept ==
    ASSUME TypeInv, UNCHANGED <<memory, diskVars, procVars, snapTask>>, aeArgs' \subseteq aeArgs
    PROVE  MemberTypes' /\ LogTypes' /\ LogContiguous' /\ FileTypes' /\ HistoryTypes'
<1>1. LogTypes' /\ LogContiguous'
  BY LogsKept DEF memory, workVars
<1> QED
  BY <1>1 DEF TypeInv, TypeOK, MemberTypes, FileTypes, HistoryTypes, memory, workVars, termVars,
     voteVars, logVars, applyVars, leaderVars, procVars, diskVars

\* The handler AppendEntries.
LEMMA AppendEntriesTypes ==
    ASSUME TypeInv, NEW m \in aeArgs, AppendEntries(m)
    PROVE  TypeInv'
<1> USE DEF TypeInv, TypeOK
<1>1. /\ m \in AppendArgsType /\ m.to \in Server /\ m.leaderid \in Server /\ m.term \in 0..MaxTerm
      /\ m.prevlogindex \in Nat /\ m.prevlogterm \in Nat /\ m.entries \in Seq(Entry)
      /\ m.leadercommit \in Nat /\ m.round \in Round /\ m.boot \in Nat
  BY DEF CallTypes, AppendArgsType
<1> DEFINE s == m.to
<1>2. /\ m_logs[s] \in Seq(Entry) /\ m_lastSnapshotIncludeIndex[s] \in Nat
      /\ m_currentTerm[s] \in 0..MaxTerm /\ m_commitIndex[s] \in Nat
      /\ getLastLogIndex(s) = m_lastSnapshotIncludeIndex[s] + Len(m_logs[s])
  BY <1>1, LastIndex DEF LogTypes, MemberTypes
<1>3. ASSUME NEW term \in 0..MaxTerm, NEW success \in BOOLEAN, NEW next \in Int,
             AnswerAppend(m, term, success, next), UNCHANGED <<voteNet, snapNet>>
      PROVE  CallTypes' /\ aeArgs' \subseteq aeArgs /\ UNCHANGED snapTask
  <2>1. m.entries # <<>> => m.entries[Len(m.entries)].logterm \in Nat
    <3>1. m.entries # <<>> => m.entries[Len(m.entries)] \in Entry
      BY <1>1
    <3> QED
      BY <3>1 DEF Entry
  <2>2. m.prevlogindex + Len(m.entries) \in Nat
    BY <1>1
  <2>3. AppendReply(m, term, success, next) \in AppendReplyType
    BY <1>1, <2>1, <2>2 DEF AppendReply, AppendReplyType
  <2> QED
    BY <1>3, <2>3 DEF AnswerAppend, CallTypes, voteNet, snapNet
<1>4. CASE AppendEntriesStale(m)
  <2>1. CallTypes' /\ aeArgs' \subseteq aeArgs /\ UNCHANGED snapTask
    <3>1. FALSE \in BOOLEAN /\ -100 \in Int
      OBVIOUS
    <3>2. AnswerAppend(m, m_currentTerm[s], FALSE, -100) /\ UNCHANGED <<voteNet, snapNet>>
      BY <1>4 DEF AppendEntriesStale
    <3> QED
      BY ONLY <1>2, <1>3, <3>1, <3>2
  <2> QED
    BY <1>4, <2>1, MemoryKept DEF AppendEntriesStale
<1>5. CASE AppendEntriesTooNew(m)
  <2>1. NextAfterShortLog(s) \in Int
    BY <1>2 DEF NextAfterShortLog
  <2>2. CallTypes' /\ aeArgs' \subseteq aeArgs /\ UNCHANGED snapTask
    BY <1>1, <1>3, <1>5, <2>1 DEF AppendEntriesTooNew
  <2>3. MemberTypes' /\ LogTypes' /\ LogContiguous' /\ HistoryTypes'
    BY <1>1, <1>5, <2>2, TermStepTypes DEF AppendEntriesTooNew
  <2>4. FileTypes'
    BY <1>1, <1>5, <2>3, PersistTypes DEF AppendEntriesTooNew
  <2> QED
    BY <2>2, <2>3, <2>4
<1>6. CASE AppendEntriesBelowSnapshot(m)
  <2>1. CallTypes' /\ aeArgs' \subseteq aeArgs /\ UNCHANGED snapTask
    BY <1>6 DEF AppendEntriesBelowSnapshot, CallTypes, voteNet, snapNet
  <2> QED
    BY <1>1, <1>6, <2>1, ExitTypes DEF AppendEntriesBelowSnapshot
<1>7. CASE AppendEntriesMatch(m)
  <2> DEFINE after == m.prevlogindex - m_lastSnapshotIncludeIndex[s]
             log == MergeEntries(m_logs[s], after, m.entries)
             last == m_lastSnapshotIncludeIndex[s] + Len(log)
             commit == IF m.leadercommit > m_commitIndex[s] THEN MinOf(m.leadercommit, last)
                                                            ELSE m_commitIndex[s]
             clash == CommandClash(m_logs[s], after, m.entries) \/ commit > last
  <2>1. after \in 0..Len(m_logs[s])
    BY <1>1, <1>2, <1>7 DEF AppendEntriesMatch, HoldsIndex
  <2>2. CASE clash
    <3>1. Exit(s) /\ aeArgs' = aeArgs \ {m} /\ UNCHANGED <<aeReply, voteNet, snapNet>>
      BY <1>7, <2>2 DEF AppendEntriesMatch
    <3>2. CallTypes' /\ aeArgs' \subseteq aeArgs /\ UNCHANGED snapTask
      BY <3>1 DEF CallTypes, voteNet, snapNet
    <3> QED
      BY <1>1, <3>1, <3>2, ExitTypes
  <2>3. CASE ~clash
    <3>1. /\ FollowTerm(s, m.term)
          /\ m_logs' = [m_logs EXCEPT ![s] = log]
          /\ m_commitIndex' = [m_commitIndex EXCEPT ![s] = commit]
          /\ AnswerAppend(m, m.term, TRUE, 0)
          /\ UNCHANGED <<voteVars, m_lastSnapshotIncludeIndex, m_lastSnapshotIncludeTerm,
                         proposed, m_lastApplied, leaderVars, procVars, voteNet, snapNet>>
          /\ persist(s)
      BY <1>7, <2>3 DEF AppendEntriesMatch
    <3>2. /\ log \in Seq(Entry)
          /\ \A k \in 1..Len(log) :
                \/ k \in 1..Len(m_logs[s]) /\ log[k] = m_logs[s][k]
                \/ k - after \in 1..Len(m.entries) /\ log[k] = m.entries[k - after]
      <4> HIDE DEF after
      <4> QED
        BY <1>1, <1>2, <2>1, MergeProperties
    <3>3. \A k \in 1..Len(log) : log[k].logindex = m_lastSnapshotIncludeIndex[s] + k
      <4>1. TAKE k \in 1..Len(log)
      <4>2. CASE k \in 1..Len(m_logs[s]) /\ log[k] = m_logs[s][k]
        BY <1>1, <4>2 DEF LogContiguous
      <4>3. CASE k - after \in 1..Len(m.entries) /\ log[k] = m.entries[k - after]
        <5>1. m.entries[k - after].logindex = m.prevlogindex + (k - after)
          BY <4>3 DEF LogContiguous
        <5>2. k \in Int
          OBVIOUS
        <5>3. m.prevlogindex + (k - after) = m_lastSnapshotIncludeIndex[s] + k
          BY <1>1, <1>2, <5>2
        <5> QED
          BY <4>3, <5>1, <5>3
      <4> QED
        BY <3>2, <4>2, <4>3
    <3>4. commit \in Nat
      <4>1. last \in Nat
        <5> HIDE DEF log
        <5> QED
          BY <1>2, <3>2
      <4> HIDE DEF last
      <4> QED
        BY <1>1, <1>2, <4>1 DEF MinOf
    <3> HIDE DEF log, commit, after
    <3>5. CallTypes' /\ aeArgs' \subseteq aeArgs /\ UNCHANGED snapTask
      <4>1. TRUE \in BOOLEAN /\ 0 \in Int
        OBVIOUS
      <4>2. UNCHANGED <<voteNet, snapNet>>
        BY <3>1
      <4> QED
        BY ONLY <1>1, <1>3, <3>1, <4>1, <4>2
    <3>6. m_logs' \in [Server -> Seq(Entry)]
      BY <1>1, <3>1, <3>2, Update DEF LogTypes
    <3>7. LogTypes' /\ LogContiguous'
      BY <1>1, <3>1, <3>3, <3>5, <3>6 DEF LogTypes, LogContiguous
    <3>8. m_commitIndex' \in [Server -> Nat]
      BY <1>1, <3>1, <3>4, Update DEF MemberTypes
    <3>9. /\ m_currentTerm' \in [Server -> 0..MaxTerm]
          /\ m_votedFor' \in [Server -> Server \cup {None}]
          /\ m_status' \in [Server -> {Follower, Candidate, Leader}]
      BY <1>1, <3>1, StepDownTypes
    <3>10. MemberTypes' /\ HistoryTypes'
      BY <3>1, <3>5, <3>8, <3>9 DEF MemberTypes, HistoryTypes, voteVars, leaderVars, procVars
    <3>11. FileTypes'
      BY <1>1, <3>1, <3>7, <3>10, PersistTypes
    <3> QED
      BY <3>5, <3>7, <3>10, <3>11
  <2> QED
    BY <2>2, <2>3
<1>8. CASE AppendEntriesMismatch(m)
  <2>1. PICK i \in m_lastSnapshotIncludeIndex[s]..m.prevlogindex : AnswerAppend(m, m.term, FALSE, i)
    BY <1>8 DEF AppendEntriesMismatch
  <2>2. i \in Int
    BY <1>1, <1>2
  <2>3. CallTypes' /\ aeArgs' \subseteq aeArgs /\ UNCHANGED snapTask
    BY <1>1, <1>3, <1>8, <2>1, <2>2 DEF AppendEntriesMismatch
  <2>4. MemberTypes' /\ LogTypes' /\ LogContiguous' /\ HistoryTypes'
    BY <1>1, <1>8, <2>3, TermStepTypes DEF AppendEntriesMismatch
  <2>5. FileTypes'
    BY <1>1, <1>8, <2>4, PersistTypes DEF AppendEntriesMismatch
  <2> QED
    BY <2>3, <2>4, <2>5
<1> QED
  BY <1>4, <1>5, <1>6, <1>7, <1>8 DEF AppendEntries

\* sendAppendEntries after the call.
LEMMA sendAppendEntriesTypes ==
    ASSUME TypeInv, NEW m \in aeReply, sendAppendEntries(m)
    PROVE  TypeInv'
<1> USE DEF TypeInv, TypeOK
<1>1. /\ m.to \in Server /\ m.from \in Server /\ m.round \in Round /\ m.upto \in Nat
      /\ m.term \in 0..MaxTerm /\ m.updatenextindex \in Int
  BY DEF CallTypes, AppendReplyType
<1>2. CallTypes' /\ aeArgs' = aeArgs /\ UNCHANGED snapTask
  BY DEF sendAppendEntries, AppendHigherTerm, AppendIgnored, AppendRefused, AppendAccepted, CallTypes,
     voteNet, snapNet
<1>3. CASE AppendHigherTerm(m)
  <2>1. MemberTypes' /\ LogTypes' /\ LogContiguous' /\ HistoryTypes'
    BY <1>1, <1>2, <1>3, TermStepTypes DEF AppendHigherTerm
  <2>2. FileTypes'
    BY <1>3 DEF AppendHigherTerm, FileTypes, diskVars
  <2> QED
    BY <1>2, <2>1, <2>2
<1>4. CASE AppendIgnored(m)
  BY <1>2, <1>4, MemoryKept DEF AppendIgnored
<1>5. CASE AppendRefused(m)
  <2>1. m_nextIndex' \in [Server -> [Server -> Int]]
    BY <1>1, <1>5, Update2 DEF AppendRefused, MemberTypes
  <2>2. LogTypes' /\ LogContiguous'
    BY <1>2, <1>5, LogsKept DEF AppendRefused
  <2>3. MemberTypes' /\ FileTypes' /\ HistoryTypes'
    BY <1>2, <1>5, <2>1 DEF AppendRefused, MemberTypes, FileTypes, HistoryTypes, termVars, voteVars,
       logVars, applyVars, diskVars, procVars
  <2> QED
    BY <1>2, <2>2, <2>3
<1>6. CASE AppendAccepted(m)
  <2> DEFINE s == m.to
             match == MaxOf(m_matchIndex[s][m.from], m.upto)
             count == appendNums[s][m.round] + 1
             commit == CommitAfterReply(s, m, count)
             tooFar == match > getLastLogIndex(s) \/ (IsMajority(count) /\ commit > getLastLogIndex(s))
  <2>1. CASE tooFar
    BY <1>1, <1>2, <1>6, <2>1, ExitTypes DEF AppendAccepted
  <2>2. CASE ~tooFar
    <3>1. /\ m_matchIndex' = [m_matchIndex EXCEPT ![s][m.from] = match]
          /\ m_nextIndex' = [m_nextIndex EXCEPT ![s][m.from] = match + 1]
          /\ appendNums' = [appendNums EXCEPT ![s][m.round] = IF IsMajority(count) THEN 0 ELSE count]
          /\ m_commitIndex' = [m_commitIndex EXCEPT ![s] = commit]
          /\ UNCHANGED <<termVars, m_status, voteVars, logVars, m_lastApplied, diskVars, procVars>>
      BY <1>6, <2>2 DEF AppendAccepted
    <3>2. match \in Nat
      <4>1. m_matchIndex[s] \in [Server -> Nat]
        BY <1>1 DEF MemberTypes
      <4>2. m_matchIndex[s][m.from] \in Nat
        BY <1>1, <4>1
      <4> QED
        BY <1>1, <4>2 DEF MaxOf
    <3>3. count \in Nat
      <4>1. appendNums[s] \in [Round -> Nat]
        BY <1>1 DEF MemberTypes
      <4>2. appendNums[s][m.round] \in Nat
        BY <1>1, <4>1
      <4> QED
        BY <4>2
    <3>4. commit \in Nat
      <4>1. m_commitIndex[s] \in Nat
        BY <1>1 DEF MemberTypes
      <4> QED
        BY <1>1, <4>1 DEF CommitAfterReply, MaxOf
    <3> HIDE DEF match, count, commit
    <3>5. m_matchIndex' \in [Server -> [Server -> Nat]]
      BY <1>1, <3>1, <3>2, Update2 DEF MemberTypes
    <3>6. m_nextIndex' \in [Server -> [Server -> Int]]
      <4>1. match + 1 \in Int
        BY <3>2
      <4> QED
        BY <1>1, <3>1, <4>1, Update2 DEF MemberTypes
    <3>7. appendNums' \in [Server -> [Round -> Nat]]
      <4>1. (IF IsMajority(count) THEN 0 ELSE count) \in Nat
        BY <3>3
      <4> QED
        BY <1>1, <3>1, <4>1, Update2 DEF MemberTypes
    <3>8. m_commitIndex' \in [Server -> Nat]
      BY <1>1, <3>1, <3>4, Update DEF MemberTypes
    <3>9. LogTypes' /\ LogContiguous'
      BY <1>2, <3>1, LogsKept
    <3>10. MemberTypes' /\ FileTypes' /\ HistoryTypes'
      BY <1>2, <3>1, <3>5, <3>6, <3>7, <3>8 DEF MemberTypes, FileTypes, HistoryTypes, termVars, voteVars,
         logVars, diskVars, procVars
    <3> QED
      BY <1>2, <3>9, <3>10
  <2> QED
    BY <2>1, <2>2
<1> QED
  BY <1>3, <1>4, <1>5, <1>6 DEF sendAppendEntries

\* applierTicker.
LEMMA applierTickerTypes ==
    ASSUME TypeInv, NEW s \in Server, applierTicker(s)
    PROVE  TypeInv'
<1> USE DEF TypeInv, TypeOK
<1>1. CallTypes' /\ aeArgs' = aeArgs /\ UNCHANGED snapTask
  BY DEF applierTicker, CallTypes, voteNet, appendNet, snapNet
<1>2. CASE Exit(s)
  BY <1>1, <1>2, ExitTypes
<1>3. CASE /\ m_lastApplied' = [m_lastApplied EXCEPT ![s] = m_commitIndex[s]]
           /\ UNCHANGED <<termVars, m_status, voteVars, logVars, m_commitIndex, leaderVars,
                          diskVars, procVars>>
  <2>1. LogTypes' /\ LogContiguous'
    BY <1>1, <1>3, LogsKept
  <2>2. m_lastApplied' \in [Server -> Nat]
    BY <1>3 DEF MemberTypes
  <2>3. MemberTypes' /\ FileTypes' /\ HistoryTypes'
    BY <1>1, <1>3, <2>2 DEF MemberTypes, FileTypes, HistoryTypes, termVars, voteVars, logVars, leaderVars,
       diskVars, procVars
  <2> QED
    BY <1>1, <2>1, <2>3
<1> QED
  BY <1>2, <1>3 DEF applierTicker

\* LogAfter drops a prefix: what stays keeps its index.
LEMMA LogAfterProperties ==
    ASSUME LogTypes, LogContiguous, NEW s \in Server, NEW index \in Nat, HoldsIndex(s, index)
    PROVE  /\ LogAfter(s, index) \in Seq(Entry)
           /\ \A k \in 1..Len(LogAfter(s, index)) : LogAfter(s, index)[k].logindex = index + k
<1> DEFINE after == index - m_lastSnapshotIncludeIndex[s]
<1>1. /\ m_logs[s] \in Seq(Entry) /\ m_lastSnapshotIncludeIndex[s] \in Nat /\ Len(m_logs[s]) \in Nat
      /\ getLastLogIndex(s) = m_lastSnapshotIncludeIndex[s] + Len(m_logs[s])
  BY LastIndex DEF LogTypes
<1>2. after \in 0..Len(m_logs[s])
  BY <1>1 DEF HoldsIndex
<1>3. LogAfter(s, index) = SubSeq(m_logs[s], after + 1, Len(m_logs[s]))
  BY DEF LogAfter, getSlicesIndexFromLogIndex
<1>4. /\ LogAfter(s, index) \in Seq(Entry) /\ Len(LogAfter(s, index)) = Len(m_logs[s]) - after
      /\ \A k \in 1..(Len(m_logs[s]) - after) : LogAfter(s, index)[k] = m_logs[s][after + k]
  <2> HIDE DEF after
  <2> QED
    BY <1>1, <1>2, <1>3, Suffix
<1>5. ASSUME NEW k \in 1..Len(LogAfter(s, index))
      PROVE  LogAfter(s, index)[k].logindex = index + k
  <2>1. after + k \in 1..Len(m_logs[s]) /\ LogAfter(s, index)[k] = m_logs[s][after + k] /\ k \in Int
    <3> HIDE DEF after
    <3> QED
      BY <1>1, <1>2, <1>4
  <2>2. m_logs[s][after + k].logindex = m_lastSnapshotIncludeIndex[s] + (after + k)
    BY <2>1 DEF LogContiguous
  <2>3. m_lastSnapshotIncludeIndex[s] + (after + k) = index + k
    BY <1>1, <2>1
  <2> QED
    BY <2>1, <2>2, <2>3
<1> QED
  BY <1>4, <1>5

\* Replacing a log by one that starts after a new snapshot index.
LEMMA CutTypes ==
    ASSUME TypeInv, NEW s \in Server, NEW index \in Nat, NEW term \in Nat, NEW log \in Seq(Entry),
           \A k \in 1..Len(log) : log[k].logindex = index + k,
           m_logs' = [m_logs EXCEPT ![s] = log],
           m_lastSnapshotIncludeIndex' = [m_lastSnapshotIncludeIndex EXCEPT ![s] = index],
           m_lastSnapshotIncludeTerm' = [m_lastSnapshotIncludeTerm EXCEPT ![s] = term],
           aeArgs' = aeArgs
    PROVE  LogTypes' /\ LogContiguous'
<1> USE DEF TypeInv, TypeOK
<1>1. m_logs' \in [Server -> Seq(Entry)]
  BY Update DEF LogTypes
<1>2. LogTypes'
  BY <1>1, Update DEF LogTypes
<1>3. \A d \in Server : \A k \in 1..Len(m_logs'[d]) :
         m_logs'[d][k].logindex = m_lastSnapshotIncludeIndex'[d] + k
  BY DEF LogTypes, LogContiguous
<1> QED
  BY <1>2, <1>3 DEF LogContiguous

\* Snapshot.
LEMMA SnapshotTypes ==
    ASSUME TypeInv, NEW s \in Server, NEW index \in 1..MaxSnapshotIndex, Snapshot(s, index)
    PROVE  TypeInv'
<1> USE DEF TypeInv, TypeOK
<1>1. CallTypes' /\ aeArgs' = aeArgs /\ UNCHANGED snapTask
  BY DEF Snapshot, CallTypes, voteNet, appendNet, snapNet
<1>2. index \in Nat
  BY BoundAssumption
<1>3. CASE ~HoldsIndex(s, index)
  BY <1>1, <1>3, ExitTypes DEF Snapshot
<1>4. CASE HoldsIndex(s, index)
  <2>1. /\ m_lastSnapshotIncludeIndex' = [m_lastSnapshotIncludeIndex EXCEPT ![s] = index]
        /\ m_lastSnapshotIncludeTerm' =
              [m_lastSnapshotIncludeTerm EXCEPT ![s] = getLogTermFromLogIndex(s, index)]
        /\ m_logs' = [m_logs EXCEPT ![s] = LogAfter(s, index)]
        /\ UNCHANGED <<termVars, m_status, voteVars, proposed, applyVars, leaderVars, procVars>>
        /\ Save(s, "full")
    BY <1>4 DEF Snapshot
  <2>2. /\ LogAfter(s, index) \in Seq(Entry)
        /\ \A k \in 1..Len(LogAfter(s, index)) : LogAfter(s, index)[k].logindex = index + k
    BY <1>2, <1>4, LogAfterProperties
  <2>3. getLogTermFromLogIndex(s, index) \in Nat
    BY <1>2, <1>4, TermAt
  <2>4. LogTypes' /\ LogContiguous'
    BY <1>1, <1>2, <2>1, <2>2, <2>3, CutTypes
  <2>5. MemberTypes' /\ HistoryTypes'
    BY <1>1, <2>1 DEF MemberTypes, HistoryTypes, termVars, voteVars, applyVars, leaderVars, procVars
  <2>6. FileTypes'
    BY <2>1, <2>4, <2>5, PersistTypes DEF Data
  <2> QED
    BY <1>1, <2>4, <2>5, <2>6
<1> QED
  BY <1>3, <1>4

\* leaderSendSnapShot up to the call.
LEMMA leaderSendSnapShotTypes ==
    ASSUME TypeInv, NEW s \in Server, NEW d \in Server, leaderSendSnapShot(s, d)
    PROVE  TypeInv'
<1> USE DEF TypeInv, TypeOK
<1> DEFINE args == [term |-> m_currentTerm[s], leaderid |-> s,
                    lastsnapshotincludeindex |-> m_lastSnapshotIncludeIndex[s],
                    lastsnapshotincludeterm |-> m_lastSnapshotIncludeTerm[s],
                    data |-> FirstWord(snapshotFile[s]), to |-> d, boot |-> incarnation[s]]
<1>1. /\ m_currentTerm[s] \in 0..MaxTerm /\ m_lastSnapshotIncludeIndex[s] \in Nat
      /\ m_lastSnapshotIncludeTerm[s] \in Nat /\ incarnation[s] \in Nat
  BY DEF MemberTypes, LogTypes
<1>2. FirstWord(snapshotFile[s]) \in Data /\ "empty" \in Data
  BY DEF FirstWord, Data
<1>3. args \in SnapshotArgsType
  BY <1>1, <1>2 DEF SnapshotArgsType
<1>4. /\ isArgs' = isArgs \cup {args} /\ snapTask' = snapTask \ {<<s, d>>}
      /\ snapshotFile' = [snapshotFile EXCEPT ![s] = "empty"]
      /\ UNCHANGED <<memory, raftState, procVars, voteNet, appendNet, isReply>>
  BY DEF leaderSendSnapShot
<1> HIDE DEF args
<1>5. CallTypes'
  BY <1>3, <1>4 DEF CallTypes, voteNet, appendNet
<1>6. LogTypes' /\ LogContiguous'
  BY <1>4, LogsKept DEF memory, workVars, appendNet
<1>7. MemberTypes' /\ HistoryTypes'
  BY <1>4 DEF MemberTypes, HistoryTypes, memory, workVars, termVars, voteVars, logVars, applyVars,
     leaderVars, procVars
<1>8. FileTypes'
  BY <1>2, <1>4, Update DEF FileTypes
<1> QED
  BY <1>5, <1>6, <1>7, <1>8

\* The handler InstallSnapshot.
LEMMA InstallSnapshotTypes ==
    ASSUME TypeInv, NEW m \in isArgs, InstallSnapshot(m)
    PROVE  TypeInv'
<1> USE DEF TypeInv, TypeOK
<1> DEFINE s == m.to
           index == m.lastsnapshotincludeindex
<1>1. /\ s \in Server /\ m.leaderid \in Server /\ m.term \in 0..MaxTerm /\ index \in Nat
      /\ m.lastsnapshotincludeterm \in Nat /\ m.data \in Data /\ m.boot \in Nat
  BY DEF CallTypes, SnapshotArgsType
<1>2. /\ m_logs[s] \in Seq(Entry) /\ m_lastSnapshotIncludeIndex[s] \in Nat
      /\ m_currentTerm[s] \in 0..MaxTerm /\ m_commitIndex[s] \in Nat /\ m_lastApplied[s] \in Nat
      /\ getLastLogIndex(s) = m_lastSnapshotIncludeIndex[s] + Len(m_logs[s])
  BY <1>1, LastIndex DEF LogTypes, MemberTypes
<1>3. ASSUME NEW term \in 0..MaxTerm, AnswerSnapshot(m, term), UNCHANGED <<voteNet, appendNet>>
      PROVE  CallTypes' /\ aeArgs' = aeArgs /\ UNCHANGED snapTask
  <2> DEFINE reply == [from |-> m.to, to |-> m.leaderid, argsterm |-> m.term, boot |-> m.boot,
                       lastsnapshotincludeindex |-> m.lastsnapshotincludeindex, term |-> term]
  <2>1. reply \in SnapshotReplyType
    BY <1>1 DEF SnapshotReplyType
  <2>2. isReply' = isReply \cup {reply} /\ isArgs' = isArgs \ {m} /\ UNCHANGED snapTask
    BY <1>3 DEF AnswerSnapshot
  <2> HIDE DEF reply
  <2> QED
    BY <1>3, <2>1, <2>2 DEF CallTypes, voteNet, appendNet
<1>4. CASE InstallSnapshotStale(m)
  <2>1. CallTypes' /\ aeArgs' = aeArgs /\ UNCHANGED snapTask
    BY <1>2, <1>3, <1>4 DEF InstallSnapshotStale
  <2> QED
    BY <1>4, <2>1, MemoryKept DEF InstallSnapshotStale
<1>5. CASE InstallSnapshotOutdated(m)
  <2>1. CallTypes' /\ aeArgs' = aeArgs /\ UNCHANGED snapTask
    <3>1. 0 \in 0..MaxTerm
      BY BoundAssumption
    <3> QED
      BY <1>3, <1>5, <3>1 DEF InstallSnapshotOutdated
  <2>2. MemberTypes' /\ LogTypes' /\ LogContiguous' /\ HistoryTypes'
    BY <1>1, <1>5, <2>1, TermStepTypes DEF InstallSnapshotOutdated
  <2>3. FileTypes'
    <3>1. CASE persist(s)
      BY <1>1, <2>2, <3>1, PersistTypes
    <3>2. CASE UNCHANGED diskVars
      BY <3>2 DEF FileTypes, diskVars
    <3> QED
      BY <1>5, <3>1, <3>2 DEF InstallSnapshotOutdated
  <2> QED
    BY <2>1, <2>2, <2>3
<1>6. CASE InstallSnapshotInstall(m)
  <2> DEFINE log == IF getLastLogIndex(s) > index THEN LogAfter(s, index) ELSE <<>>
  <2>1. /\ FollowTerm(s, m.term)
        /\ m_logs' = [m_logs EXCEPT ![s] = log]
        /\ m_lastSnapshotIncludeIndex' = [m_lastSnapshotIncludeIndex EXCEPT ![s] = index]
        /\ m_lastSnapshotIncludeTerm' =
              [m_lastSnapshotIncludeTerm EXCEPT ![s] = m.lastsnapshotincludeterm]
        /\ m_commitIndex' = [m_commitIndex EXCEPT ![s] = MaxOf(m_commitIndex[s], index)]
        /\ m_lastApplied' = [m_lastApplied EXCEPT ![s] = MaxOf(m_lastApplied[s], index)]
        /\ AnswerSnapshot(m, m.term)
        /\ UNCHANGED <<voteVars, proposed, leaderVars, procVars, voteNet, appendNet>>
        /\ Save(s, m.data)
        /\ index > m_lastSnapshotIncludeIndex[s]
    <3>1. m_commitIndex \in [Server -> Nat] /\ m_lastApplied \in [Server -> Nat]
      BY DEF MemberTypes
    <3> QED
      BY <1>1, <1>6, <3>1 DEF InstallSnapshotInstall
  <2>2. CallTypes' /\ aeArgs' = aeArgs /\ UNCHANGED snapTask
    BY <1>1, <1>3, <2>1
  <2>3. log \in Seq(Entry) /\ \A k \in 1..Len(log) : log[k].logindex = index + k
    <3>1. CASE getLastLogIndex(s) > index
      <4>1. HoldsIndex(s, index)
        BY <1>1, <1>2, <2>1, <3>1 DEF HoldsIndex
      <4> HIDE DEF s, index
      <4> QED
        BY <1>1, <3>1, <4>1, LogAfterProperties
    <3>2. CASE ~(getLastLogIndex(s) > index)
      BY <3>2
    <3> QED
      BY <3>1, <3>2
  <2> HIDE DEF log
  <2>4. LogTypes' /\ LogContiguous'
    BY <1>1, <2>1, <2>2, <2>3, CutTypes
  <2>5. MaxOf(m_commitIndex[s], index) \in Nat /\ MaxOf(m_lastApplied[s], index) \in Nat
    BY <1>1, <1>2 DEF MaxOf
  <2>6. m_commitIndex' \in [Server -> Nat] /\ m_lastApplied' \in [Server -> Nat]
    BY <1>1, <2>1, <2>5, Update DEF MemberTypes
  <2>7. /\ m_currentTerm' \in [Server -> 0..MaxTerm]
        /\ m_votedFor' \in [Server -> Server \cup {None}]
        /\ m_status' \in [Server -> {Follower, Candidate, Leader}]
    BY <1>1, <2>1, StepDownTypes
  <2>8. MemberTypes' /\ HistoryTypes'
    BY <2>1, <2>2, <2>6, <2>7 DEF MemberTypes, HistoryTypes, voteVars, leaderVars, procVars
  <2>9. FileTypes'
    BY <1>1, <2>1, <2>4, <2>8, PersistTypes
  <2> QED
    BY <2>2, <2>4, <2>8, <2>9
<1> QED
  BY <1>4, <1>5, <1>6 DEF InstallSnapshot

\* leaderSendSnapShot after the call.
LEMMA SendSnapshotReturnsTypes ==
    ASSUME TypeInv, NEW m \in isReply, SendSnapshotReturns(m)
    PROVE  TypeInv'
<1> USE DEF TypeInv, TypeOK
<1>1. m.to \in Server /\ m.from \in Server /\ m.term \in 0..MaxTerm /\ m.lastsnapshotincludeindex \in Nat
  BY DEF CallTypes, SnapshotReplyType
<1>2. CallTypes' /\ aeArgs' = aeArgs /\ UNCHANGED snapTask
  BY DEF SendSnapshotReturns, SnapshotIgnored, SnapshotHigherTerm, SnapshotAccepted, CallTypes,
     voteNet, appendNet
<1>3. CASE SnapshotIgnored(m)
  BY <1>2, <1>3, MemoryKept DEF SnapshotIgnored
<1>4. CASE SnapshotHigherTerm(m)
  <2>1. MemberTypes' /\ LogTypes' /\ LogContiguous' /\ HistoryTypes'
    BY <1>1, <1>2, <1>4, TermStepTypes DEF SnapshotHigherTerm
  <2>2. FileTypes'
    BY <1>1, <1>4, <2>1, PersistTypes DEF SnapshotHigherTerm
  <2> QED
    BY <1>2, <2>1, <2>2
<1>5. CASE SnapshotAccepted(m)
  <2>1. m_matchIndex' \in [Server -> [Server -> Nat]]
    BY <1>1, <1>5, Update2 DEF SnapshotAccepted, MemberTypes
  <2>2. m_nextIndex' \in [Server -> [Server -> Int]]
    <3>1. m.lastsnapshotincludeindex + 1 \in Int
      BY <1>1
    <3> QED
      BY <1>1, <1>5, <3>1, Update2 DEF SnapshotAccepted, MemberTypes
  <2>3. LogTypes' /\ LogContiguous'
    BY <1>2, <1>5, LogsKept DEF SnapshotAccepted
  <2>4. MemberTypes' /\ FileTypes' /\ HistoryTypes'
    BY <1>2, <1>5, <2>1, <2>2 DEF SnapshotAccepted, MemberTypes, FileTypes, HistoryTypes, termVars,
       voteVars, logVars, applyVars, diskVars, procVars
  <2> QED
    BY <1>2, <2>3, <2>4
<1> QED
  BY <1>3, <1>4, <1>5 DEF SendSnapshotReturns

\* A failed call.
LEMMA CallFailsTypes ==
    ASSUME TypeInv, CallFails
    PROVE  TypeInv'
<1>1. CallTypes' /\ aeArgs' \subseteq aeArgs
  BY DEF TypeInv, TypeOK, CallFails, CallTypes, voteNet, appendNet
<1> QED
  BY <1>1, MemoryKept DEF CallFails, TypeInv, TypeOK

\* Every step of Raft keeps TypeInv.
LEMMA TypeInvStep ==
    ASSUME TypeInv, [Next]_vars
    PROVE  TypeInv'
<1>1. CASE UNCHANGED vars
  <2>1. UNCHANGED <<memory, diskVars, procVars, snapTask>> /\ CallTypes' /\ aeArgs' = aeArgs
    BY <1>1 DEF vars, TypeInv, TypeOK, CallTypes, voteNet, appendNet, snapNet
  <2> QED
    BY <2>1, MemoryKept DEF TypeInv, TypeOK
<1>2. ASSUME NEW s \in Server, ServerStep(s)
      PROVE  TypeInv'
  BY <1>2, doElectionTypes, StartTypes, doHeartBeatTypes, applierTickerTypes, SnapshotTypes,
     leaderSendSnapShotTypes DEF ServerStep
<1>3. ASSUME NEW m \in rvArgs, RequestVote(m) PROVE TypeInv'
  BY <1>3, RequestVoteTypes
<1>4. ASSUME NEW m \in rvReply, sendRequestVote(m) PROVE TypeInv'
  BY <1>4, sendRequestVoteTypes
<1>5. ASSUME NEW m \in aeArgs, AppendEntries(m) PROVE TypeInv'
  BY <1>5, AppendEntriesTypes
<1>6. ASSUME NEW m \in aeReply, sendAppendEntries(m) PROVE TypeInv'
  BY <1>6, sendAppendEntriesTypes
<1>7. ASSUME NEW m \in isArgs, InstallSnapshot(m) PROVE TypeInv'
  BY <1>7, InstallSnapshotTypes
<1>8. ASSUME NEW m \in isReply, SendSnapshotReturns(m) PROVE TypeInv'
  BY <1>8, SendSnapshotReturnsTypes
<1>9. CASE CallFails
  BY <1>9, CallFailsTypes
<1> QED
  BY <1>1, <1>2, <1>3, <1>4, <1>5, <1>6, <1>7, <1>8, <1>9 DEF Next

\* A cluster started by Raft::init satisfies TypeInv.
LEMMA TypeInvInit == Init => TypeInv
<1> SUFFICES ASSUME Init PROVE TypeInv
  OBVIOUS
<1>1. MemberTypes
  <2>1. votedNum \in [Server -> [0..MaxTerm -> SUBSET Server]]
    BY DEF Init
  <2>2. m_nextIndex \in [Server -> [Server -> Int]] /\ m_matchIndex \in [Server -> [Server -> Nat]]
        /\ appendNums \in [Server -> [Round -> Nat]]
    BY DEF Init
  <2> QED
    BY <2>1, <2>2, BoundAssumption DEF Init, MemberTypes
<1>2. LogTypes /\ LogContiguous
  BY DEF Init, LogTypes, LogContiguous
<1>3. FileTypes
  <2>1. EmptyState \in StateRecord
    BY DEF EmptyState, StateRecord
  <2> QED
    BY <2>1 DEF Init, FileTypes, Data
<1>4. CallTypes /\ HistoryTypes
  BY DEF Init, CallTypes, HistoryTypes
<1> QED
  BY <1>1, <1>2, <1>3, <1>4 DEF TypeInv, TypeOK

\* The members of Raft, its files and its messages keep their types, and slice
\* k of a log or of an AppendEntries call holds the k-th index after its base,
\* for any number of servers and any bounds.
THEOREM TypeCorrect == Spec => []TypeInv
<1>1. TypeInv /\ [Next]_vars => TypeInv'
  BY TypeInvStep
<1> QED
  BY <1>1, TypeInvInit, PTL DEF Spec

\* getSlicesIndexFromLogIndex names the right slice in every reachable state.
THEOREM LogsContiguous == Spec => []LogContiguous
<1>1. TypeInv => LogContiguous
  BY DEF TypeInv
<1> QED
  BY <1>1, TypeCorrect, PTL

\* Every reachable state is well typed.
THEOREM WellTyped == Spec => []TypeOK
<1>1. TypeInv => TypeOK
  BY DEF TypeInv
<1> QED
  BY <1>1, TypeCorrect, PTL
-----------------------------------------------------------------------------
(* One winner per term *)

\* Two majorities share a server.
LEMMA MajoritiesMeet ==
    ASSUME NEW S \in SUBSET Server, NEW T \in SUBSET Server,
           IsMajority(Cardinality(S)), IsMajority(Cardinality(T))
    PROVE  \E v \in S : v \in T
<1>1. IsFiniteSet(Server) /\ Cardinality(Server) \in Nat
  BY ServerAssumption, FS_CardinalityType
<1>2. Cardinality(S) \in Nat /\ Cardinality(T) \in Nat
  BY <1>1, FS_Subset, FS_CardinalityType
<1>3. Cardinality(S) + Cardinality(T) > Cardinality(Server)
  BY <1>1, <1>2 DEF IsMajority
<1> QED
  BY <1>1, <1>3, FS_MajoritiesIntersect

\* A step that gives no vote and counts none: terms may rise, a vote of the
\* term it was given in stays, calls may end.
VotesUntouched ==
    /\ \A s \in Server :
          /\ m_currentTerm'[s] >= m_currentTerm[s]
          /\ m_currentTerm'[s] = m_currentTerm[s] => m_votedFor'[s] = m_votedFor[s]
    /\ UNCHANGED voteVars
    /\ rvArgs' \subseteq rvArgs
    /\ rvReply' \subseteq rvReply

\* A step that raises terms at most and touches no vote keeps ElectInv.
LEMMA UntouchedKeepsElectInv ==
    ASSUME TypeOK, TypeOK', ElectInv, VotesUntouched
    PROVE  ElectInv'
<1> USE DEF ElectInv
<1>1. \A s \in Server : m_currentTerm[s] \in Int /\ m_currentTerm'[s] \in Int
  BY DEF TypeOK, MemberTypes
<1>2. /\ \A b \in ballots : b.voter \in Server /\ b.term \in Int
      /\ \A m \in rvArgs : m.candidateid \in Server /\ m.term \in Int
      /\ \A r \in rvReply : r.to \in Server /\ r.election \in Int
      /\ \A e \in elected : e.leader \in Server /\ e.term \in Int
  BY DEF TypeOK, HistoryTypes, CallTypes, VoteArgsType, VoteReplyType
<1>3. ballots' = ballots /\ elected' = elected /\ votedNum' = votedNum
  BY DEF VotesUntouched, voteVars
<1>4. VotesRecorded'
  BY <1>1, <1>2, <1>3 DEF VotesUntouched, VotesRecorded
<1>5. VotesGiven'
  BY <1>3 DEF VotesUntouched, VotesGiven, Ballot
<1>6. TermsReached'
  BY <1>1, <1>2, <1>3 DEF VotesUntouched, TermsReached
<1>7. CallsUnique'
  BY DEF VotesUntouched, CallsUnique
<1>8. CountedOnce'
  BY <1>3 DEF VotesUntouched, CountedOnce
<1>9. ElectionSafety'
  BY <1>3 DEF ElectionSafety
<1> QED
  BY <1>4, <1>5, <1>6, <1>7, <1>8, <1>9

\* The steps that are neither an election, nor a vote, nor the count of one.
LEMMA StepDownUntouched ==
    ASSUME TypeOK, NEW s \in Server, NEW term \in 0..MaxTerm,
           \/ StepDown(s, term) /\ term > m_currentTerm[s]
           \/ FollowTerm(s, term)
    PROVE  \A d \in Server :
              /\ m_currentTerm'[d] >= m_currentTerm[d]
              /\ m_currentTerm'[d] = m_currentTerm[d] => m_votedFor'[d] = m_votedFor[d]
<1>1. \A d \in Server : m_currentTerm[d] \in Int
  BY DEF TypeOK, MemberTypes
<1>2. m_currentTerm \in [Server -> 0..MaxTerm] /\ m_votedFor \in [Server -> Server \cup {None}]
  BY DEF TypeOK, MemberTypes
<1>3. CASE StepDown(s, term) /\ term > m_currentTerm[s]
  BY <1>1, <1>2, <1>3 DEF StepDown
<1>4. CASE UNCHANGED termVars
  BY <1>1, <1>4 DEF termVars
<1> QED
  BY <1>3, <1>4 DEF FollowTerm

\* A step that leaves term and vote alone raises no term and withdraws no vote.
LEMMA TermsKept ==
    ASSUME TypeOK, UNCHANGED termVars
    PROVE  \A d \in Server :
              /\ m_currentTerm'[d] >= m_currentTerm[d]
              /\ m_currentTerm'[d] = m_currentTerm[d] => m_votedFor'[d] = m_votedFor[d]
<1>1. \A d \in Server : m_currentTerm[d] \in Int
  BY DEF TypeOK, MemberTypes
<1> QED
  BY <1>1 DEF termVars

\* AppendEntries, InstallSnapshot, their callers, the tickers and the clients.
OtherStep ==
    \/ \E s \in Server : \/ \E c \in Command : Start(s, c)
                         \/ \E r \in Round : doHeartBeat(s, r)
                         \/ applierTicker(s)
                         \/ \E i \in 1..MaxSnapshotIndex : Snapshot(s, i)
                         \/ \E d \in Server : leaderSendSnapShot(s, d)
    \/ \E m \in rvReply : VoteHigherTerm(m) \/ VoteIgnored(m)
    \/ \E m \in aeArgs : AppendEntries(m)
    \/ \E m \in aeReply : sendAppendEntries(m)
    \/ \E m \in isArgs : InstallSnapshot(m)
    \/ \E m \in isReply : SendSnapshotReturns(m)
    \/ CallFails
    \/ UNCHANGED vars

\* Replication, snapshot and failed-call steps touch no vote.
LEMMA OtherStepUntouched ==
    ASSUME TypeOK, OtherStep
    PROVE  VotesUntouched
<1> USE DEF voteNet, memory, workVars
<1>1. ASSUME NEW s \in Server, NEW c \in Command, Start(s, c) PROVE VotesUntouched
  BY <1>1, TermsKept DEF Start, VotesUntouched
<1>2. ASSUME NEW s \in Server, NEW r \in Round, doHeartBeat(s, r) PROVE VotesUntouched
  BY <1>2, TermsKept DEF doHeartBeat, Exit, VotesUntouched
<1>3. ASSUME NEW s \in Server, applierTicker(s) PROVE VotesUntouched
  BY <1>3, TermsKept DEF applierTicker, Exit, VotesUntouched
<1>4. ASSUME NEW s \in Server, NEW i \in 1..MaxSnapshotIndex, Snapshot(s, i) PROVE VotesUntouched
  BY <1>4, TermsKept DEF Snapshot, Exit, VotesUntouched
<1>5. ASSUME NEW s \in Server, NEW d \in Server, leaderSendSnapShot(s, d) PROVE VotesUntouched
  BY <1>5, TermsKept DEF leaderSendSnapShot, VotesUntouched
<1>6. ASSUME NEW m \in rvReply, VoteHigherTerm(m) \/ VoteIgnored(m) PROVE VotesUntouched
  <2>1. m.to \in Server /\ m.term \in 0..MaxTerm
    BY DEF TypeOK, CallTypes, VoteReplyType
  <2>2. CASE VoteHigherTerm(m)
    BY <2>1, <2>2, StepDownUntouched DEF VoteHigherTerm, VotesUntouched
  <2>3. CASE VoteIgnored(m)
    BY <2>3, TermsKept DEF VoteIgnored, VotesUntouched
  <2> QED
    BY <1>6, <2>2, <2>3
<1>7. ASSUME NEW m \in aeArgs, AppendEntries(m) PROVE VotesUntouched
  <2>1. m.to \in Server /\ m.term \in 0..MaxTerm
    BY DEF TypeOK, CallTypes, AppendArgsType
  <2>2. UNCHANGED voteVars /\ rvArgs' = rvArgs /\ rvReply' = rvReply
    BY <1>7 DEF AppendEntries, AppendEntriesStale, AppendEntriesTooNew, AppendEntriesBelowSnapshot,
       AppendEntriesMatch, AppendEntriesMismatch, Exit
  <2>3. UNCHANGED termVars \/ FollowTerm(m.to, m.term)
    BY <1>7 DEF AppendEntries, AppendEntriesStale, AppendEntriesTooNew, AppendEntriesBelowSnapshot,
       AppendEntriesMatch, AppendEntriesMismatch, Exit
  <2> QED
    BY <2>1, <2>2, <2>3, TermsKept, StepDownUntouched DEF VotesUntouched
<1>8. ASSUME NEW m \in aeReply, sendAppendEntries(m) PROVE VotesUntouched
  <2>1. m.to \in Server /\ m.term \in 0..MaxTerm
    BY DEF TypeOK, CallTypes, AppendReplyType
  <2>2. UNCHANGED voteVars /\ rvArgs' = rvArgs /\ rvReply' = rvReply
    BY <1>8 DEF sendAppendEntries, AppendHigherTerm, AppendIgnored, AppendRefused, AppendAccepted, Exit
  <2>3. UNCHANGED termVars \/ (StepDown(m.to, m.term) /\ m.term > m_currentTerm[m.to])
    BY <1>8 DEF sendAppendEntries, AppendHigherTerm, AppendIgnored, AppendRefused, AppendAccepted, Exit
  <2> QED
    BY <2>1, <2>2, <2>3, TermsKept, StepDownUntouched DEF VotesUntouched
<1>9. ASSUME NEW m \in isArgs, InstallSnapshot(m) PROVE VotesUntouched
  <2>1. m.to \in Server /\ m.term \in 0..MaxTerm
    BY DEF TypeOK, CallTypes, SnapshotArgsType
  <2>2. UNCHANGED voteVars /\ rvArgs' = rvArgs /\ rvReply' = rvReply
    BY <1>9 DEF InstallSnapshot, InstallSnapshotStale, InstallSnapshotOutdated, InstallSnapshotInstall
  <2>3. UNCHANGED termVars \/ FollowTerm(m.to, m.term)
    BY <1>9 DEF InstallSnapshot, InstallSnapshotStale, InstallSnapshotOutdated, InstallSnapshotInstall
  <2> QED
    BY <2>1, <2>2, <2>3, TermsKept, StepDownUntouched DEF VotesUntouched
<1>10. ASSUME NEW m \in isReply, SendSnapshotReturns(m) PROVE VotesUntouched
  <2>1. m.to \in Server /\ m.term \in 0..MaxTerm
    BY DEF TypeOK, CallTypes, SnapshotReplyType
  <2>2. UNCHANGED voteVars /\ rvArgs' = rvArgs /\ rvReply' = rvReply
    BY <1>10 DEF SendSnapshotReturns, SnapshotIgnored, SnapshotHigherTerm, SnapshotAccepted
  <2>3. UNCHANGED termVars \/ (StepDown(m.to, m.term) /\ m.term > m_currentTerm[m.to])
    BY <1>10 DEF SendSnapshotReturns, SnapshotIgnored, SnapshotHigherTerm, SnapshotAccepted
  <2> QED
    BY <2>1, <2>2, <2>3, TermsKept, StepDownUntouched DEF VotesUntouched
<1>11. CASE CallFails
  BY <1>11, TermsKept DEF CallFails, VotesUntouched
<1>12. CASE UNCHANGED vars
  BY <1>12, TermsKept DEF vars, VotesUntouched
<1> QED
  BY <1>1, <1>2, <1>3, <1>4, <1>5, <1>6, <1>7, <1>8, <1>9, <1>10, <1>11, <1>12 DEF OtherStep

\* A new election is in a term nobody has voted in for s, asked for s or won by s.
LEMMA doElectionKeepsElectInv ==
    ASSUME TypeOK, TypeOK', ElectInv, NEW s \in Server, doElection(s)
    PROVE  ElectInv'
<1> USE DEF ElectInv
<1> DEFINE term == m_currentTerm[s] + 1
           mine == Ballot(s, term, s)
<1>1. /\ m_currentTerm \in [Server -> 0..MaxTerm] /\ m_votedFor \in [Server -> Server \cup {None}]
      /\ votedNum \in [Server -> [0..MaxTerm -> SUBSET Server]]
      /\ \A d \in Server : m_currentTerm[d] \in Int
  BY DEF TypeOK, MemberTypes
<1>2. /\ \A b \in ballots : b.voter \in Server /\ b.candidate \in Server /\ b.term \in 1..MaxTerm
      /\ \A m \in rvArgs : m.candidateid \in Server /\ m.to \in Server /\ m.term \in 1..MaxTerm
      /\ \A r \in rvReply : r.to \in Server /\ r.from \in Server /\ r.election \in 1..MaxTerm
      /\ \A e \in elected : e.leader \in Server /\ e.term \in 1..MaxTerm /\ e.votes \in SUBSET Server
  BY DEF TypeOK, HistoryTypes, CallTypes, VoteArgsType, VoteReplyType
<1>3. /\ term \in 1..MaxTerm /\ term > m_currentTerm[s]
      /\ m_currentTerm' = [m_currentTerm EXCEPT ![s] = term]
      /\ m_votedFor' = [m_votedFor EXCEPT ![s] = s]
      /\ ballots' = ballots \cup {mine}
      /\ rvReply' = rvReply
  BY <1>1, BoundAssumption DEF doElection, Ballot
<1>4. mine.voter = s /\ mine.term = term /\ mine.candidate = s
  BY DEF Ballot
<1>5. /\ \A b \in ballots : ~(b.voter = s /\ b.term = term)
      /\ \A m \in rvArgs : ~(m.candidateid = s /\ m.term = term)
      /\ \A r \in rvReply : ~(r.to = s /\ r.election = term)
      /\ \A e \in elected : ~(e.leader = s /\ e.term = term)
  BY <1>1, <1>2, <1>3 DEF VotesRecorded, TermsReached
<1>6. s \notin votedNum[s][term]
  <2>1. s \in votedNum[s][term] => Ballot(s, term, s) \in ballots
    BY <1>3 DEF VotesGiven
  <2> QED
    BY <2>1, <1>4, <1>5
<1>7. \A d \in Server : /\ m_currentTerm'[d] >= m_currentTerm[d] /\ m_currentTerm'[d] \in Int
                        /\ d # s => m_currentTerm'[d] = m_currentTerm[d] /\ m_votedFor'[d] = m_votedFor[d]
                        /\ d = s => m_currentTerm'[d] = term /\ m_votedFor'[d] = s
  BY <1>1, <1>3
<1> HIDE DEF term, mine
<1>8. VotesRecorded'
  <2>1. ASSUME NEW b \in ballots'
        PROVE  /\ b.term <= m_currentTerm'[b.voter]
               /\ b.term = m_currentTerm'[b.voter] => m_votedFor'[b.voter] = b.candidate
    <3>1. CASE b = mine
      BY <1>3, <1>4, <1>7, <3>1
    <3>2. CASE b \in ballots /\ b.voter = s
      BY <1>1, <1>2, <1>3, <1>7, <3>2 DEF VotesRecorded
    <3>3. CASE b \in ballots /\ b.voter # s
      BY <1>2, <1>7, <3>3 DEF VotesRecorded
    <3> QED
      BY <1>3, <3>1, <3>2, <3>3
  <2>2. \A b, c \in ballots' : b.voter = c.voter /\ b.term = c.term => b = c
    BY <1>3, <1>4, <1>5 DEF VotesRecorded
  <2> QED
    BY <2>1, <2>2 DEF VotesRecorded
<1>9. CASE Server = {s}
  <2>1. elected' = elected \cup {[term |-> term, leader |-> s, votes |-> {s}]}
        /\ rvArgs' = rvArgs /\ votedNum' = votedNum
    BY <1>9 DEF doElection, term
  <2> DEFINE won == [term |-> term, leader |-> s, votes |-> {s}]
  <2>2. won.term = term /\ won.leader = s /\ won.votes = {s}
    OBVIOUS
  <2>3. IsMajority(Cardinality(won.votes))
    <3>1. Cardinality({s}) = 1
      BY FS_Singleton
    <3> QED
      BY <1>9, <2>2, <3>1 DEF IsMajority
  <2> HIDE DEF won
  <2>4. VotesGiven'
    <3>1. \A v \in won.votes : Ballot(v, won.term, won.leader) \in ballots'
      BY <1>3, <2>2 DEF mine
    <3> QED
      BY <1>3, <2>1, <2>3, <3>1 DEF VotesGiven, Ballot, won
  <2>5. TermsReached' /\ CallsUnique'
    BY <1>1, <1>2, <1>3, <1>7, <2>1, <2>2 DEF TermsReached, CallsUnique, won
  <2>6. CountedOnce'
    BY <1>3, <1>5, <1>6, <2>1, <2>2 DEF CountedOnce, won
  <2>7. ASSUME NEW f \in elected PROVE f.term # term
    BY <1>2, <1>5, <1>9
  <2>8. ElectionSafety'
    BY <2>1, <2>2, <2>7 DEF ElectionSafety, won
  <2> QED
    BY <1>8, <2>4, <2>5, <2>6, <2>8
<1>10. CASE Server # {s}
  <2> DEFINE asks == {RequestVoteArgs(s, d, term) : d \in Server \ {s}}
  <2>1. elected' = elected /\ rvArgs' = rvArgs \cup asks
        /\ votedNum' = [votedNum EXCEPT ![s][term] = {s}]
    BY <1>10 DEF doElection, term
  <2>2. \A m \in asks : m.candidateid = s /\ m.term = term /\ m.to \in Server /\ m.to # s
    BY DEF RequestVoteArgs
  <2>3. \A m, n \in asks : m.to = n.to => m = n
    BY DEF RequestVoteArgs
  <2> HIDE DEF asks
  <2>4. \A d \in Server, t \in 0..MaxTerm :
           votedNum'[d][t] = IF d = s /\ t = term THEN {s} ELSE votedNum[d][t]
    BY <1>1, <1>3, <2>1
  <2>5. VotesGiven'
    <3>1. ASSUME NEW d \in Server, NEW t \in 0..MaxTerm, NEW v \in votedNum'[d][t]
          PROVE  Ballot(v, t, d) \in ballots'
      <4>1. CASE d = s /\ t = term
        BY <1>3, <2>4, <4>1 DEF mine
      <4>2. CASE ~(d = s /\ t = term)
        BY <1>3, <2>4, <4>2 DEF VotesGiven
      <4> QED
        BY <4>1, <4>2
    <3>2. /\ \A r \in rvReply' : r.votegranted =>
                r.term = r.election /\ Ballot(r.from, r.election, r.to) \in ballots'
          /\ \A e \in elected' : /\ \A v \in e.votes : Ballot(v, e.term, e.leader) \in ballots'
                                 /\ IsMajority(Cardinality(e.votes))
      BY <1>3, <2>1 DEF VotesGiven
    <3> QED
      BY <3>1, <3>2 DEF VotesGiven, Ballot
  <2>6. TermsReached'
    BY <1>1, <1>2, <1>3, <1>7, <2>1, <2>2 DEF TermsReached
  <2>7. CallsUnique'
    BY <1>3, <1>5, <2>1, <2>2, <2>3 DEF CallsUnique
  <2>8. CountedOnce'
    <3>1. \A m \in rvArgs' : m.to \notin votedNum'[m.candidateid][m.term]
      BY <1>2, <1>3, <1>5, <2>1, <2>2, <2>4 DEF CountedOnce
    <3>2. \A r \in rvReply' : r.from \notin votedNum'[r.to][r.election]
      BY <1>2, <1>3, <1>5, <2>4 DEF CountedOnce
    <3>3. ASSUME NEW e \in elected'
          PROVE  /\ \A v \in e.votes : v \notin votedNum'[e.leader][e.term]
                 /\ \A m \in rvArgs' : m.candidateid = e.leader /\ m.term = e.term => m.to \notin e.votes
                 /\ \A r \in rvReply' : r.to = e.leader /\ r.election = e.term => r.from \notin e.votes
      <4>1. ~(e.leader = s /\ e.term = term)
        BY <1>5, <2>1
      <4> QED
        BY <1>2, <1>3, <2>1, <2>2, <2>4, <4>1 DEF CountedOnce
    <3> QED
      BY <3>1, <3>2, <3>3 DEF CountedOnce
  <2> QED
    BY <1>8, <2>1, <2>5, <2>6, <2>7, <2>8 DEF ElectionSafety
<1> QED
  BY <1>9, <1>10

\* RequestVote takes a call off the wire and puts its answer there.
LEMMA AnswerKeepsCalls ==
    ASSUME TypeOK, CallsUnique, CountedOnce, NEW m \in rvArgs, NEW term, NEW granted,
           AnswerVote(m, term, granted), votedNum' = votedNum, elected' = elected
    PROVE  CallsUnique' /\ CountedOnce'
<1> DEFINE a == VoteReply(m, term, granted)
<1>1. a.from = m.to /\ a.to = m.candidateid /\ a.election = m.term
  BY DEF VoteReply
<1>2. rvArgs' = rvArgs \ {m} /\ rvReply' = rvReply \cup {a}
  BY DEF AnswerVote
<1> HIDE DEF a
<1>3. CallsUnique'
  BY <1>1, <1>2 DEF CallsUnique
<1>4. CountedOnce'
  BY <1>1, <1>2 DEF CountedOnce
<1> QED
  BY <1>3, <1>4

\* RequestVote gives a vote only in a term without one, or the same again.
LEMMA RequestVoteKeepsElectInv ==
    ASSUME TypeOK, TypeOK', ElectInv, NEW m \in rvArgs, RequestVote(m)
    PROVE  ElectInv'
<1> USE DEF ElectInv
<1> DEFINE s == m.to
<1>1. /\ m_currentTerm \in [Server -> 0..MaxTerm] /\ m_votedFor \in [Server -> Server \cup {None}]
      /\ \A d \in Server : m_currentTerm[d] \in Int /\ m_currentTerm'[d] \in Int
  BY DEF TypeOK, MemberTypes
<1>2. /\ \A b \in ballots : b.voter \in Server /\ b.candidate \in Server /\ b.term \in Int
      /\ \A n \in rvArgs : n.candidateid \in Server /\ n.to \in Server /\ n.term \in Int
      /\ \A r \in rvReply : r.to \in Server /\ r.election \in Int
      /\ \A e \in elected : e.leader \in Server /\ e.term \in Int
  BY DEF TypeOK, HistoryTypes, CallTypes, VoteArgsType, VoteReplyType
<1>3. votedNum' = votedNum /\ elected' = elected
  BY DEF RequestVote, RequestVoteExpire, RequestVoteCurrent, memory, workVars, voteVars
<1>4. CallsUnique' /\ CountedOnce'
  BY <1>3, AnswerKeepsCalls DEF RequestVote, RequestVoteExpire, RequestVoteCurrent
<1>5. ElectionSafety'
  BY <1>3 DEF ElectionSafety
<1>6. CASE RequestVoteExpire(m)
  <2> DEFINE a == VoteReply(m, m_currentTerm[s], FALSE)
  <2>1. /\ UNCHANGED <<m_currentTerm, m_votedFor, ballots>>
        /\ rvArgs' = rvArgs \ {m} /\ rvReply' = rvReply \cup {a}
    BY <1>6 DEF RequestVoteExpire, AnswerVote, memory, workVars, termVars, voteVars
  <2>2. a.to = m.candidateid /\ a.election = m.term /\ a.votegranted = FALSE
    BY DEF VoteReply
  <2> HIDE DEF a
  <2>3. VotesRecorded'
    BY <2>1 DEF VotesRecorded
  <2>4. VotesGiven'
    BY <1>3, <2>1, <2>2 DEF VotesGiven, Ballot
  <2>5. TermsReached'
    BY <1>3, <2>1, <2>2 DEF TermsReached
  <2> QED
    BY <1>4, <1>5, <2>3, <2>4, <2>5
<1>7. CASE RequestVoteCurrent(m)
  <2> DEFINE grants == GrantsVote(s, m)
             a == VoteReply(m, m.term, grants)
             new == Ballot(s, m.term, m.candidateid)
  <2>1. /\ m.term >= m_currentTerm[s]
        /\ m_currentTerm' = [m_currentTerm EXCEPT ![s] = m.term]
        /\ m_votedFor'[s] = IF grants THEN m.candidateid
                            ELSE IF m.term > m_currentTerm[s] THEN None ELSE m_votedFor[s]
        /\ \A d \in Server \ {s} : m_votedFor'[d] = m_votedFor[d]
        /\ ballots' = IF grants THEN ballots \cup {new} ELSE ballots
        /\ rvArgs' = rvArgs \ {m} /\ rvReply' = rvReply \cup {a}
    BY <1>1, <1>2, <1>7 DEF RequestVoteCurrent, AnswerVote, Ballot
  <2>2. /\ a.to = m.candidateid /\ a.from = s /\ a.election = m.term /\ a.term = m.term
        /\ a.votegranted = grants
        /\ new.voter = s /\ new.term = m.term /\ new.candidate = m.candidateid
    BY DEF VoteReply, Ballot
  <2>3. grants => m.term > m_currentTerm[s] \/ m_votedFor[s] \in {None, m.candidateid}
    BY DEF GrantsVote
  <2>4. ASSUME grants, NEW b \in ballots, b.voter = s, b.term = m.term PROVE b = new
    <3>1. b.term <= m_currentTerm[s] /\ (b.term = m_currentTerm[s] => m_votedFor[s] = b.candidate)
      BY <2>4 DEF VotesRecorded
    <3>2. m_votedFor[s] = b.candidate /\ b.candidate # None
      BY <1>1, <1>2, <2>1, <2>4, <3>1, NoneAssumption
    <3>3. b.candidate = m.candidateid
      BY <1>1, <1>2, <2>3, <2>4, <3>1, <3>2
    <3>4. b \in [voter : Server, term : 1..MaxTerm, candidate : Server]
      BY DEF TypeOK, HistoryTypes
    <3> QED
      BY <2>4, <3>3, <3>4 DEF Ballot
  <2> HIDE DEF grants, a, new
  <2>5. \A d \in Server : /\ m_currentTerm'[d] >= m_currentTerm[d]
                          /\ d # s => m_currentTerm'[d] = m_currentTerm[d]
                          /\ d = s => m_currentTerm'[d] = m.term
    BY <1>1, <1>2, <2>1
  <2>6. VotesRecorded'
    <3>1. ASSUME NEW b \in ballots'
          PROVE  /\ b.term <= m_currentTerm'[b.voter]
                 /\ b.term = m_currentTerm'[b.voter] => m_votedFor'[b.voter] = b.candidate
      <4>1. CASE b = new /\ grants
        BY <1>2, <2>1, <2>2, <2>5, <4>1
      <4>2. CASE b \in ballots /\ b.voter # s
        BY <1>2, <2>1, <2>5, <4>2 DEF VotesRecorded
      <4>3. CASE b \in ballots /\ b.voter = s /\ grants
        <5>1. b.term <= m_currentTerm[s]
          BY <4>3 DEF VotesRecorded
        <5>2. b.term <= m.term
          BY <1>1, <1>2, <2>1, <4>3, <5>1
        <5>3. b.term = m.term => b.candidate = m.candidateid
          BY <2>2, <2>4, <4>3
        <5> QED
          BY <1>2, <2>1, <2>5, <4>3, <5>2, <5>3
      <4>4. CASE b \in ballots /\ b.voter = s /\ ~grants
        <5>1. b.term <= m_currentTerm[s] /\ (b.term = m_currentTerm[s] => m_votedFor[s] = b.candidate)
          BY <4>4 DEF VotesRecorded
        <5> QED
          BY <1>1, <1>2, <2>1, <2>5, <4>4, <5>1
      <4> QED
        BY <2>1, <4>1, <4>2, <4>3, <4>4
    <3>2. \A b, c \in ballots' : b.voter = c.voter /\ b.term = c.term => b = c
      BY <2>1, <2>2, <2>4 DEF VotesRecorded
    <3> QED
      BY <3>1, <3>2 DEF VotesRecorded
  <2>7. VotesGiven'
    <3>1. ballots \subseteq ballots' /\ (grants => new \in ballots')
      BY <2>1
    <3>2. \A r \in rvReply' : r.votegranted =>
             r.term = r.election /\ Ballot(r.from, r.election, r.to) \in ballots'
      BY <2>1, <2>2, <3>1 DEF VotesGiven, new
    <3>3. /\ \A d \in Server, t \in 0..MaxTerm : \A v \in votedNum'[d][t] : Ballot(v, t, d) \in ballots'
          /\ \A e \in elected' : /\ \A v \in e.votes : Ballot(v, e.term, e.leader) \in ballots'
                                 /\ IsMajority(Cardinality(e.votes))
      BY <1>3, <3>1 DEF VotesGiven
    <3> QED
      BY <3>2, <3>3 DEF VotesGiven, Ballot
  <2>8. TermsReached'
    BY <1>1, <1>2, <1>3, <2>1, <2>2, <2>5 DEF TermsReached
  <2> QED
    BY <1>4, <1>5, <2>6, <2>7, <2>8
<1> QED
  BY <1>6, <1>7 DEF RequestVote

\* A vote that is counted belongs to this election and was not counted before.
LEMMA VoteCountedKeepsElectInv ==
    ASSUME TypeOK, TypeOK', ElectInv, NEW m \in rvReply, VoteCounted(m)
    PROVE  ElectInv'
<1> USE DEF ElectInv
<1> DEFINE s == m.to
<1>1. /\ votedNum \in [Server -> [0..MaxTerm -> SUBSET Server]]
      /\ s \in Server /\ m.from \in Server /\ m.election \in 0..MaxTerm
  <2>1. m \in VoteReplyType
    BY DEF TypeOK, CallTypes
  <2>2. s \in Server /\ m.from \in Server /\ m.election \in 1..MaxTerm
    BY <2>1 DEF VoteReplyType
  <2>3. m.election \in 0..MaxTerm
    BY <2>2
  <2> QED
    BY <2>2, <2>3 DEF TypeOK, MemberTypes
<1>2. /\ \A n \in rvArgs : n.candidateid \in Server /\ n.term \in 0..MaxTerm
      /\ \A r \in rvReply : r.to \in Server /\ r.election \in 0..MaxTerm
      /\ \A e \in elected : e.leader \in Server /\ e.term \in 0..MaxTerm
  BY DEF TypeOK, CallTypes, HistoryTypes, VoteArgsType, VoteReplyType
<1>3. /\ m.votegranted /\ rvReply' = rvReply \ {m} /\ rvArgs' = rvArgs
      /\ votedNum' = [votedNum EXCEPT ![s][m.election] = votedNum[s][m.election] \cup {m.from}]
      /\ UNCHANGED <<m_currentTerm, m_votedFor, ballots, elected>>
  BY DEF VoteCounted, termVars
<1>4. \A d \in Server, t \in 0..MaxTerm :
         votedNum'[d][t] = IF d = s /\ t = m.election THEN votedNum[s][m.election] \cup {m.from}
                                                      ELSE votedNum[d][t]
  BY <1>1, <1>3
<1>5. VotesRecorded' /\ TermsReached' /\ CallsUnique' /\ ElectionSafety'
  BY <1>3 DEF VotesRecorded, TermsReached, CallsUnique, ElectionSafety
<1>6. VotesGiven'
  <2>1. Ballot(m.from, m.election, s) \in ballots
    BY <1>3 DEF VotesGiven
  <2>2. \A d \in Server, t \in 0..MaxTerm : \A v \in votedNum'[d][t] : Ballot(v, t, d) \in ballots
    BY <1>4, <2>1 DEF VotesGiven
  <2> QED
    BY <1>3, <2>2 DEF VotesGiven, Ballot
<1>7. CountedOnce'
  <2>1. \A n \in rvArgs' : n.to \notin votedNum'[n.candidateid][n.term]
    BY <1>2, <1>3, <1>4 DEF CountedOnce, CallsUnique
  <2>2. \A r \in rvReply' : r.from \notin votedNum'[r.to][r.election]
    BY <1>2, <1>3, <1>4 DEF CountedOnce, CallsUnique
  <2>3. ASSUME NEW e \in elected', NEW v \in e.votes
        PROVE  v \notin votedNum'[e.leader][e.term]
    BY <1>2, <1>3, <1>4 DEF CountedOnce
  <2> QED
    BY <1>3, <2>1, <2>2, <2>3 DEF CountedOnce
<1> QED
  BY <1>5, <1>6, <1>7

\* The votes of a new winner meet those of any other winner of the term: the
\* shared voter gave one vote, so it is the same candidate, and that vote was
\* counted already.
LEMMA VoteWinsKeepsElectInv ==
    ASSUME TypeOK, TypeOK', ElectInv, NEW m \in rvReply, VoteWins(m)
    PROVE  ElectInv' /\ (m_status[m.to] # Leader => \A f \in elected : f.term # m.term)
<1> USE DEF ElectInv
<1> DEFINE s == m.to
           votes == votedNum[s][m.election] \cup {m.from}
<1>1. /\ votedNum \in [Server -> [0..MaxTerm -> SUBSET Server]]
      /\ s \in Server /\ m.from \in Server /\ m.election \in 0..MaxTerm
  <2>1. m \in VoteReplyType
    BY DEF TypeOK, CallTypes
  <2>2. s \in Server /\ m.from \in Server /\ m.election \in 1..MaxTerm
    BY <2>1 DEF VoteReplyType
  <2>3. m.election \in 0..MaxTerm
    BY <2>2
  <2> QED
    BY <2>2, <2>3 DEF TypeOK, MemberTypes
<1>2. /\ \A n \in rvArgs : n.candidateid \in Server /\ n.term \in 0..MaxTerm
      /\ \A r \in rvReply : r.to \in Server /\ r.election \in 0..MaxTerm
      /\ \A e \in elected : e.leader \in Server /\ e.term \in 0..MaxTerm /\ e.votes \in SUBSET Server
  BY DEF TypeOK, CallTypes, HistoryTypes, VoteArgsType, VoteReplyType
<1>3. CASE m_status[s] = Leader
  <2>1. VotesUntouched
    BY <1>3, TermsKept DEF VoteWins, Exit, VotesUntouched, memory, workVars
  <2> QED
    BY <1>3, <2>1, UntouchedKeepsElectInv
<1>4. CASE m_status[s] # Leader
  <2> DEFINE won == [term |-> m.term, leader |-> s, votes |-> votes]
  <2>1. /\ m.votegranted /\ rvReply' = rvReply \ {m} /\ rvArgs' = rvArgs
        /\ IsMajority(Cardinality(votes)) /\ m.term = m_currentTerm[s]
        /\ votedNum' = [votedNum EXCEPT ![s][m.election] = {}]
        /\ elected' = elected \cup {won}
        /\ UNCHANGED <<m_currentTerm, m_votedFor, ballots>>
    BY <1>4 DEF VoteWins, termVars
  <2>2. won.term = m.term /\ won.leader = s /\ won.votes = votes
    OBVIOUS
  <2>3. m.term = m.election /\ Ballot(m.from, m.election, s) \in ballots
    BY <2>1 DEF VotesGiven
  <2>4. \A v \in votes : Ballot(v, m.election, s) \in ballots
    BY <1>1, <2>3 DEF VotesGiven
  <2>5. votes \in SUBSET Server
    <3>1. votedNum[s] \in [0..MaxTerm -> SUBSET Server]
      BY <1>1
    <3>2. votedNum[s][m.election] \in SUBSET Server
      BY <1>1, <3>1
    <3> QED
      BY <1>1, <3>2
  <2>6. /\ \A n \in rvArgs : n.candidateid = s /\ n.term = m.election => n.to \notin votes
        /\ \A r \in rvReply \ {m} : r.to = s /\ r.election = m.election => r.from \notin votes
        /\ \A e \in elected : e.leader = s /\ e.term = m.election => \A v \in e.votes : v \notin votes
    BY DEF CountedOnce, CallsUnique
  <2>7. \A d \in Server, t \in 0..MaxTerm :
           votedNum'[d][t] = IF d = s /\ t = m.election THEN {} ELSE votedNum[d][t]
    BY <1>1, <2>1
  <2> HIDE DEF votes, won
  <2>8. ASSUME NEW f \in elected, f.term = m.term PROVE FALSE
    <3>1. f.votes \in SUBSET Server /\ IsMajority(Cardinality(f.votes))
      BY <1>2 DEF VotesGiven
    <3>2. PICK v \in f.votes : v \in votes
      BY <2>1, <2>5, <3>1, MajoritiesMeet
    <3>3. Ballot(v, f.term, f.leader) \in ballots /\ Ballot(v, m.election, s) \in ballots
      BY <2>4, <3>2 DEF VotesGiven
    <3>4. f.leader = s
      <4>1. Ballot(v, f.term, f.leader) = Ballot(v, m.election, s)
        BY <2>3, <2>8, <3>3 DEF VotesRecorded, Ballot
      <4> QED
        BY <4>1 DEF Ballot
    <3> QED
      BY <2>3, <2>6, <2>8, <3>2, <3>4
  <2>9. VotesRecorded' /\ CallsUnique'
    BY <2>1 DEF VotesRecorded, CallsUnique
  <2>10. TermsReached'
    <3>1. m_currentTerm[s] \in Int
      BY <1>1 DEF TypeOK, MemberTypes
    <3>2. won.term <= m_currentTerm'[won.leader]
      BY <2>1, <2>2, <3>1
    <3> QED
      BY <2>1, <3>2 DEF TermsReached
  <2>11. VotesGiven'
    <3>1. \A v \in won.votes : Ballot(v, won.term, won.leader) \in ballots
      BY <2>2, <2>3, <2>4
    <3>2. \A d \in Server, t \in 0..MaxTerm : \A v \in votedNum'[d][t] : Ballot(v, t, d) \in ballots
      BY <2>7 DEF VotesGiven
    <3> QED
      BY <2>1, <2>2, <3>1, <3>2 DEF VotesGiven, Ballot
  <2>12. CountedOnce'
    <3>1. \A n \in rvArgs' : n.to \notin votedNum'[n.candidateid][n.term]
      BY <1>2, <2>1, <2>7 DEF CountedOnce
    <3>2. \A r \in rvReply' : r.from \notin votedNum'[r.to][r.election]
      BY <1>2, <2>1, <2>7 DEF CountedOnce
    <3>3. ASSUME NEW e \in elected
          PROVE  /\ \A v \in e.votes : v \notin votedNum'[e.leader][e.term]
                 /\ \A n \in rvArgs' : n.candidateid = e.leader /\ n.term = e.term => n.to \notin e.votes
                 /\ \A r \in rvReply' : r.to = e.leader /\ r.election = e.term => r.from \notin e.votes
      BY <1>2, <2>1, <2>7 DEF CountedOnce
    <3>4. /\ \A v \in won.votes : v \notin votedNum'[won.leader][won.term]
          /\ \A n \in rvArgs' : n.candidateid = won.leader /\ n.term = won.term => n.to \notin won.votes
          /\ \A r \in rvReply' : r.to = won.leader /\ r.election = won.term => r.from \notin won.votes
      BY <1>1, <2>1, <2>2, <2>3, <2>6, <2>7
    <3> QED
      BY <2>1, <3>1, <3>2, <3>3, <3>4 DEF CountedOnce
  <2>13. ElectionSafety'
    BY <2>1, <2>2, <2>8 DEF ElectionSafety
  <2> QED
    BY <2>8, <2>9, <2>10, <2>11, <2>12, <2>13
<1> QED
  BY <1>3, <1>4

\* Every step is an election step or one of the others.
LEMMA NextCases ==
    ASSUME [Next]_vars
    PROVE  \/ OtherStep
           \/ \E s \in Server : doElection(s)
           \/ \E m \in rvArgs : RequestVote(m)
           \/ \E m \in rvReply : VoteCounted(m) \/ VoteWins(m)
BY DEF Next, ServerStep, OtherStep, sendRequestVote

\* Every step keeps ElectInv.
LEMMA ElectInvStep ==
    ASSUME TypeOK, TypeOK', ElectInv, [Next]_vars
    PROVE  ElectInv'
<1>1. CASE OtherStep
  BY <1>1, OtherStepUntouched, UntouchedKeepsElectInv
<1>2. ASSUME NEW s \in Server, doElection(s) PROVE ElectInv'
  BY <1>2, doElectionKeepsElectInv
<1>3. ASSUME NEW m \in rvArgs, RequestVote(m) PROVE ElectInv'
  BY <1>3, RequestVoteKeepsElectInv
<1>4. ASSUME NEW m \in rvReply, VoteCounted(m) \/ VoteWins(m) PROVE ElectInv'
  BY <1>4, VoteCountedKeepsElectInv, VoteWinsKeepsElectInv
<1> QED
  BY <1>1, <1>2, <1>3, <1>4, NextCases

\* ElectInv holds when the cluster starts.
LEMMA ElectInvInit == Init => ElectInv
BY DEF Init, ElectInv, VotesRecorded, VotesGiven, TermsReached, CallsUnique, CountedOnce, ElectionSafety

\* No vote is counted twice or for two elections, in any reachable state.
THEOREM VotesCounted == Spec => []ElectInv
<1>1. TypeOK /\ TypeOK' /\ ElectInv /\ [Next]_vars => ElectInv'
  BY ElectInvStep
<1> QED
  BY <1>1, ElectInvInit, WellTyped, PTL DEF Spec

\* Election safety: a term has at most one winner, and it wins once, for any
\* number of servers and any order of calls, answers and timeouts.
THEOREM OneWinnerPerTerm == Spec => []ElectionSafety
<1>1. ElectInv => ElectionSafety
  BY DEF ElectInv
<1> QED
  BY <1>1, VotesCounted, PTL

-----------------------------------------------------------------------------
(* Votes and roles are final *)

\* Only winning an election makes a leader.
NoNewLeader == \A s \in Server : m_status'[s] = Leader => m_status[s] = Leader

\* Stepping down makes nobody leader.
LEMMA StepDownNoLeader ==
    ASSUME TypeOK, NEW s \in Server, NEW term, StepDown(s, term) \/ FollowTerm(s, term)
    PROVE  NoNewLeader
BY DEF TypeOK, MemberTypes, StepDown, FollowTerm, NoNewLeader, Follower, Leader

\* Only the two ways of winning an election make a leader.
LEMMA OtherStepNoLeader ==
    ASSUME TypeOK, OtherStep
    PROVE  NoNewLeader
<1> USE DEF memory, workVars
<1>1. CASE UNCHANGED m_status
  BY <1>1 DEF NoNewLeader
<1>2. ASSUME NEW m \in rvReply, VoteHigherTerm(m) PROVE NoNewLeader
  <2>1. m.to \in Server
    BY DEF TypeOK, CallTypes, VoteReplyType
  <2> QED
    BY <1>2, <2>1, StepDownNoLeader DEF VoteHigherTerm
<1>3. ASSUME NEW m \in aeArgs, AppendEntries(m) PROVE NoNewLeader
  <2>1. m.to \in Server
    BY DEF TypeOK, CallTypes, AppendArgsType
  <2>2. UNCHANGED m_status \/ FollowTerm(m.to, m.term)
    BY <1>3 DEF AppendEntries, AppendEntriesStale, AppendEntriesTooNew, AppendEntriesBelowSnapshot,
       AppendEntriesMatch, AppendEntriesMismatch, Exit
  <2> QED
    BY <1>1, <2>1, <2>2, StepDownNoLeader
<1>4. ASSUME NEW m \in aeReply, sendAppendEntries(m) PROVE NoNewLeader
  <2>1. m.to \in Server
    BY DEF TypeOK, CallTypes, AppendReplyType
  <2>2. UNCHANGED m_status \/ StepDown(m.to, m.term)
    BY <1>4 DEF sendAppendEntries, AppendHigherTerm, AppendIgnored, AppendRefused, AppendAccepted, Exit
  <2> QED
    BY <1>1, <2>1, <2>2, StepDownNoLeader
<1>5. ASSUME NEW m \in isArgs, InstallSnapshot(m) PROVE NoNewLeader
  <2>1. m.to \in Server
    BY DEF TypeOK, CallTypes, SnapshotArgsType
  <2>2. UNCHANGED m_status \/ FollowTerm(m.to, m.term)
    BY <1>5 DEF InstallSnapshot, InstallSnapshotStale, InstallSnapshotOutdated, InstallSnapshotInstall
  <2> QED
    BY <1>1, <2>1, <2>2, StepDownNoLeader
<1>6. ASSUME NEW m \in isReply, SendSnapshotReturns(m) PROVE NoNewLeader
  <2>1. m.to \in Server
    BY DEF TypeOK, CallTypes, SnapshotReplyType
  <2>2. UNCHANGED m_status \/ StepDown(m.to, m.term)
    BY <1>6 DEF SendSnapshotReturns, SnapshotIgnored, SnapshotHigherTerm, SnapshotAccepted
  <2> QED
    BY <1>1, <2>1, <2>2, StepDownNoLeader
<1>7. ASSUME NEW s \in Server,
             \/ \E c \in Command : Start(s, c)
             \/ \E r \in Round : doHeartBeat(s, r)
             \/ applierTicker(s)
             \/ \E i \in 1..MaxSnapshotIndex : Snapshot(s, i)
             \/ \E d \in Server : leaderSendSnapShot(s, d)
      PROVE  UNCHANGED m_status
  BY <1>7 DEF Start, doHeartBeat, applierTicker, Snapshot, leaderSendSnapShot, Exit
<1>8. \A m \in rvReply : VoteIgnored(m) => UNCHANGED m_status
  BY DEF VoteIgnored
<1>9. CallFails \/ UNCHANGED vars => UNCHANGED m_status
  BY DEF CallFails, vars
<1> QED
  BY <1>1, <1>2, <1>3, <1>4, <1>5, <1>6, <1>7, <1>8, <1>9 DEF OtherStep

\* The formula VoteIsFinal asserts of every step.
VoteFinalStep ==
    \A s \in Server :
        /\ m_currentTerm'[s] >= m_currentTerm[s]
        /\ m_currentTerm'[s] = m_currentTerm[s] =>
              /\ m_votedFor[s] # None => m_votedFor'[s] = m_votedFor[s]
              /\ (/\ m_status[s] # Leader
                  /\ \E e \in elected : e.term = m_currentTerm[s] /\ e.leader = s)
                 => m_status'[s] # Leader

\* No step withdraws a vote, lowers a term or brings a deposed leader back in its term.
LEMMA VoteFinal ==
    ASSUME TypeOK, TypeOK', ElectInv, [Next]_vars
    PROVE  VoteFinalStep
<1>1. /\ m_currentTerm \in [Server -> 0..MaxTerm] /\ m_votedFor \in [Server -> Server \cup {None}]
      /\ m_status \in [Server -> {Follower, Candidate, Leader}]
      /\ \A d \in Server : m_currentTerm[d] \in Int
  BY DEF TypeOK, MemberTypes
<1>2. CASE OtherStep
  BY <1>2, OtherStepUntouched, OtherStepNoLeader DEF VotesUntouched, NoNewLeader, VoteFinalStep
<1>3. ASSUME NEW s \in Server, doElection(s) PROVE VoteFinalStep
  <2>1. /\ m_currentTerm' = [m_currentTerm EXCEPT ![s] = m_currentTerm[s] + 1]
        /\ m_votedFor' = [m_votedFor EXCEPT ![s] = s]
    BY <1>3 DEF doElection
  <2>2. \A d \in Server \ {s} : m_status'[d] = m_status[d]
    BY <1>1, <1>3 DEF doElection, BecomeLeader
  <2> QED
    BY <1>1, <2>1, <2>2 DEF VoteFinalStep
<1>4. ASSUME NEW m \in rvArgs, RequestVoteExpire(m) PROVE VoteFinalStep
  BY <1>1, <1>4 DEF RequestVoteExpire, VoteFinalStep, memory, termVars
<1>5. ASSUME NEW m \in rvArgs, RequestVoteCurrent(m) PROVE VoteFinalStep
  <2>1. m.to \in Server /\ m.term \in Int
    BY DEF TypeOK, CallTypes, VoteArgsType
  <2>2. /\ m.term >= m_currentTerm[m.to]
        /\ m_currentTerm' = [m_currentTerm EXCEPT ![m.to] = m.term]
        /\ \A d \in Server : m_status'[d] \in {Follower, m_status[d]}
        /\ m_votedFor' = [m_votedFor EXCEPT ![m.to] =
                             IF GrantsVote(m.to, m) THEN m.candidateid
                             ELSE IF m.term > m_currentTerm[m.to] THEN None ELSE @]
    BY <1>1, <1>5 DEF RequestVoteCurrent
  <2>3. ASSUME m.term = m_currentTerm[m.to], m_votedFor[m.to] # None
        PROVE  m_votedFor'[m.to] = m_votedFor[m.to]
    BY <1>1, <2>1, <2>2, <2>3 DEF GrantsVote
  <2>4. \A d \in Server : d # m.to => m_currentTerm'[d] = m_currentTerm[d] /\ m_votedFor'[d] = m_votedFor[d]
    BY <1>1, <2>2
  <2>5. m_currentTerm'[m.to] = m.term
    BY <1>1, <2>1, <2>2
  <2> QED
    BY <1>1, <2>1, <2>2, <2>3, <2>4, <2>5 DEF VoteFinalStep, Follower, Leader
<1>6. ASSUME NEW m \in rvReply, VoteCounted(m) PROVE VoteFinalStep
  BY <1>1, <1>6 DEF VoteCounted, VoteFinalStep, termVars
<1>7. ASSUME NEW m \in rvReply, VoteWins(m) PROVE VoteFinalStep
  <2>1. UNCHANGED <<m_currentTerm, m_votedFor>>
    BY <1>7 DEF VoteWins, Exit, memory, termVars
  <2>2. CASE m_status[m.to] = Leader
    <3>1. UNCHANGED m_status
      BY <1>7, <2>2 DEF VoteWins, Exit, memory
    <3> QED
      BY <1>1, <2>1, <3>1 DEF VoteFinalStep
  <2>3. CASE m_status[m.to] # Leader
    <3>1. m.term = m_currentTerm[m.to] /\ \A d \in Server \ {m.to} : m_status'[d] = m_status[d]
      BY <1>1, <1>7, <2>3 DEF VoteWins, BecomeLeader
    <3>2. \A f \in elected : f.term # m.term
      BY <1>7, <2>3, VoteWinsKeepsElectInv
    <3> QED
      BY <1>1, <2>1, <3>1, <3>2 DEF VoteFinalStep
  <2> QED
    BY <2>2, <2>3
<1> QED
  BY <1>2, <1>3, <1>4, <1>5, <1>6, <1>7, NextCases DEF RequestVote

\* Terms never decrease, a vote of the current term is never withdrawn or
\* changed, and a deposed leader is never leader of that term again.
THEOREM VotesAreFinal == Spec => VoteIsFinal
<1>1. TypeOK /\ TypeOK' /\ ElectInv /\ [Next]_vars => [VoteFinalStep]_vars
  BY VoteFinal
<1>2. VoteIsFinal <=> [][VoteFinalStep]_vars
  BY DEF VoteIsFinal, VoteFinalStep
<1> QED
  BY <1>1, <1>2, VotesCounted, WellTyped, PTL DEF Spec

-----------------------------------------------------------------------------
(* What is on disk *)

\* A step in which a server changes its log or gives a vote ends with persist.
PersistStep ==
    \A s \in Server :
        \/ raftState'[s] = persistData(s)
        \/ /\ raftState'[s] = raftState[s] /\ m_logs'[s] = m_logs[s]
           /\ m_lastSnapshotIncludeIndex'[s] = m_lastSnapshotIncludeIndex[s]
           /\ \A b \in ballots' : b.voter = s => b \in ballots

\* A step that changes no log and gives no vote needs no persist().
LEMMA NothingToPersist ==
    ASSUME UNCHANGED <<raftState, m_logs, m_lastSnapshotIncludeIndex, ballots>>
    PROVE  PersistStep
BY DEF PersistStep

\* A step of s that ends in persist() leaves the new log and vote of s on file.
LEMMA OneServerPersists ==
    ASSUME TypeOK, NEW s \in Server, raftState' = [raftState EXCEPT ![s] = persistData(s)],
           \A d \in Server \ {s} : /\ m_logs'[d] = m_logs[d]
                                   /\ m_lastSnapshotIncludeIndex'[d] = m_lastSnapshotIncludeIndex[d],
           \A b \in ballots' : b.voter # s => b \in ballots
    PROVE  PersistStep
<1>1. raftState \in [Server -> StateRecord]
  BY DEF TypeOK, FileTypes
<1>2. raftState'[s] = persistData(s)
  BY <1>1
<1>3. \A d \in Server \ {s} : raftState'[d] = raftState[d]
  BY <1>1
<1> QED
  BY <1>2, <1>3 DEF PersistStep

\* Every step that changes a log or gives a vote writes it to the file.
LEMMA EveryStepPersists ==
    ASSUME TypeOK, [Next]_vars
    PROVE  PersistStep
<1> USE DEF memory, workVars, voteVars, logVars, diskVars
<1>1. /\ m_logs \in [Server -> Seq(Entry)] /\ m_lastSnapshotIncludeIndex \in [Server -> Nat]
  BY DEF TypeOK, LogTypes
<1>2. /\ \A m \in rvArgs : m.to \in Server
      /\ \A m \in rvReply : m.to \in Server
      /\ \A m \in aeArgs : m.to \in Server
      /\ \A m \in isArgs : m.to \in Server
      /\ \A m \in isReply : m.to \in Server
  BY DEF TypeOK, CallTypes, VoteArgsType, VoteReplyType, AppendArgsType, SnapshotArgsType, SnapshotReplyType
<1>3. CASE UNCHANGED vars
  BY <1>3, NothingToPersist DEF vars
<1>4. ASSUME NEW s \in Server, doElection(s) PROVE PersistStep
  <2>1. \A b \in ballots' : b.voter # s => b \in ballots
    BY <1>4 DEF doElection
  <2>2. raftState' = [raftState EXCEPT ![s] = persistData(s)]
        /\ UNCHANGED <<m_logs, m_lastSnapshotIncludeIndex>>
    BY <1>4 DEF doElection, persist
  <2> QED
    BY <2>1, <2>2, OneServerPersists
<1>5. ASSUME NEW s \in Server, NEW c \in Command, Start(s, c) PROVE PersistStep
  BY <1>1, <1>5, OneServerPersists DEF Start, persist
<1>6. ASSUME NEW s \in Server,
             \/ \E r \in Round : doHeartBeat(s, r)
             \/ applierTicker(s)
             \/ \E d \in Server : leaderSendSnapShot(s, d)
      PROVE  PersistStep
  BY <1>6, NothingToPersist DEF doHeartBeat, applierTicker, leaderSendSnapShot, Exit
<1>7. ASSUME NEW s \in Server, NEW i \in 1..MaxSnapshotIndex, Snapshot(s, i) PROVE PersistStep
  <2>1. CASE HoldsIndex(s, i)
    BY <1>1, <1>7, <2>1, OneServerPersists DEF Snapshot, Save
  <2>2. CASE ~HoldsIndex(s, i)
    BY <1>7, <2>2, NothingToPersist DEF Snapshot, Exit
  <2> QED
    BY <2>1, <2>2
<1>8. ASSUME NEW m \in rvArgs, RequestVote(m) PROVE PersistStep
  <2>1. CASE RequestVoteExpire(m)
    BY <1>2, <2>1, OneServerPersists DEF RequestVoteExpire, persist
  <2>2. CASE RequestVoteCurrent(m)
    <3>1. \A b \in ballots' : b.voter # m.to => b \in ballots
      BY <2>2 DEF RequestVoteCurrent
    <3>2. raftState' = [raftState EXCEPT ![m.to] = persistData(m.to)]
          /\ UNCHANGED <<m_logs, m_lastSnapshotIncludeIndex>>
      BY <2>2 DEF RequestVoteCurrent, persist
    <3> QED
      BY <1>2, <3>1, <3>2, OneServerPersists
  <2> QED
    BY <1>8, <2>1, <2>2 DEF RequestVote
<1>9. ASSUME NEW m \in rvReply, sendRequestVote(m) PROVE PersistStep
  <2>1. CASE VoteHigherTerm(m)
    BY <1>2, <2>1, OneServerPersists DEF VoteHigherTerm, persist
  <2>2. CASE VoteIgnored(m) \/ VoteCounted(m)
    BY <2>2, NothingToPersist DEF VoteIgnored, VoteCounted
  <2>3. CASE VoteWins(m) /\ m_status[m.to] = Leader
    BY <2>3, NothingToPersist DEF VoteWins, Exit
  <2>4. CASE VoteWins(m) /\ m_status[m.to] # Leader
    BY <1>2, <2>4, OneServerPersists DEF VoteWins, persist
  <2> QED
    BY <1>9, <2>1, <2>2, <2>3, <2>4 DEF sendRequestVote
<1>10. ASSUME NEW m \in aeArgs, AppendEntries(m) PROVE PersistStep
  <2>1. CASE AppendEntriesStale(m) \/ AppendEntriesBelowSnapshot(m)
    BY <2>1, NothingToPersist DEF AppendEntriesStale, AppendEntriesBelowSnapshot, Exit
  <2>2. CASE AppendEntriesTooNew(m) \/ AppendEntriesMismatch(m)
    BY <1>2, <2>2, OneServerPersists DEF AppendEntriesTooNew, AppendEntriesMismatch, persist
  <2>3. CASE AppendEntriesMatch(m) /\ Exit(m.to)
    BY <2>3, NothingToPersist DEF Exit
  <2>4. CASE AppendEntriesMatch(m) /\ ~Exit(m.to)
    BY <1>1, <1>2, <2>4, OneServerPersists DEF AppendEntriesMatch, persist
  <2> QED
    BY <1>10, <2>1, <2>2, <2>3, <2>4 DEF AppendEntries
<1>11. ASSUME NEW m \in aeReply, sendAppendEntries(m) PROVE PersistStep
  BY <1>11, NothingToPersist DEF sendAppendEntries, AppendHigherTerm, AppendIgnored, AppendRefused,
     AppendAccepted, Exit
<1>12. ASSUME NEW m \in isArgs, InstallSnapshot(m) PROVE PersistStep
  <2>1. CASE InstallSnapshotStale(m)
    BY <2>1, NothingToPersist DEF InstallSnapshotStale
  <2>2. CASE InstallSnapshotOutdated(m)
    BY <1>2, <2>2, OneServerPersists, NothingToPersist DEF InstallSnapshotOutdated, persist
  <2>3. CASE InstallSnapshotInstall(m)
    BY <1>1, <1>2, <2>3, OneServerPersists DEF InstallSnapshotInstall, Save
  <2> QED
    BY <1>12, <2>1, <2>2, <2>3 DEF InstallSnapshot
<1>13. ASSUME NEW m \in isReply, SendSnapshotReturns(m) PROVE PersistStep
  <2>1. CASE SnapshotIgnored(m) \/ SnapshotAccepted(m)
    BY <2>1, NothingToPersist DEF SnapshotIgnored, SnapshotAccepted
  <2>2. CASE SnapshotHigherTerm(m)
    BY <1>2, <2>2, OneServerPersists DEF SnapshotHigherTerm, persist
  <2> QED
    BY <1>13, <2>1, <2>2 DEF SendSnapshotReturns
<1>14. CASE CallFails
  BY <1>14, NothingToPersist DEF CallFails
<1> QED
  BY <1>3, <1>4, <1>5, <1>6, <1>7, <1>8, <1>9, <1>10, <1>11, <1>12, <1>13, <1>14 DEF Next, ServerStep

\* Every step keeps StatePersisted.
LEMMA PersistedStep ==
    ASSUME TypeOK, TypeOK', ElectInv', StatePersisted, PersistStep
    PROVE  StatePersisted'
<1>1. ASSUME NEW b \in ballots'
      PROVE  \/ raftState'[b.voter].m_currentTerm > b.term
             \/ /\ raftState'[b.voter].m_currentTerm = b.term
                /\ raftState'[b.voter].m_votedFor = b.candidate
  <2>1. b.voter \in Server /\ b.term \in Int /\ m_currentTerm'[b.voter] \in Int
    <3>1. b \in [voter : Server, term : 1..MaxTerm, candidate : Server]
      BY DEF TypeOK, HistoryTypes
    <3>2. m_currentTerm' \in [Server -> 0..MaxTerm]
      BY DEF TypeOK, MemberTypes
    <3> QED
      BY <3>1, <3>2
  <2>2. CASE raftState'[b.voter] = persistData(b.voter)
    <3>1. /\ raftState'[b.voter].m_currentTerm = m_currentTerm'[b.voter]
          /\ raftState'[b.voter].m_votedFor = m_votedFor'[b.voter]
      BY <2>2 DEF persistData
    <3>2. /\ b.term <= m_currentTerm'[b.voter]
          /\ b.term = m_currentTerm'[b.voter] => m_votedFor'[b.voter] = b.candidate
      BY DEF ElectInv, VotesRecorded
    <3> QED
      BY <2>1, <3>1, <3>2
  <2>3. CASE raftState'[b.voter] = raftState[b.voter] /\ b \in ballots
    BY <2>3 DEF StatePersisted
  <2> QED
    BY <2>1, <2>2, <2>3 DEF PersistStep
<1>2. ASSUME NEW s \in Server
      PROVE  /\ raftState'[s].m_logs = m_logs'[s]
             /\ raftState'[s].m_lastSnapshotIncludeIndex = m_lastSnapshotIncludeIndex'[s]
  <2>1. CASE raftState'[s] = persistData(s)
    BY <2>1 DEF persistData
  <2>2. CASE /\ raftState'[s] = raftState[s] /\ m_logs'[s] = m_logs[s]
             /\ m_lastSnapshotIncludeIndex'[s] = m_lastSnapshotIncludeIndex[s]
    BY <2>2 DEF StatePersisted
  <2> QED
    BY <2>1, <2>2 DEF PersistStep
<1> QED
  BY <1>1, <1>2 DEF StatePersisted

\* Votes and log are in the raft state file when a handler releases m_mtx, even
\* though stepping down on an AppendEntries answer is not persisted.
THEOREM VotesAndLogOnDisk == Spec => []StatePersisted
<1>1. Init => StatePersisted
  BY DEF Init, StatePersisted, EmptyState
<1>2. TypeOK /\ TypeOK' /\ ElectInv' /\ StatePersisted /\ [Next]_vars => StatePersisted'
  BY EveryStepPersists, PersistedStep
<1> QED
  BY <1>1, <1>2, VotesCounted, WellTyped, PTL DEF Spec
-----------------------------------------------------------------------------
(* A leader only appends *)

\* What s, leader before and after a step, does with its term and its log.
LeaderKeeps(s) ==
    /\ m_currentTerm'[s] = m_currentTerm[s]
    /\ m_lastSnapshotIncludeIndex'[s] + Len(m_logs'[s]) >= m_lastSnapshotIncludeIndex[s] + Len(m_logs[s])
    /\ \A k \in 1..Len(m_logs[s]) :
          LET j == m_lastSnapshotIncludeIndex[s] + k - m_lastSnapshotIncludeIndex'[s] IN
          j >= 1 => j <= Len(m_logs'[s]) /\ m_logs'[s][j] = m_logs[s][k]

\* Term and log of s stay as they are.
Untouched(s) ==
    /\ m_currentTerm'[s] = m_currentTerm[s]
    /\ m_logs'[s] = m_logs[s]
    /\ m_lastSnapshotIncludeIndex'[s] = m_lastSnapshotIncludeIndex[s]

\* A step touches the term and the log of one server at most, and that of a
\* server that stays leader only by Start and Snapshot.
LocalStep ==
    \E a \in Server :
        /\ \A d \in Server \ {a} : Untouched(d)
        /\ \/ m_status[a] # Leader \/ m_status'[a] # Leader
           \/ Untouched(a)
           \/ \E c \in Command : Start(a, c)
           \/ \E i \in 1..MaxSnapshotIndex : Snapshot(a, i) /\ HoldsIndex(a, i)

\* A step that changes no term, log or snapshot is local.
LEMMA NothingTouched ==
    ASSUME UNCHANGED <<m_currentTerm, m_logs, m_lastSnapshotIncludeIndex>>
    PROVE  LocalStep
<1>1. PICK a \in Server : TRUE
  BY ServerAssumption
<1> QED
  BY <1>1 DEF LocalStep, Untouched

\* Handlers that follow a term may rewrite the log of a server that is no leader.
LEMMA FollowLocal ==
    ASSUME TypeOK, NEW a \in Server, NEW term, StepDown(a, term) \/ FollowTerm(a, term),
           \A d \in Server \ {a} : m_logs'[d] = m_logs[d]
                                   /\ m_lastSnapshotIncludeIndex'[d] = m_lastSnapshotIncludeIndex[d]
    PROVE  LocalStep
<1>1. m_currentTerm \in [Server -> 0..MaxTerm] /\ m_status \in [Server -> {Follower, Candidate, Leader}]
  BY DEF TypeOK, MemberTypes
<1>2. m_status'[a] # Leader
  BY <1>1 DEF StepDown, FollowTerm, Follower, Leader
<1>3. \A d \in Server \ {a} : m_currentTerm'[d] = m_currentTerm[d]
  BY <1>1 DEF StepDown, FollowTerm, termVars
<1> QED
  BY <1>2, <1>3 DEF LocalStep, Untouched

\* A step changes the log of one server at most.
LEMMA EveryStepLocal ==
    ASSUME TypeOK, [Next]_vars
    PROVE  LocalStep
<1> USE DEF memory, workVars, logVars, termVars
<1>1. /\ m_logs \in [Server -> Seq(Entry)] /\ m_lastSnapshotIncludeIndex \in [Server -> Nat]
      /\ m_currentTerm \in [Server -> 0..MaxTerm] /\ m_status \in [Server -> {Follower, Candidate, Leader}]
  BY DEF TypeOK, LogTypes, MemberTypes
<1>2. /\ \A m \in rvArgs : m.to \in Server
      /\ \A m \in rvReply : m.to \in Server
      /\ \A m \in aeArgs : m.to \in Server
      /\ \A m \in aeReply : m.to \in Server
      /\ \A m \in isArgs : m.to \in Server
      /\ \A m \in isReply : m.to \in Server
  BY DEF TypeOK, CallTypes, VoteArgsType, VoteReplyType, AppendArgsType, AppendReplyType,
     SnapshotArgsType, SnapshotReplyType
<1>3. CASE UNCHANGED vars
  BY <1>3, NothingTouched DEF vars
<1>4. ASSUME NEW s \in Server, doElection(s) PROVE LocalStep
  <2>1. /\ m_status[s] # Leader
        /\ \A d \in Server \ {s} : Untouched(d)
    BY <1>1, <1>4 DEF doElection, Untouched
  <2> QED
    BY <2>1 DEF LocalStep
<1>5. ASSUME NEW s \in Server, NEW c \in Command, Start(s, c) PROVE LocalStep
  <2>1. \A d \in Server \ {s} : Untouched(d)
    BY <1>1, <1>5 DEF Start, Untouched
  <2> QED
    BY <1>5, <2>1 DEF LocalStep
<1>6. ASSUME NEW s \in Server,
             \/ \E r \in Round : doHeartBeat(s, r)
             \/ applierTicker(s)
             \/ \E d \in Server : leaderSendSnapShot(s, d)
      PROVE  LocalStep
  BY <1>6, NothingTouched DEF doHeartBeat, applierTicker, leaderSendSnapShot, Exit
<1>7. ASSUME NEW s \in Server, NEW i \in 1..MaxSnapshotIndex, Snapshot(s, i) PROVE LocalStep
  <2>1. CASE HoldsIndex(s, i)
    <3>1. \A d \in Server \ {s} : Untouched(d)
      BY <1>1, <1>7, <2>1 DEF Snapshot, Untouched
    <3> QED
      BY <1>7, <2>1, <3>1 DEF LocalStep
  <2>2. CASE ~HoldsIndex(s, i)
    BY <1>7, <2>2, NothingTouched DEF Snapshot, Exit
  <2> QED
    BY <2>1, <2>2
<1>8. ASSUME NEW m \in rvArgs, RequestVote(m) PROVE LocalStep
  <2>1. CASE RequestVoteExpire(m)
    BY <2>1, NothingTouched DEF RequestVoteExpire
  <2>2. CASE RequestVoteCurrent(m)
    <3>1. m.term \in Int /\ m_currentTerm[m.to] \in Int
      BY <1>1, <1>2 DEF TypeOK, CallTypes, VoteArgsType
    <3>2. \A d \in Server \ {m.to} : Untouched(d)
      BY <1>1, <2>2 DEF RequestVoteCurrent, Untouched
    <3>3. m.term > m_currentTerm[m.to] => m_status'[m.to] # Leader
      BY <1>1, <1>2, <2>2 DEF RequestVoteCurrent, Follower, Leader
    <3>4. ~(m.term > m_currentTerm[m.to]) => Untouched(m.to)
      BY <1>1, <1>2, <2>2, <3>1 DEF RequestVoteCurrent, Untouched
    <3> QED
      BY <1>2, <3>2, <3>3, <3>4 DEF LocalStep
  <2> QED
    BY <1>8, <2>1, <2>2 DEF RequestVote
<1>9. ASSUME NEW m \in rvReply, sendRequestVote(m) PROVE LocalStep
  <2>1. CASE VoteHigherTerm(m)
    BY <1>2, <2>1, FollowLocal DEF VoteHigherTerm
  <2>2. CASE VoteIgnored(m) \/ VoteCounted(m) \/ VoteWins(m)
    BY <2>2, NothingTouched DEF VoteIgnored, VoteCounted, VoteWins, Exit
  <2> QED
    BY <1>9, <2>1, <2>2 DEF sendRequestVote
<1>10. ASSUME NEW m \in aeArgs, AppendEntries(m) PROVE LocalStep
  <2>1. CASE AppendEntriesStale(m) \/ AppendEntriesBelowSnapshot(m)
    BY <2>1, NothingTouched DEF AppendEntriesStale, AppendEntriesBelowSnapshot, Exit
  <2>2. CASE AppendEntriesTooNew(m) \/ AppendEntriesMismatch(m)
    BY <1>2, <2>2, FollowLocal DEF AppendEntriesTooNew, AppendEntriesMismatch
  <2>3. CASE AppendEntriesMatch(m) /\ Exit(m.to)
    BY <2>3, NothingTouched DEF Exit
  <2>4. CASE AppendEntriesMatch(m) /\ ~Exit(m.to)
    <3>1. FollowTerm(m.to, m.term)
      BY <2>4 DEF AppendEntriesMatch
    <3>2. \A d \in Server \ {m.to} : m_logs'[d] = m_logs[d]
             /\ m_lastSnapshotIncludeIndex'[d] = m_lastSnapshotIncludeIndex[d]
      BY <1>1, <2>4 DEF AppendEntriesMatch
    <3> QED
      BY <1>2, <3>1, <3>2, FollowLocal
  <2> QED
    BY <1>10, <2>1, <2>2, <2>3, <2>4 DEF AppendEntries
<1>11. ASSUME NEW m \in aeReply, sendAppendEntries(m) PROVE LocalStep
  <2>1. CASE AppendHigherTerm(m)
    BY <1>2, <2>1, FollowLocal DEF AppendHigherTerm
  <2>2. CASE AppendIgnored(m) \/ AppendRefused(m) \/ AppendAccepted(m)
    BY <2>2, NothingTouched DEF AppendIgnored, AppendRefused, AppendAccepted, Exit
  <2> QED
    BY <1>11, <2>1, <2>2 DEF sendAppendEntries
<1>12. ASSUME NEW m \in isArgs, InstallSnapshot(m) PROVE LocalStep
  <2>1. CASE InstallSnapshotStale(m)
    BY <2>1, NothingTouched DEF InstallSnapshotStale
  <2>2. CASE InstallSnapshotOutdated(m)
    BY <1>2, <2>2, FollowLocal DEF InstallSnapshotOutdated
  <2>3. CASE InstallSnapshotInstall(m)
    <3>1. FollowTerm(m.to, m.term)
      BY <2>3 DEF InstallSnapshotInstall
    <3>2. \A d \in Server \ {m.to} : m_logs'[d] = m_logs[d]
             /\ m_lastSnapshotIncludeIndex'[d] = m_lastSnapshotIncludeIndex[d]
      BY <1>1, <2>3 DEF InstallSnapshotInstall
    <3> QED
      BY <1>2, <3>1, <3>2, FollowLocal
  <2> QED
    BY <1>12, <2>1, <2>2, <2>3 DEF InstallSnapshot
<1>13. ASSUME NEW m \in isReply, SendSnapshotReturns(m) PROVE LocalStep
  <2>1. CASE SnapshotIgnored(m) \/ SnapshotAccepted(m)
    BY <2>1, NothingTouched DEF SnapshotIgnored, SnapshotAccepted
  <2>2. CASE SnapshotHigherTerm(m)
    BY <1>2, <2>2, FollowLocal DEF SnapshotHigherTerm
  <2> QED
    BY <1>13, <2>1, <2>2 DEF SendSnapshotReturns
<1>14. CASE CallFails
  BY <1>14, NothingTouched DEF CallFails
<1> QED
  BY <1>3, <1>4, <1>5, <1>6, <1>7, <1>8, <1>9, <1>10, <1>11, <1>12, <1>13, <1>14 DEF Next, ServerStep

\* A step in which s stays leader keeps every entry of s, in the log or in the snapshot.
LEMMA LeaderStep ==
    ASSUME TypeInv, [Next]_vars, NEW s \in Server, m_status[s] = Leader, m_status'[s] = Leader
    PROVE  LeaderKeeps(s)
<1> USE DEF TypeInv, TypeOK
<1>1. /\ m_logs \in [Server -> Seq(Entry)] /\ m_lastSnapshotIncludeIndex \in [Server -> Nat]
      /\ m_logs[s] \in Seq(Entry) /\ m_lastSnapshotIncludeIndex[s] \in Nat
      /\ getLastLogIndex(s) = m_lastSnapshotIncludeIndex[s] + Len(m_logs[s])
  BY LastIndex DEF LogTypes
<1>2. CASE Untouched(s)
  BY <1>1, <1>2 DEF Untouched, LeaderKeeps
<1>3. ASSUME NEW c \in Command, Start(s, c) PROVE LeaderKeeps(s)
  <2> DEFINE e == [command |-> c, logterm |-> m_currentTerm[s], logindex |-> getLastLogIndex(s) + 1]
             log == Append(m_logs[s], e)
  <2>1. /\ UNCHANGED m_currentTerm /\ UNCHANGED m_lastSnapshotIncludeIndex /\ m_logs'[s] = log
    BY <1>1, <1>3 DEF Start, termVars
  <2>2. Len(log) = Len(m_logs[s]) + 1 /\ \A k \in 1..Len(m_logs[s]) : log[k] = m_logs[s][k]
    BY <1>1
  <2> HIDE DEF log
  <2> QED
    BY <1>1, <2>1, <2>2 DEF LeaderKeeps
<1>4. ASSUME NEW i \in 1..MaxSnapshotIndex, Snapshot(s, i), HoldsIndex(s, i) PROVE LeaderKeeps(s)
  <2> DEFINE after == i - m_lastSnapshotIncludeIndex[s]
             log == SubSeq(m_logs[s], after + 1, Len(m_logs[s]))
  <2>1. i \in Nat /\ after \in 0..Len(m_logs[s]) /\ Len(m_logs[s]) \in Nat
    BY <1>1, <1>4, BoundAssumption DEF HoldsIndex
  <2>2. /\ UNCHANGED m_currentTerm /\ m_lastSnapshotIncludeIndex'[s] = i /\ m_logs'[s] = log
    BY <1>1, <1>4 DEF Snapshot, LogAfter, getSlicesIndexFromLogIndex, termVars
  <2>3. /\ Len(log) = Len(m_logs[s]) - after
        /\ \A k \in 1..(Len(m_logs[s]) - after) : log[k] = m_logs[s][after + k]
    <3> HIDE DEF after
    <3> QED
      BY <1>1, <2>1, Suffix
  <2> HIDE DEF log
  <2>4. ASSUME NEW k \in 1..Len(m_logs[s]), m_lastSnapshotIncludeIndex[s] + k - i >= 1
        PROVE  /\ m_lastSnapshotIncludeIndex[s] + k - i <= Len(log)
               /\ log[m_lastSnapshotIncludeIndex[s] + k - i] = m_logs[s][k]
    <3>1. m_lastSnapshotIncludeIndex[s] + k - i = k - after /\ k - after \in 1..(Len(m_logs[s]) - after)
      BY <1>1, <2>1, <2>4
    <3>2. after + (k - after) = k
      BY <1>1, <2>1
    <3> HIDE DEF after
    <3> QED
      BY <2>3, <3>1, <3>2, <2>1
  <2>5. i + Len(log) = m_lastSnapshotIncludeIndex[s] + Len(m_logs[s])
    BY <1>1, <2>1, <2>3
  <2> QED
    BY <1>1, <2>1, <2>2, <2>4, <2>5 DEF LeaderKeeps
<1> QED
  BY <1>2, <1>3, <1>4, EveryStepLocal DEF LocalStep

\* The formula LeaderAppendOnly asserts of every step.
AppendOnlyStep ==
    \A s \in Server : m_status[s] = Leader /\ m_status'[s] = Leader =>
        \A k \in 1..Len(m_logs[s]) :
            LET j == m_lastSnapshotIncludeIndex[s] + k - m_lastSnapshotIncludeIndex'[s] IN
            j >= 1 => j <= Len(m_logs'[s]) /\ m_logs'[s][j] = m_logs[s][k]

\* As long as a server stays leader no entry of its log is overwritten or lost:
\* each stays in place or goes into the leader's own snapshot.
THEOREM LeadersOnlyAppend == Spec => LeaderAppendOnly
<1>1. TypeInv /\ [Next]_vars => AppendOnlyStep
  BY LeaderStep DEF AppendOnlyStep, LeaderKeeps
<1>2. LeaderAppendOnly <=> [][AppendOnlyStep]_vars
  BY DEF LeaderAppendOnly, AppendOnlyStep
<1> QED
  BY <1>1, <1>2, TypeCorrect, PTL DEF Spec

-----------------------------------------------------------------------------
(* Entries agree *)

\* LogInv holds when the cluster starts.
LEMMA LogInvInit == Init => LogInv
BY DEF Init, LogInv, EntriesProposed, ProposedOnce, LeaderHoldsTerm, Follower, Leader

\* No election is forgotten.
LEMMA ElectedGrows ==
    ASSUME TypeOK, [Next]_vars
    PROVE  elected \subseteq elected'
<1>1. CASE OtherStep
  BY <1>1, OtherStepUntouched DEF VotesUntouched, voteVars
<1>2. ASSUME NEW s \in Server, doElection(s) PROVE elected \subseteq elected'
  BY <1>2 DEF doElection
<1>3. ASSUME NEW m \in rvArgs, RequestVote(m) PROVE elected \subseteq elected'
  BY <1>3 DEF RequestVote, RequestVoteExpire, RequestVoteCurrent, memory, workVars, voteVars
<1>4. ASSUME NEW m \in rvReply, VoteCounted(m) \/ VoteWins(m) PROVE elected \subseteq elected'
  BY <1>4 DEF VoteCounted, VoteWins, Exit, memory, workVars, voteVars
<1> QED
  BY <1>1, <1>2, <1>3, <1>4, NextCases

\* A server that becomes leader has won its term, and nobody had before.
LEMMA NewLeader ==
    ASSUME TypeOK, TypeOK', ElectInv, [Next]_vars, NEW s \in Server,
           m_status[s] # Leader, m_status'[s] = Leader
    PROVE  /\ \E w \in elected' : w.term = m_currentTerm'[s] /\ w.leader = s
           /\ \A f \in elected : f.term # m_currentTerm'[s]
           /\ proposed' = proposed
<1>1. m_status \in [Server -> {Follower, Candidate, Leader}] /\ m_currentTerm \in [Server -> 0..MaxTerm]
  BY DEF TypeOK, MemberTypes
<1>2. ~OtherStep
  BY OtherStepNoLeader DEF NoNewLeader
<1>3. ~\E m \in rvArgs : RequestVote(m)
  BY <1>1 DEF RequestVote, RequestVoteExpire, RequestVoteCurrent, memory, Follower, Leader
<1>4. ~\E m \in rvReply : VoteCounted(m)
  BY DEF VoteCounted
<1>5. ASSUME NEW d \in Server, doElection(d)
      PROVE  /\ \E w \in elected' : w.term = m_currentTerm'[s] /\ w.leader = s
             /\ \A f \in elected : f.term # m_currentTerm'[s]
             /\ proposed' = proposed
  <2>1. d = s /\ Server = {s}
    BY <1>1, <1>5 DEF doElection, BecomeLeader, Candidate, Leader
  <2>2. m_currentTerm'[s] = m_currentTerm[s] + 1 /\ m_currentTerm[s] \in Int
    BY <1>1, <1>5, <2>1 DEF doElection
  <2>3. [term |-> m_currentTerm[s] + 1, leader |-> s, votes |-> {s}] \in elected'
    BY <1>5, <2>1 DEF doElection
  <2>4. ASSUME NEW f \in elected PROVE f.term # m_currentTerm'[s]
    <3>1. f \in [term : 1..MaxTerm, leader : Server, votes : SUBSET Server]
      BY DEF TypeOK, HistoryTypes
    <3>2. f.term <= m_currentTerm[f.leader]
      BY DEF ElectInv, TermsReached
    <3> QED
      BY <2>1, <2>2, <3>1, <3>2
  <2> QED
    BY <1>5, <2>2, <2>3, <2>4 DEF doElection, logVars
<1>6. ASSUME NEW m \in rvReply, VoteWins(m)
      PROVE  /\ \E w \in elected' : w.term = m_currentTerm'[s] /\ w.leader = s
             /\ \A f \in elected : f.term # m_currentTerm'[s]
             /\ proposed' = proposed
  <2>1. m.to = s
    BY <1>1, <1>6 DEF VoteWins, BecomeLeader, Exit, memory
  <2>2. m_currentTerm'[s] = m.term
    BY <1>6, <2>1 DEF VoteWins, termVars
  <2>3. \A f \in elected : f.term # m.term
    BY <1>6, <2>1, VoteWinsKeepsElectInv
  <2>4. [term |-> m.term, leader |-> s, votes |-> votedNum[s][m.election] \cup {m.from}] \in elected'
    BY <1>6, <2>1 DEF VoteWins
  <2> QED
    BY <1>6, <2>1, <2>2, <2>3, <2>4 DEF VoteWins, logVars
<1> QED
  BY <1>2, <1>3, <1>4, <1>5, <1>6, NextCases

\* Logs and calls that hold nothing new.
LEMMA NoNewEntries ==
    ASSUME EntriesProposed, UNCHANGED m_logs, aeArgs' \subseteq aeArgs, proposed' = proposed
    PROVE  EntriesProposed'
BY DEF EntriesProposed

\* Replacing one log by one made of proposed entries keeps EntriesProposed.
LEMMA OneLogChanges ==
    ASSUME TypeOK, EntriesProposed, NEW s \in Server, NEW log, m_logs' = [m_logs EXCEPT ![s] = log],
           \A k \in 1..Len(log) : log[k] \in proposed',
           aeArgs' \subseteq aeArgs, proposed \subseteq proposed'
    PROVE  EntriesProposed'
<1>1. m_logs \in [Server -> Seq(Entry)]
  BY DEF TypeOK, LogTypes
<1>2. \A d \in Server : m_logs'[d] = IF d = s THEN log ELSE m_logs[d]
  BY <1>1
<1> QED
  BY <1>2 DEF EntriesProposed

\* A part of a log brings no entry of its own.
LEMMA LogAfterProposed ==
    ASSUME TypeInv, EntriesProposed, NEW s \in Server, NEW index \in Nat, HoldsIndex(s, index)
    PROVE  \A k \in 1..Len(LogAfter(s, index)) : LogAfter(s, index)[k] \in proposed
<1> DEFINE after == index - m_lastSnapshotIncludeIndex[s]
<1>1. /\ m_logs[s] \in Seq(Entry) /\ m_lastSnapshotIncludeIndex[s] \in Nat /\ Len(m_logs[s]) \in Nat
      /\ getLastLogIndex(s) = m_lastSnapshotIncludeIndex[s] + Len(m_logs[s])
  BY LastIndex DEF TypeInv, TypeOK, LogTypes
<1>2. after \in 0..Len(m_logs[s])
  BY <1>1 DEF HoldsIndex
<1>3. LogAfter(s, index) = SubSeq(m_logs[s], after + 1, Len(m_logs[s]))
  BY DEF LogAfter, getSlicesIndexFromLogIndex
<1> HIDE DEF after
<1>4. /\ Len(LogAfter(s, index)) = Len(m_logs[s]) - after
      /\ \A k \in 1..(Len(m_logs[s]) - after) : LogAfter(s, index)[k] = m_logs[s][after + k]
  BY <1>1, <1>2, <1>3, Suffix
<1>5. ASSUME NEW k \in 1..(Len(m_logs[s]) - after) PROVE m_logs[s][after + k] \in proposed
  <2>1. after + k \in 1..Len(m_logs[s])
    BY <1>1, <1>2
  <2> QED
    BY <2>1 DEF EntriesProposed
<1> QED
  BY <1>4, <1>5

\* Every step keeps EntriesProposed: logs are built from proposed entries only.
LEMMA EntriesProposedStep ==
    ASSUME TypeInv, EntriesProposed, [Next]_vars
    PROVE  EntriesProposed'
<1> USE DEF TypeInv, memory, workVars, logVars, voteNet, appendNet
<1>1. CASE UNCHANGED vars
  BY <1>1, NoNewEntries DEF vars
<1>2. ASSUME NEW s \in Server,
             \/ doElection(s)
             \/ applierTicker(s)
             \/ \E d \in Server : leaderSendSnapShot(s, d)
      PROVE  EntriesProposed'
  BY <1>2, NoNewEntries DEF doElection, applierTicker, leaderSendSnapShot, Exit
<1>3. ASSUME NEW s \in Server, NEW c \in Command, Start(s, c) PROVE EntriesProposed'
  <2> DEFINE e == [command |-> c, logterm |-> m_currentTerm[s], logindex |-> getLastLogIndex(s) + 1]
             log == Append(m_logs[s], e)
  <2>1. /\ m_logs' = [m_logs EXCEPT ![s] = log] /\ proposed' = proposed \cup {e} /\ aeArgs' = aeArgs
    BY <1>3 DEF Start
  <2>2. m_logs[s] \in Seq(Entry)
    BY DEF TypeOK, LogTypes
  <2>3. /\ Len(log) = Len(m_logs[s]) + 1 /\ log[Len(m_logs[s]) + 1] = e
        /\ \A k \in 1..Len(m_logs[s]) : log[k] = m_logs[s][k]
    <3> HIDE DEF e
    <3> QED
      BY <2>2
  <2> HIDE DEF e, log
  <2>4. \A k \in 1..Len(log) : log[k] \in proposed'
    <3>1. TAKE k \in 1..Len(log)
    <3>2. k \in 1..Len(m_logs[s]) \/ k = Len(m_logs[s]) + 1
      BY <2>2, <2>3
    <3>3. CASE k \in 1..Len(m_logs[s])
      BY <2>1, <2>3, <3>3 DEF EntriesProposed
    <3>4. CASE k = Len(m_logs[s]) + 1
      BY <2>1, <2>3, <3>4
    <3> QED
      BY <3>2, <3>3, <3>4
  <2> QED
    BY <2>1, <2>4, OneLogChanges
<1>4. ASSUME NEW s \in Server, NEW r \in Round, doHeartBeat(s, r) PROVE EntriesProposed'
  <2> DEFINE peers == Server \ {s}
             Built == {AppendEntriesArgs(s, d, r) : d \in {p \in peers : ~NeedsSnapshot(s, p)}}
             ready == \A d \in peers : /\ m_nextIndex[s][d] >= 1
                                       /\ NeedsSnapshot(s, d) \/ HoldsIndex(s, m_nextIndex[s][d] - 1)
  <2>1. UNCHANGED <<m_logs, proposed>>
    BY <1>4 DEF doHeartBeat, Exit
  <2>2. CASE ~ready
    BY <1>4, <2>1, <2>2, NoNewEntries DEF doHeartBeat
  <2>3. CASE ready
    <3>1. ASSUME NEW d \in peers, ~NeedsSnapshot(s, d)
          PROVE  \A k \in 1..Len(AppendEntriesArgs(s, d, r).entries) :
                     AppendEntriesArgs(s, d, r).entries[k] \in proposed
      <4> DEFINE prev == m_nextIndex[s][d] - 1
      <4>1. m_nextIndex[s] \in [Server -> Int]
        BY DEF TypeOK, MemberTypes
      <4>2. HoldsIndex(s, prev) /\ prev \in Nat
        BY <2>3, <3>1, <4>1
      <4>3. AppendEntriesArgs(s, d, r).entries = LogAfter(s, prev)
        BY DEF AppendEntriesArgs, LogAfter, getSlicesIndexFromLogIndex
      <4> HIDE DEF prev
      <4> QED
        BY <4>2, <4>3, LogAfterProposed
    <3>2. aeArgs' = aeArgs \cup Built
      BY <1>4, <2>3 DEF doHeartBeat
    <3>3. \A m \in Built : \A k \in 1..Len(m.entries) : m.entries[k] \in proposed
      BY <3>1
    <3> HIDE DEF Built
    <3> QED
      BY <2>1, <3>2, <3>3 DEF EntriesProposed
  <2> QED
    BY <2>2, <2>3
<1>5. ASSUME NEW s \in Server, NEW i \in 1..MaxSnapshotIndex, Snapshot(s, i) PROVE EntriesProposed'
  <2>1. CASE HoldsIndex(s, i)
    <3>1. i \in Nat
      BY BoundAssumption
    <3>2. \A k \in 1..Len(LogAfter(s, i)) : LogAfter(s, i)[k] \in proposed
      BY <2>1, <3>1, LogAfterProposed
    <3>3. m_logs' = [m_logs EXCEPT ![s] = LogAfter(s, i)] /\ UNCHANGED <<proposed, aeArgs>>
      BY <1>5, <2>1 DEF Snapshot
    <3> QED
      BY <3>2, <3>3, OneLogChanges
  <2>2. CASE ~HoldsIndex(s, i)
    BY <1>5, <2>2, NoNewEntries DEF Snapshot, Exit
  <2> QED
    BY <2>1, <2>2
<1>6. ASSUME NEW m \in rvArgs, RequestVote(m) PROVE EntriesProposed'
  BY <1>6, NoNewEntries DEF RequestVote, RequestVoteExpire, RequestVoteCurrent
<1>7. ASSUME NEW m \in rvReply, sendRequestVote(m) PROVE EntriesProposed'
  BY <1>7, NoNewEntries DEF sendRequestVote, VoteHigherTerm, VoteIgnored, VoteCounted, VoteWins, Exit
<1>8. ASSUME NEW m \in aeArgs, AppendEntries(m) PROVE EntriesProposed'
  <2>1. CASE AppendEntriesMatch(m) /\ UNCHANGED m_logs
    BY <2>1, NoNewEntries DEF AppendEntriesMatch, AnswerAppend, Exit
  <2>2. CASE AppendEntriesMatch(m) /\ ~UNCHANGED m_logs
    <3> DEFINE s == m.to
               after == m.prevlogindex - m_lastSnapshotIncludeIndex[s]
               log == MergeEntries(m_logs[s], after, m.entries)
    <3>1. m \in AppendArgsType
      BY DEF TypeOK, CallTypes
    <3>2. s \in Server /\ m.prevlogindex \in Nat /\ m.entries \in Seq(Entry)
      BY <3>1 DEF AppendArgsType
    <3>3. /\ m_logs[s] \in Seq(Entry) /\ m_lastSnapshotIncludeIndex[s] \in Nat /\ Len(m_logs[s]) \in Nat
          /\ getLastLogIndex(s) = m_lastSnapshotIncludeIndex[s] + Len(m_logs[s])
      BY <3>2, LastIndex DEF TypeOK, LogTypes
    <3>4. after \in 0..Len(m_logs[s])
      BY <2>2, <3>2, <3>3 DEF AppendEntriesMatch, HoldsIndex
    <3>5. m_logs' = [m_logs EXCEPT ![s] = log] /\ proposed' = proposed /\ aeArgs' = aeArgs \ {m}
      BY <2>2 DEF AppendEntriesMatch, AnswerAppend, Exit
    <3> HIDE DEF after
    <3>6. \A k \in 1..Len(log) : \/ k \in 1..Len(m_logs[s]) /\ log[k] = m_logs[s][k]
                                 \/ k - after \in 1..Len(m.entries) /\ log[k] = m.entries[k - after]
      BY <3>2, <3>3, <3>4, MergeProperties
    <3> HIDE DEF log
    <3>7. \A k \in 1..Len(log) : log[k] \in proposed'
      BY <3>2, <3>5, <3>6 DEF EntriesProposed
    <3> QED
      BY <3>2, <3>5, <3>7, OneLogChanges
  <2>3. CASE \/ AppendEntriesStale(m) \/ AppendEntriesTooNew(m) \/ AppendEntriesBelowSnapshot(m)
             \/ AppendEntriesMismatch(m)
    BY <2>3, NoNewEntries DEF AppendEntriesStale, AppendEntriesTooNew, AppendEntriesBelowSnapshot,
       AppendEntriesMismatch, AnswerAppend, Exit
  <2> QED
    BY <1>8, <2>1, <2>2, <2>3 DEF AppendEntries
<1>9. ASSUME NEW m \in aeReply, sendAppendEntries(m) PROVE EntriesProposed'
  BY <1>9, NoNewEntries DEF sendAppendEntries, AppendHigherTerm, AppendIgnored, AppendRefused,
     AppendAccepted, Exit
<1>10. ASSUME NEW m \in isArgs, InstallSnapshot(m) PROVE EntriesProposed'
  <2>1. CASE InstallSnapshotStale(m) \/ InstallSnapshotOutdated(m)
    BY <2>1, NoNewEntries DEF InstallSnapshotStale, InstallSnapshotOutdated
  <2>2. CASE InstallSnapshotInstall(m)
    <3> DEFINE s == m.to
               index == m.lastsnapshotincludeindex
               log == IF getLastLogIndex(s) > index THEN LogAfter(s, index) ELSE <<>>
    <3>1. s \in Server /\ index \in Nat
      BY DEF TypeOK, CallTypes, SnapshotArgsType
    <3>2. /\ m_lastSnapshotIncludeIndex[s] \in Nat /\ Len(m_logs[s]) \in Nat
          /\ getLastLogIndex(s) = m_lastSnapshotIncludeIndex[s] + Len(m_logs[s])
      BY <3>1, LastIndex DEF TypeOK, LogTypes
    <3>3. /\ index > m_lastSnapshotIncludeIndex[s]
          /\ m_logs' = [m_logs EXCEPT ![s] = log] /\ UNCHANGED <<proposed, aeArgs>>
      BY <2>2 DEF InstallSnapshotInstall
    <3>4. getLastLogIndex(s) > index => HoldsIndex(s, index)
      BY <3>1, <3>2, <3>3 DEF HoldsIndex
    <3>5. \A k \in 1..Len(log) : log[k] \in proposed
      <4>1. CASE getLastLogIndex(s) > index
        <5> HIDE DEF s, index
        <5> QED
          BY <3>1, <3>4, <4>1, LogAfterProposed
      <4>2. CASE ~(getLastLogIndex(s) > index)
        BY <4>2
      <4> QED
        BY <4>1, <4>2
    <3> HIDE DEF log
    <3> QED
      BY <3>1, <3>3, <3>5, OneLogChanges
  <2> QED
    BY <1>10, <2>1, <2>2 DEF InstallSnapshot
<1>11. ASSUME NEW m \in isReply, SendSnapshotReturns(m) PROVE EntriesProposed'
  BY <1>11, NoNewEntries DEF SendSnapshotReturns, SnapshotIgnored, SnapshotHigherTerm, SnapshotAccepted
<1>12. CASE CallFails
  BY <1>12, NoNewEntries DEF CallFails
<1> QED
  BY <1>1, <1>2, <1>3, <1>4, <1>5, <1>6, <1>7, <1>8, <1>9, <1>10, <1>11, <1>12 DEF Next, ServerStep

\* The entry Start makes, and that no other step makes one.
LEMMA OnlyStartProposes ==
    ASSUME TypeInv, [Next]_vars
    PROVE  \/ proposed' = proposed
           \/ \E s \in Server, c \in Command :
                 /\ Start(s, c)
                 /\ proposed' = proposed \cup {[command |-> c, logterm |-> m_currentTerm[s],
                                                logindex |-> m_lastSnapshotIncludeIndex[s] + Len(m_logs[s]) + 1]}
<1> USE DEF memory, workVars, logVars
<1>1. ASSUME NEW s \in Server, NEW c \in Command, Start(s, c)
      PROVE  proposed' = proposed \cup {[command |-> c, logterm |-> m_currentTerm[s],
                                         logindex |-> m_lastSnapshotIncludeIndex[s] + Len(m_logs[s]) + 1]}
  <2>1. getLastLogIndex(s) = m_lastSnapshotIncludeIndex[s] + Len(m_logs[s])
    BY LastIndex DEF TypeInv, TypeOK
  <2> QED
    BY <1>1, <2>1 DEF Start
<1>2. ASSUME NEW s \in Server,
             \/ doElection(s) \/ applierTicker(s) \/ \E d \in Server : leaderSendSnapShot(s, d)
             \/ \E r \in Round : doHeartBeat(s, r)
             \/ \E i \in 1..MaxSnapshotIndex : Snapshot(s, i)
      PROVE  proposed' = proposed
  BY <1>2 DEF doElection, applierTicker, leaderSendSnapShot, doHeartBeat, Snapshot, Exit
<1>3. (\E m \in rvArgs : RequestVote(m)) => proposed' = proposed
  BY DEF RequestVote, RequestVoteExpire, RequestVoteCurrent
<1>4. (\E m \in rvReply : sendRequestVote(m)) => proposed' = proposed
  BY DEF sendRequestVote, VoteHigherTerm, VoteIgnored, VoteCounted, VoteWins, Exit
<1>5. (\E m \in aeArgs : AppendEntries(m)) => proposed' = proposed
  BY DEF AppendEntries, AppendEntriesStale, AppendEntriesTooNew, AppendEntriesBelowSnapshot,
     AppendEntriesMatch, AppendEntriesMismatch, Exit
<1>6. (\E m \in aeReply : sendAppendEntries(m)) => proposed' = proposed
  BY DEF sendAppendEntries, AppendHigherTerm, AppendIgnored, AppendRefused, AppendAccepted, Exit
<1>7. (\E m \in isArgs : InstallSnapshot(m)) => proposed' = proposed
  BY DEF InstallSnapshot, InstallSnapshotStale, InstallSnapshotOutdated, InstallSnapshotInstall
<1>8. (\E m \in isReply : SendSnapshotReturns(m)) => proposed' = proposed
  BY DEF SendSnapshotReturns, SnapshotIgnored, SnapshotHigherTerm, SnapshotAccepted
<1>9. CallFails \/ UNCHANGED vars => proposed' = proposed
  BY DEF CallFails, vars
<1> QED
  BY <1>1, <1>2, <1>3, <1>4, <1>5, <1>6, <1>7, <1>8, <1>9 DEF Next, ServerStep

\* Two leaders of one term are the same server.
LEMMA OneLeader ==
    ASSUME ElectInv, LeaderHoldsTerm, NEW s \in Server, NEW d \in Server,
           m_status[s] = Leader, m_status[d] = Leader, m_currentTerm[s] = m_currentTerm[d]
    PROVE  s = d
BY DEF ElectInv, ElectionSafety, LeaderHoldsTerm

\* Every step keeps LogInv.
LEMMA LogInvStep ==
    ASSUME TypeInv, TypeInv', ElectInv, LogInv, [Next]_vars
    PROVE  LogInv'
<1> USE DEF LogInv
<1>1. EntriesProposed'
  BY EntriesProposedStep
<1>2. TypeOK /\ TypeOK' /\ elected \subseteq elected'
  BY ElectedGrows DEF TypeInv
<1>3. \A e \in proposed : e.logindex \in Int /\ e.logterm \in Int
  BY <1>2 DEF TypeOK, HistoryTypes, Entry
<1>4. ASSUME NEW s \in Server
      PROVE  m_lastSnapshotIncludeIndex[s] + Len(m_logs[s]) \in Int
             /\ m_lastSnapshotIncludeIndex'[s] + Len(m_logs'[s]) \in Int
  <2>1. m_logs[s] \in Seq(Entry) /\ m_lastSnapshotIncludeIndex[s] \in Nat
        /\ m_logs'[s] \in Seq(Entry) /\ m_lastSnapshotIncludeIndex'[s] \in Nat
    BY <1>2 DEF TypeOK, LogTypes
  <2> QED
    BY <2>1
<1>5. CASE proposed' = proposed
  <2>1. ProposedOnce'
    BY <1>2, <1>5 DEF ProposedOnce
  <2>2. ASSUME NEW s \in Server, m_status'[s] = Leader
        PROVE  /\ \E w \in elected' : w.term = m_currentTerm'[s] /\ w.leader = s
               /\ \A e \in proposed' : e.logterm = m_currentTerm'[s] =>
                     e.logindex <= m_lastSnapshotIncludeIndex'[s] + Len(m_logs'[s])
    <3>1. CASE m_status[s] = Leader
      <4>1. LeaderKeeps(s)
        BY <2>2, <3>1, LeaderStep
      <4>2. m_currentTerm'[s] = m_currentTerm[s]
            /\ m_lastSnapshotIncludeIndex'[s] + Len(m_logs'[s]) >= m_lastSnapshotIncludeIndex[s] + Len(m_logs[s])
        BY <4>1 DEF LeaderKeeps
      <4>3. \A e \in proposed : e.logterm = m_currentTerm[s] =>
               e.logindex <= m_lastSnapshotIncludeIndex[s] + Len(m_logs[s])
        BY <3>1 DEF LeaderHoldsTerm
      <4>4. \A e \in proposed' : e.logterm = m_currentTerm'[s] =>
               e.logindex <= m_lastSnapshotIncludeIndex'[s] + Len(m_logs'[s])
        BY <1>3, <1>4, <1>5, <4>2, <4>3
      <4> QED
        BY <1>2, <3>1, <4>2, <4>4 DEF LeaderHoldsTerm
    <3>2. CASE m_status[s] # Leader
      <4>1. /\ \E w \in elected' : w.term = m_currentTerm'[s] /\ w.leader = s
            /\ \A f \in elected : f.term # m_currentTerm'[s]
        BY <1>2, <2>2, <3>2, NewLeader
      <4>2. \A e \in proposed : e.logterm # m_currentTerm'[s]
        BY <4>1 DEF ProposedOnce
      <4> QED
        BY <1>5, <4>1, <4>2
    <3> QED
      BY <3>1, <3>2
  <2>3. LeaderHoldsTerm'
    BY <2>2 DEF LeaderHoldsTerm
  <2> QED
    BY <1>1, <2>1, <2>3
<1>6. ASSUME NEW s \in Server, NEW c \in Command, Start(s, c),
             proposed' = proposed \cup {[command |-> c, logterm |-> m_currentTerm[s],
                                         logindex |-> m_lastSnapshotIncludeIndex[s] + Len(m_logs[s]) + 1]}
      PROVE  LogInv'
  <2> DEFINE e == [command |-> c, logterm |-> m_currentTerm[s],
                   logindex |-> m_lastSnapshotIncludeIndex[s] + Len(m_logs[s]) + 1]
  <2>1. /\ e.logterm = m_currentTerm[s] /\ proposed' = proposed \cup {e}
        /\ e.logindex = m_lastSnapshotIncludeIndex[s] + Len(m_logs[s]) + 1
    BY <1>6
  <2> HIDE DEF e
  <2>2. m_status[s] = Leader /\ UNCHANGED <<m_status, m_currentTerm, elected, m_lastSnapshotIncludeIndex>>
    BY <1>6 DEF Start, termVars, voteVars
  <2>3. \A f \in proposed : f.logterm = m_currentTerm[s] =>
           f.logindex <= m_lastSnapshotIncludeIndex[s] + Len(m_logs[s])
    BY <2>2 DEF LeaderHoldsTerm
  <2>4. \A f \in proposed : ~(f.logterm = e.logterm /\ f.logindex = e.logindex)
    BY <1>3, <1>4, <2>1, <2>3
  <2>5. \E w \in elected : w.term = m_currentTerm[s] /\ w.leader = s
    BY <2>2 DEF LeaderHoldsTerm
  <2>6. ProposedOnce'
    BY <2>1, <2>2, <2>4, <2>5 DEF ProposedOnce
  <2>7. m_lastSnapshotIncludeIndex'[s] + Len(m_logs'[s]) >= e.logindex
    <3>1. m_logs \in [Server -> Seq(Entry)] /\ m_lastSnapshotIncludeIndex[s] \in Nat
      BY <1>2 DEF TypeOK, LogTypes
    <3>2. Len(m_logs'[s]) = Len(m_logs[s]) + 1
      BY <1>6, <3>1 DEF Start
    <3> QED
      BY <2>1, <2>2, <3>1, <3>2
  <2>8. ASSUME NEW d \in Server, m_status'[d] = Leader
        PROVE  /\ \E w \in elected' : w.term = m_currentTerm'[d] /\ w.leader = d
               /\ \A f \in proposed' : f.logterm = m_currentTerm'[d] =>
                     f.logindex <= m_lastSnapshotIncludeIndex'[d] + Len(m_logs'[d])
    <3>1. m_status[d] = Leader
      BY <2>2, <2>8
    <3>2. \E w \in elected' : w.term = m_currentTerm'[d] /\ w.leader = d
      BY <2>2, <3>1 DEF LeaderHoldsTerm
    <3>3. m_lastSnapshotIncludeIndex'[d] + Len(m_logs'[d]) >= m_lastSnapshotIncludeIndex[d] + Len(m_logs[d])
      BY <2>8, <3>1, LeaderStep DEF LeaderKeeps
    <3>4. \A f \in proposed : f.logterm = m_currentTerm[d] =>
             f.logindex <= m_lastSnapshotIncludeIndex[d] + Len(m_logs[d])
      BY <3>1 DEF LeaderHoldsTerm
    <3>5. e.logterm = m_currentTerm[d] => e.logindex <= m_lastSnapshotIncludeIndex'[d] + Len(m_logs'[d])
      <4>1. e.logterm = m_currentTerm[d] => d = s
        BY <2>1, <2>2, <3>1, OneLeader
      <4>2. e.logindex \in Int
        BY <1>4, <2>1
      <4> QED
        BY <1>4, <2>7, <4>1, <4>2
    <3>6. \A f \in proposed : f.logterm = m_currentTerm[d] =>
             f.logindex <= m_lastSnapshotIncludeIndex'[d] + Len(m_logs'[d])
      BY <1>3, <1>4, <3>3, <3>4
    <3> QED
      BY <2>1, <2>2, <3>2, <3>5, <3>6
  <2>9. LeaderHoldsTerm'
    BY <2>8 DEF LeaderHoldsTerm
  <2> QED
    BY <1>1, <2>6, <2>9
<1> QED
  BY <1>5, <1>6, OnlyStartProposes

\* Every entry in a log or on the wire was proposed once, by its term's winner.
THEOREM EntriesAreProposed == Spec => []LogInv
<1>1. TypeInv /\ TypeInv' /\ ElectInv /\ LogInv /\ [Next]_vars => LogInv'
  BY LogInvStep
<1> QED
  BY <1>1, LogInvInit, TypeCorrect, VotesCounted, PTL DEF Spec

\* Entries of one index and term carry the same command everywhere: the
\* assertion in AppendEntries' entry loop cannot fail, for any number of servers.
THEOREM EntriesAlwaysAgree == Spec => []EntriesAgree
<1>1. LogInv => EntriesAgree
  <2> SUFFICES ASSUME LogInv PROVE EntriesAgree
    OBVIOUS
  <2>1. Entries \subseteq proposed
    BY DEF LogInv, EntriesProposed, Entries
  <2> QED
    BY <2>1 DEF LogInv, ProposedOnce, EntriesAgree
<1> QED
  BY <1>1, EntriesAreProposed, PTL
=============================================================================

--------------------------------- MODULE Raft ---------------------------------
(***************************************************************************)
(* The Raft peer of raft/raftCore/raft.cpp.                                *)
(*                                                                         *)
(* Every handler of class Raft runs under m_mtx, so each is one atomic     *)
(* action.  An RPC is two messages: the arguments, which wait in xxArgs    *)
(* from the moment the sending fiber is scheduled until the callee's       *)
(* handler runs, and the reply, which waits in xxReply until the caller    *)
(* has m_mtx again.  Calls overtake one another, and a call that fails     *)
(* (ok == false) is one CallFails removes: the caller returns at once.     *)
(*                                                                         *)
(* myAssert ends the process: exited[s] holds from then on.                *)
(* Election and heartbeat timers may fire at any time.                     *)
(***************************************************************************)
EXTENDS Integers, Sequences, FiniteSets

CONSTANTS
    Server,             \* m_peers
    Command,            \* the commands clients submit
    None,               \* m_votedFor = -1
    MaxTerm,            \* bound: no election beyond this term
    MaxLog,             \* bound: Start appends no index beyond this one
    MaxRound,           \* bound: heartbeat rounds a leader has under way
    MaxSnapshotIndex,   \* bound: Snapshot is called up to this index
    MaxRestart          \* bound: restarts of each server

ASSUME ServerAssumption == IsFiniteSet(Server) /\ Server # {}
ASSUME NoneAssumption == None \notin Server
ASSUME BoundAssumption ==
    /\ MaxTerm \in Nat /\ MaxLog \in Nat /\ MaxRound \in Nat
    /\ MaxSnapshotIndex \in Nat /\ MaxRestart \in Nat

VARIABLES
    m_currentTerm, m_votedFor, m_status,
    m_logs,                         \* entries after the snapshot
    m_lastSnapshotIncludeIndex, m_lastSnapshotIncludeTerm,
    m_commitIndex, m_lastApplied,
    m_nextIndex, m_matchIndex,
    votedNum,       \* [s][t]: the servers *votedNum counts, election of term t
    appendNums,     \* [s][r]: *appendNums of heartbeat round r
    snapTask,       \* <<s, d>>: a scheduled leaderSendSnapShot(d) fiber of s
    raftState,      \* what persist() last wrote
    snapshotFile,   \* content of the snapshot file
    exited,         \* myAssert failed: the process is gone
    incarnation,    \* how often the server was restarted
    rvArgs, rvReply, aeArgs, aeReply, isArgs, isReply,  \* calls under way
    ballots,        \* history: every vote given
    elected,        \* history: every election won
    proposed        \* history: every entry Start created

termVars == <<m_currentTerm, m_votedFor>>
voteVars == <<votedNum, ballots, elected>>
logVars == <<m_logs, m_lastSnapshotIncludeIndex, m_lastSnapshotIncludeTerm, proposed>>
applyVars == <<m_commitIndex, m_lastApplied>>
leaderVars == <<m_nextIndex, m_matchIndex, appendNums>>
diskVars == <<raftState, snapshotFile>>
procVars == <<exited, incarnation>>
voteNet == <<rvArgs, rvReply>>
appendNet == <<aeArgs, aeReply>>
snapNet == <<isArgs, isReply, snapTask>>

\* Groups most actions leave alone.
workVars == <<voteVars, logVars, applyVars, leaderVars>>
memory == <<termVars, m_status, workVars>>

vars == <<memory, diskVars, procVars, voteNet, appendNet, snapNet>>

-----------------------------------------------------------------------------
Follower == "Follower"
Candidate == "Candidate"
Leader == "Leader"

Round == 1..MaxRound
Entry == [command : Command, logterm : Nat, logindex : Nat]

\* Content of a snapshot file or of InstallSnapshot's data: a whole archive,
\* only its first word, or nothing.
Data == {"full", "word", "empty"}

MaxOf(a, b) == IF a > b THEN a ELSE b
MinOf(a, b) == IF a < b THEN a ELSE b

\* sum >= m_peers.size() / 2 + 1
IsMajority(n) == n >= Cardinality(Server) \div 2 + 1

\* The log of s: m_logs holds the entries after the snapshot.
getLastLogIndex(s) ==
    IF m_logs[s] = <<>> THEN m_lastSnapshotIncludeIndex[s]
                        ELSE m_logs[s][Len(m_logs[s])].logindex

getLastLogTerm(s) ==
    IF m_logs[s] = <<>> THEN m_lastSnapshotIncludeTerm[s]
                        ELSE m_logs[s][Len(m_logs[s])].logterm

getSlicesIndexFromLogIndex(s, i) == i - m_lastSnapshotIncludeIndex[s]

\* The range getLogTermFromLogIndex and matchLog assert.
HoldsIndex(s, i) == i \in m_lastSnapshotIncludeIndex[s]..getLastLogIndex(s)

getLogTermFromLogIndex(s, i) ==
    IF i = m_lastSnapshotIncludeIndex[s] THEN m_lastSnapshotIncludeTerm[s]
    ELSE m_logs[s][getSlicesIndexFromLogIndex(s, i)].logterm

matchLog(s, i, t) == t = getLogTermFromLogIndex(s, i)

UpToDate(s, index, term) ==
    \/ term > getLastLogTerm(s)
    \/ term = getLastLogTerm(s) /\ index >= getLastLogIndex(s)

\* Mutant: the vote is written as it was before the step.
persistData_OldVote(s) ==
    [m_currentTerm |-> m_currentTerm'[s], m_votedFor |-> m_votedFor[s],
     m_lastSnapshotIncludeIndex |-> m_lastSnapshotIncludeIndex'[s],
     m_lastSnapshotIncludeTerm |-> m_lastSnapshotIncludeTerm'[s],
     m_logs |-> m_logs'[s]]

\* persistData(): the fields written, read in the state after the step.
persistData(s) ==
    [m_currentTerm |-> m_currentTerm'[s], m_votedFor |-> m_votedFor'[s],
     m_lastSnapshotIncludeIndex |-> m_lastSnapshotIncludeIndex'[s],
     m_lastSnapshotIncludeTerm |-> m_lastSnapshotIncludeTerm'[s],
     m_logs |-> m_logs'[s]]

\* Persister::SaveRaftState leaves the snapshot file alone.
persist(s) ==
    /\ raftState' = [raftState EXCEPT ![s] = persistData(s)]
    /\ UNCHANGED snapshotFile

\* Persister::Save rewrites both files.
Save(s, data) ==
    /\ raftState' = [raftState EXCEPT ![s] = persistData(s)]
    /\ snapshotFile' = [snapshotFile EXCEPT ![s] = data]

\* What `ifs >> snapshot` takes from the file: its first word.
FirstWord(data) == IF data = "empty" THEN "empty" ELSE "word"

\* "Three changes" on meeting a higher term.
StepDown(s, term) ==
    /\ m_currentTerm' = [m_currentTerm EXCEPT ![s] = term]
    /\ m_votedFor' = [m_votedFor EXCEPT ![s] = None]
    /\ m_status' = [m_status EXCEPT ![s] = Follower]

\* Mutant: only two changes, a leader keeps its role.
FollowTerm_KeepsRole(s, term) ==
    /\ m_currentTerm' = [m_currentTerm EXCEPT ![s] = term]
    /\ m_votedFor' = [m_votedFor EXCEPT ![s] = IF term > m_currentTerm[s] THEN None ELSE @]
    /\ UNCHANGED m_status

\* Entry of AppendEntries and InstallSnapshot with a term not below ours.
FollowTerm(s, term) ==
    IF term > m_currentTerm[s]
    THEN StepDown(s, term)
    ELSE /\ m_status' = [m_status EXCEPT ![s] = Follower]
         /\ UNCHANGED termVars

\* myAssert(false): std::exit, no deferred persist runs.
Exit(s) ==
    /\ exited' = [exited EXCEPT ![s] = TRUE]
    /\ UNCHANGED <<memory, diskVars, incarnation>>

\* The fibers of s that wait for a reply belong to this process.
Alive(s) == ~exited[s]
Awaits(s, m) == Alive(s) /\ m.boot = incarnation[s]

-----------------------------------------------------------------------------
\* Raft::init after the Persister's constructor has emptied both files.
EmptyState ==
    [m_currentTerm |-> 0, m_votedFor |-> None, m_lastSnapshotIncludeIndex |-> 0,
     m_lastSnapshotIncludeTerm |-> 0, m_logs |-> <<>>]

Init ==
    /\ m_currentTerm = [s \in Server |-> 0]
    /\ m_votedFor = [s \in Server |-> None]
    /\ m_status = [s \in Server |-> Follower]
    /\ m_logs = [s \in Server |-> <<>>]
    /\ m_lastSnapshotIncludeIndex = [s \in Server |-> 0]
    /\ m_lastSnapshotIncludeTerm = [s \in Server |-> 0]
    /\ m_commitIndex = [s \in Server |-> 0]
    /\ m_lastApplied = [s \in Server |-> 0]
    /\ m_nextIndex = [s \in Server |-> [d \in Server |-> 0]]
    /\ m_matchIndex = [s \in Server |-> [d \in Server |-> 0]]
    /\ votedNum = [s \in Server |-> [t \in 0..MaxTerm |-> {}]]
    /\ appendNums = [s \in Server |-> [r \in Round |-> 0]]
    /\ snapTask = {}
    /\ raftState = [s \in Server |-> EmptyState]
    /\ snapshotFile = [s \in Server |-> "empty"]
    /\ exited = [s \in Server |-> FALSE]
    /\ incarnation = [s \in Server |-> 0]
    /\ rvArgs = {} /\ rvReply = {} /\ aeArgs = {} /\ aeReply = {}
    /\ isArgs = {} /\ isReply = {}
    /\ ballots = {} /\ elected = {} /\ proposed = {}

\* The process dies (or died by myAssert) and main starts it again: the new
\* Persister truncates both files before readPersist sees them.  Calls the
\* old process made stay on the wire; nobody waits for their replies.
Restart(s) ==
    /\ incarnation[s] < MaxRestart
    /\ incarnation' = [incarnation EXCEPT ![s] = @ + 1]
    /\ exited' = [exited EXCEPT ![s] = FALSE]
    /\ m_currentTerm' = [m_currentTerm EXCEPT ![s] = 0]
    /\ m_votedFor' = [m_votedFor EXCEPT ![s] = None]
    /\ m_status' = [m_status EXCEPT ![s] = Follower]
    /\ m_logs' = [m_logs EXCEPT ![s] = <<>>]
    /\ m_lastSnapshotIncludeIndex' = [m_lastSnapshotIncludeIndex EXCEPT ![s] = 0]
    /\ m_lastSnapshotIncludeTerm' = [m_lastSnapshotIncludeTerm EXCEPT ![s] = 0]
    /\ m_commitIndex' = [m_commitIndex EXCEPT ![s] = 0]
    /\ m_lastApplied' = [m_lastApplied EXCEPT ![s] = 0]
    /\ m_nextIndex' = [m_nextIndex EXCEPT ![s] = [d \in Server |-> 0]]
    /\ m_matchIndex' = [m_matchIndex EXCEPT ![s] = [d \in Server |-> 0]]
    /\ votedNum' = [votedNum EXCEPT ![s] = [t \in 0..MaxTerm |-> {}]]
    /\ appendNums' = [appendNums EXCEPT ![s] = [r \in Round |-> 0]]
    /\ snapTask' = {p \in snapTask : p[1] # s}
    /\ raftState' = [raftState EXCEPT ![s] = EmptyState]
    /\ snapshotFile' = [snapshotFile EXCEPT ![s] = "empty"]
    /\ UNCHANGED <<ballots, elected, proposed, voteNet, appendNet, isArgs, isReply>>

-----------------------------------------------------------------------------
(* Elections *)

\* The part of winning that doElection (one peer) and sendRequestVote share.
BecomeLeader(s) ==
    /\ m_status' = [m_status EXCEPT ![s] = Leader]
    /\ m_nextIndex' = [m_nextIndex EXCEPT ![s] = [d \in Server |-> getLastLogIndex(s) + 1]]
    /\ m_matchIndex' = [m_matchIndex EXCEPT ![s] = [d \in Server |-> 0]]

RequestVoteArgs(s, d, term) ==
    [term |-> term, candidateid |-> s, lastlogindex |-> getLastLogIndex(s),
     lastlogterm |-> getLastLogTerm(s), to |-> d, boot |-> incarnation[s]]

doElection(s) ==
    LET term == m_currentTerm[s] + 1 IN
    /\ Alive(s)
    /\ m_status[s] # Leader
    /\ m_currentTerm[s] < MaxTerm
    /\ m_currentTerm' = [m_currentTerm EXCEPT ![s] = term]
    /\ m_votedFor' = [m_votedFor EXCEPT ![s] = s]
    /\ ballots' = ballots \cup {[voter |-> s, term |-> term, candidate |-> s]}
    /\ IF Server = {s}
       THEN /\ BecomeLeader(s)
            /\ elected' = elected \cup {[term |-> term, leader |-> s, votes |-> {s}]}
            /\ UNCHANGED <<rvArgs, votedNum>>
       ELSE /\ m_status' = [m_status EXCEPT ![s] = Candidate]
            /\ votedNum' = [votedNum EXCEPT ![s][term] = {s}]
            /\ rvArgs' = rvArgs \cup {RequestVoteArgs(s, d, term) : d \in Server \ {s}}
            /\ UNCHANGED <<elected, m_nextIndex, m_matchIndex>>
    /\ UNCHANGED <<logVars, applyVars, appendNums, procVars, rvReply, appendNet, snapNet>>
    /\ persist(s)

\* RequestVote's answer to m: the caller matches it with its args and votedNum.
VoteReply(m, term, granted) ==
    [from |-> m.to, to |-> m.candidateid, election |-> m.term, boot |-> m.boot,
     term |-> term, votegranted |-> granted]

AnswerVote(m, term, granted) ==
    /\ rvArgs' = rvArgs \ {m}
    /\ rvReply' = rvReply \cup {VoteReply(m, term, granted)}

\* Mutant: m_votedFor is not looked at.
GrantsVote_Again(s, m) == UpToDate(s, m.lastlogindex, m.lastlogterm)

\* Does s, having adopted m.term, give m.candidateid its vote?
GrantsVote(s, m) ==
    /\ UpToDate(s, m.lastlogindex, m.lastlogterm)
    /\ \/ m.term > m_currentTerm[s]
       \/ m_votedFor[s] \in {None, m.candidateid}

\* Mutant: the answer has a term that nobody has reached.
RequestVoteExpire_NextTerm(m) ==
    /\ Alive(m.to)
    /\ m.term < m_currentTerm[m.to]
    /\ AnswerVote(m, m_currentTerm[m.to] + 1, FALSE)
    /\ UNCHANGED <<memory, procVars, appendNet, snapNet>>
    /\ persist(m.to)

RequestVoteExpire(m) ==
    /\ Alive(m.to)
    /\ m.term < m_currentTerm[m.to]
    /\ AnswerVote(m, m_currentTerm[m.to], FALSE)
    /\ UNCHANGED <<memory, procVars, appendNet, snapNet>>
    /\ persist(m.to)

RequestVoteCurrent(m) ==
    LET s == m.to
        grants == GrantsVote(s, m)
    IN  /\ Alive(s)
        /\ m.term >= m_currentTerm[s]
        /\ m_currentTerm' = [m_currentTerm EXCEPT ![s] = m.term]
        /\ m_status' = [m_status EXCEPT ![s] = IF m.term > m_currentTerm[s] THEN Follower ELSE @]
        /\ m_votedFor' = [m_votedFor EXCEPT ![s] =
                             IF grants THEN m.candidateid
                             ELSE IF m.term > m_currentTerm[s] THEN None ELSE @]
        /\ ballots' = IF grants
                      THEN ballots \cup {[voter |-> s, term |-> m.term, candidate |-> m.candidateid]}
                      ELSE ballots
        /\ AnswerVote(m, m.term, grants)
        /\ UNCHANGED <<votedNum, elected, logVars, applyVars, leaderVars, procVars, appendNet,
                       snapNet>>
        /\ persist(s)

RequestVote(m) == RequestVoteExpire(m) \/ RequestVoteCurrent(m)

\* sendRequestVote after the call returned.
VoteHigherTerm(m) ==
    /\ Awaits(m.to, m)
    /\ m.term > m_currentTerm[m.to]
    /\ StepDown(m.to, m.term)
    /\ rvReply' = rvReply \ {m}
    /\ UNCHANGED <<workVars, procVars, rvArgs, appendNet, snapNet>>
    /\ persist(m.to)

VoteIgnored(m) ==
    /\ Awaits(m.to, m)
    /\ \/ m.term < m_currentTerm[m.to]
       \/ m.term = m_currentTerm[m.to] /\ ~m.votegranted
    /\ rvReply' = rvReply \ {m}
    /\ UNCHANGED <<memory, diskVars, procVars, rvArgs, appendNet, snapNet>>

VoteCounted(m) ==
    LET s == m.to
        votes == votedNum[s][m.election] \cup {m.from}
    IN  /\ Awaits(s, m)
        /\ m.term = m_currentTerm[s]
        /\ m.votegranted
        /\ ~IsMajority(Cardinality(votes))
        /\ rvReply' = rvReply \ {m}
        /\ votedNum' = [votedNum EXCEPT ![s][m.election] = votes]
        /\ UNCHANGED <<termVars, m_status, ballots, elected, logVars, applyVars, leaderVars,
                       diskVars, procVars, rvArgs, appendNet, snapNet>>

VoteWins(m) ==
    LET s == m.to
        votes == votedNum[s][m.election] \cup {m.from}
    IN  /\ Awaits(s, m)
        /\ m.term = m_currentTerm[s]
        /\ m.votegranted
        /\ IsMajority(Cardinality(votes))
        /\ rvReply' = rvReply \ {m}
        /\ UNCHANGED <<rvArgs, appendNet, snapNet>>
        /\ IF m_status[s] = Leader
           THEN Exit(s)             \* "leader twice in one term"
           ELSE /\ BecomeLeader(s)
                /\ votedNum' = [votedNum EXCEPT ![s][m.election] = {}]
                /\ elected' = elected \cup {[term |-> m.term, leader |-> s, votes |-> votes]}
                /\ UNCHANGED <<termVars, ballots, logVars, applyVars, appendNums, procVars>>
                /\ persist(s)

sendRequestVote(m) == VoteHigherTerm(m) \/ VoteIgnored(m) \/ VoteCounted(m) \/ VoteWins(m)

-----------------------------------------------------------------------------
(* Log replication *)

\* The inner loop of leaderUpdateCommitIndex counts the leader itself.
ReplicatedTo(s, i) ==
    IsMajority(Cardinality({s} \cup {d \in Server : m_matchIndex[s][d] >= i}))

\* The outer loop leaves m_commitIndex at c, when the log of s is log: the
\* highest index of the current term on a majority, else the snapshot's index
\* (the value the function starts from, whatever was committed before).
leaderUpdateCommitIndex(s, log, c) ==
    LET base == m_lastSnapshotIncludeIndex[s]
        Committable(i) == ReplicatedTo(s, i) /\ log[i - base].logterm = m_currentTerm[s]
    IN  /\ c > base => Committable(c)
        /\ \A i \in (c + 1)..(base + Len(log)) : ~Committable(i)

Start(s, command) ==
    LET e == [command |-> command, logterm |-> m_currentTerm[s],
              logindex |-> getLastLogIndex(s) + 1]
        log == Append(m_logs[s], e)
    IN  /\ Alive(s)
        /\ m_status[s] = Leader
        /\ getLastLogIndex(s) < MaxLog
        /\ m_logs' = [m_logs EXCEPT ![s] = log]
        /\ proposed' = proposed \cup {e}
        /\ \E c \in m_lastSnapshotIncludeIndex[s]..(m_lastSnapshotIncludeIndex[s] + Len(log)) :
              /\ leaderUpdateCommitIndex(s, log, c)
              /\ m_commitIndex' = [m_commitIndex EXCEPT ![s] = c]
        /\ UNCHANGED <<termVars, m_status, voteVars, m_lastSnapshotIncludeIndex,
                       m_lastSnapshotIncludeTerm, m_lastApplied, leaderVars, procVars, voteNet,
                       appendNet, snapNet>>
        /\ persist(s)

\* The AppendEntries a leader builds for d: everything after nextIndex - 1.
AppendEntriesArgs(s, d, r) ==
    LET prev == m_nextIndex[s][d] - 1
        after == prev - m_lastSnapshotIncludeIndex[s]
    IN  [term |-> m_currentTerm[s], leaderid |-> s, prevlogindex |-> prev,
         prevlogterm |-> getLogTermFromLogIndex(s, prev),
         entries |-> SubSeq(m_logs[s], after + 1, Len(m_logs[s])),
         leadercommit |-> m_commitIndex[s], to |-> d, round |-> r, boot |-> incarnation[s]]

NeedsSnapshot(s, d) == m_nextIndex[s][d] <= m_lastSnapshotIncludeIndex[s]

\* No fiber of s still holds the shared counter of round r.
RoundFree(s, r) ==
    /\ \A m \in aeArgs : ~(m.leaderid = s /\ m.round = r /\ m.boot = incarnation[s])
    /\ \A m \in aeReply : ~(m.to = s /\ m.round = r /\ m.boot = incarnation[s])

doHeartBeat(s, r) ==
    LET peers == Server \ {s} IN
    /\ Alive(s)
    /\ m_status[s] = Leader
    /\ RoundFree(s, r)
    /\ IF \A d \in peers :
             m_nextIndex[s][d] >= 1 /\ (NeedsSnapshot(s, d) \/ HoldsIndex(s, m_nextIndex[s][d] - 1))
       THEN /\ snapTask' = snapTask \cup {<<s, d>> : d \in {p \in peers : NeedsSnapshot(s, p)}}
            /\ aeArgs' = aeArgs \cup
                  {AppendEntriesArgs(s, d, r) : d \in {p \in peers : ~NeedsSnapshot(s, p)}}
            /\ appendNums' = [appendNums EXCEPT ![s][r] = 1]
            /\ UNCHANGED <<termVars, m_status, voteVars, logVars, applyVars, m_nextIndex,
                           m_matchIndex, diskVars, procVars>>
       ELSE Exit(s) /\ UNCHANGED <<aeArgs, snapTask>>
    /\ UNCHANGED <<voteNet, aeReply, isArgs, isReply>>

\* The caller still holds its args: it uses where they ended and the term of
\* their last entry (0 when there is none).
AppendReply(m, term, success, updatenextindex) ==
    [from |-> m.to, to |-> m.leaderid, round |-> m.round, boot |-> m.boot,
     upto |-> m.prevlogindex + Len(m.entries),
     lastterm |-> IF m.entries = <<>> THEN 0 ELSE m.entries[Len(m.entries)].logterm,
     term |-> term, success |-> success, updatenextindex |-> updatenextindex]

AnswerAppend(m, term, success, updatenextindex) ==
    /\ aeArgs' = aeArgs \ {m}
    /\ aeReply' = aeReply \cup {AppendReply(m, term, success, updatenextindex)}

AppendEntriesStale(m) ==
    /\ Alive(m.to)
    /\ m.term < m_currentTerm[m.to]
    /\ AnswerAppend(m, m_currentTerm[m.to], FALSE, -100)
    /\ UNCHANGED <<memory, diskVars, procVars, voteNet, snapNet>>

\* Where the leader shall continue when our log is too short.
NextAfterShortLog_Last(s) == getLastLogIndex(s)     \* mutant: + 1 forgotten
NextAfterShortLog(s) == getLastLogIndex(s) + 1

AppendEntriesTooNew(m) ==
    LET s == m.to IN
    /\ Alive(s)
    /\ m.term >= m_currentTerm[s]
    /\ m.prevlogindex > getLastLogIndex(s)
    /\ FollowTerm(s, m.term)
    /\ AnswerAppend(m, m.term, FALSE, NextAfterShortLog(s))
    /\ UNCHANGED <<workVars, procVars, voteNet, snapNet>>
    /\ persist(s)

\* The branch for prevlogindex below the snapshot does not return: matchLog
\* runs next and its assertion fails.
AppendEntriesBelowSnapshot(m) ==
    LET s == m.to IN
    /\ Alive(s)
    /\ m.term >= m_currentTerm[s]
    /\ m.prevlogindex < m_lastSnapshotIncludeIndex[s]
    /\ Exit(s)
    /\ aeArgs' = aeArgs \ {m}
    /\ UNCHANGED <<voteNet, aeReply, snapNet>>

\* The entry loop: append past the end, replace where the terms differ, and
\* keep everything else, the entries after the last one received too.
MergeEntries(log, after, entries) ==
    [k \in 1..MaxOf(Len(log), after + Len(entries)) |->
        IF /\ k - after \in 1..Len(entries)
           /\ k <= Len(log) => log[k].logterm # entries[k - after].logterm
        THEN entries[k - after]
        ELSE log[k]]

\* Same index and term, different command: the loop's assertion.
CommandClash(log, after, entries) ==
    \E j \in 1..Len(entries) :
        /\ after + j <= Len(log)
        /\ log[after + j].logterm = entries[j].logterm
        /\ log[after + j].command # entries[j].command

AppendEntriesMatch(m) ==
    LET s == m.to
        after == m.prevlogindex - m_lastSnapshotIncludeIndex[s]
        log == MergeEntries(m_logs[s], after, m.entries)
        last == m_lastSnapshotIncludeIndex[s] + Len(log)
        commit == IF m.leadercommit > m_commitIndex[s] THEN MinOf(m.leadercommit, last)
                                                       ELSE m_commitIndex[s]
    IN  /\ Alive(s)
        /\ m.term >= m_currentTerm[s]
        /\ HoldsIndex(s, m.prevlogindex)
        /\ matchLog(s, m.prevlogindex, m.prevlogterm)
        /\ IF CommandClash(m_logs[s], after, m.entries) \/ commit > last
           THEN Exit(s) /\ aeArgs' = aeArgs \ {m} /\ UNCHANGED aeReply
           ELSE /\ FollowTerm(s, m.term)
                /\ m_logs' = [m_logs EXCEPT ![s] = log]
                /\ m_commitIndex' = [m_commitIndex EXCEPT ![s] = commit]
                /\ AnswerAppend(m, m.term, TRUE, 0)
                /\ UNCHANGED <<voteVars, m_lastSnapshotIncludeIndex, m_lastSnapshotIncludeTerm,
                               proposed, m_lastApplied, leaderVars, procVars>>
                /\ persist(s)
        /\ UNCHANGED <<voteNet, snapNet>>

\* The search for the first index of the conflicting term stops at i.
ConflictStart(s, prev, i) ==
    LET Differs(k) == getLogTermFromLogIndex(s, k) # getLogTermFromLogIndex(s, prev)
        low == m_lastSnapshotIncludeIndex[s]
    IN  IF \A k \in low..prev : ~Differs(k)
        THEN i = prev
        ELSE i > low /\ Differs(i - 1) /\ \A k \in i..prev : ~Differs(k)

AppendEntriesMismatch(m) ==
    LET s == m.to IN
    /\ Alive(s)
    /\ m.term >= m_currentTerm[s]
    /\ HoldsIndex(s, m.prevlogindex)
    /\ ~matchLog(s, m.prevlogindex, m.prevlogterm)
    /\ FollowTerm(s, m.term)
    /\ \E i \in m_lastSnapshotIncludeIndex[s]..m.prevlogindex :
          /\ ConflictStart(s, m.prevlogindex, i)
          /\ AnswerAppend(m, m.term, FALSE, i)
    /\ UNCHANGED <<workVars, procVars, voteNet, snapNet>>
    /\ persist(s)

AppendEntries(m) ==
    \/ AppendEntriesStale(m)
    \/ AppendEntriesTooNew(m)
    \/ AppendEntriesBelowSnapshot(m)
    \/ AppendEntriesMatch(m)
    \/ AppendEntriesMismatch(m)

\* sendAppendEntries after the call returned.  Stepping down does not persist.
AppendHigherTerm(m) ==
    /\ Awaits(m.to, m)
    /\ m.term > m_currentTerm[m.to]
    /\ StepDown(m.to, m.term)
    /\ aeReply' = aeReply \ {m}
    /\ UNCHANGED <<workVars, diskVars, procVars, voteNet, aeArgs, snapNet>>

AppendIgnored(m) ==
    LET s == m.to IN
    /\ Awaits(s, m)
    /\ m.term <= m_currentTerm[s]
    /\ \/ m.term < m_currentTerm[s]
       \/ m_status[s] # Leader
       \/ ~m.success /\ m.updatenextindex = -100
    /\ aeReply' = aeReply \ {m}
    /\ UNCHANGED <<memory, diskVars, procVars, voteNet, aeArgs, snapNet>>

\* A reply of the current term to a server that is still leader.
LeaderHears(s, m) == Awaits(s, m) /\ m.term = m_currentTerm[s] /\ m_status[s] = Leader

AppendRefused(m) ==
    LET s == m.to IN
    /\ LeaderHears(s, m)
    /\ ~m.success
    /\ m.updatenextindex # -100
    /\ m_nextIndex' = [m_nextIndex EXCEPT ![s][m.from] = m.updatenextindex]
    /\ aeReply' = aeReply \ {m}
    /\ UNCHANGED <<termVars, m_status, voteVars, logVars, applyVars, m_matchIndex, appendNums,
                   diskVars, procVars, voteNet, aeArgs, snapNet>>

\* Mutant: the leader's own copy is not counted.
CommitAfterReply_NotSelf(s, m, count) ==
    IF IsMajority(count - 1) /\ m.lastterm = m_currentTerm[s]
    THEN MaxOf(m_commitIndex[s], m.upto) ELSE m_commitIndex[s]

\* Mutant: the leader's whole log is committed, not what was sent.
CommitAfterReply_All(s, m, count) ==
    IF IsMajority(count) /\ m.lastterm = m_currentTerm[s]
    THEN getLastLogIndex(s) ELSE m_commitIndex[s]

\* The reply that completes the round commits its entries when the last of
\* those THIS follower was sent is of the current term.
CommitAfterReply(s, m, count) ==
    IF IsMajority(count) /\ m.lastterm = m_currentTerm[s]
    THEN MaxOf(m_commitIndex[s], m.upto) ELSE m_commitIndex[s]

AppendAccepted(m) ==
    LET s == m.to
        match == MaxOf(m_matchIndex[s][m.from], m.upto)
        count == appendNums[s][m.round] + 1
        commit == CommitAfterReply(s, m, count)
    IN  /\ LeaderHears(s, m)
        /\ m.success
        /\ aeReply' = aeReply \ {m}
        /\ IF match > getLastLogIndex(s) \/ (IsMajority(count) /\ commit > getLastLogIndex(s))
           THEN Exit(s)
           ELSE /\ m_matchIndex' = [m_matchIndex EXCEPT ![s][m.from] = match]
                /\ m_nextIndex' = [m_nextIndex EXCEPT ![s][m.from] = match + 1]
                /\ appendNums' = [appendNums EXCEPT ![s][m.round] =
                                     IF IsMajority(count) THEN 0 ELSE count]
                /\ m_commitIndex' = [m_commitIndex EXCEPT ![s] = commit]
                /\ UNCHANGED <<termVars, m_status, voteVars, logVars, m_lastApplied, diskVars,
                               procVars>>
        /\ UNCHANGED <<voteNet, aeArgs, snapNet>>

sendAppendEntries(m) ==
    AppendHigherTerm(m) \/ AppendIgnored(m) \/ AppendRefused(m) \/ AppendAccepted(m)

-----------------------------------------------------------------------------
(* Applying and snapshots *)

\* One turn of applierTicker that finds something to apply (getApplyLogs).
\* The push into applyChan is the business of module KvServer.
applierTicker(s) ==
    /\ Alive(s)
    /\ m_lastApplied[s] < m_commitIndex[s]
    /\ IF m_commitIndex[s] > getLastLogIndex(s) \/ m_lastApplied[s] < m_lastSnapshotIncludeIndex[s]
       THEN Exit(s)
       ELSE /\ m_lastApplied' = [m_lastApplied EXCEPT ![s] = m_commitIndex[s]]
            /\ UNCHANGED <<termVars, m_status, voteVars, logVars, m_commitIndex, leaderVars,
                           diskVars, procVars>>
    /\ UNCHANGED <<voteNet, appendNet, snapNet>>

\* The entries after index, which s holds.
LogAfter_KeepsOne(s, index) ==      \* mutant: the entry at index stays
    SubSeq(m_logs[s], getSlicesIndexFromLogIndex(s, index), Len(m_logs[s]))
LogAfter(s, index) ==
    SubSeq(m_logs[s], getSlicesIndexFromLogIndex(s, index) + 1, Len(m_logs[s]))

\* KvServer calls Snapshot with the index of a command it has applied.
Snapshot(s, index) ==
    /\ Alive(s)
    /\ index > m_lastSnapshotIncludeIndex[s] /\ index <= m_commitIndex[s]
    /\ index <= m_lastApplied[s]
    /\ IF ~HoldsIndex(s, index)
       THEN Exit(s)
       ELSE /\ m_lastSnapshotIncludeIndex' = [m_lastSnapshotIncludeIndex EXCEPT ![s] = index]
            /\ m_lastSnapshotIncludeTerm' =
                  [m_lastSnapshotIncludeTerm EXCEPT ![s] = getLogTermFromLogIndex(s, index)]
            /\ m_logs' = [m_logs EXCEPT ![s] = LogAfter(s, index)]
            /\ UNCHANGED <<termVars, m_status, voteVars, proposed, applyVars, leaderVars, procVars>>
            /\ Save(s, "full")
    /\ UNCHANGED <<voteNet, appendNet, snapNet>>

\* leaderSendSnapShot up to the call: runs in a fiber of its own and asks for
\* m_mtx anew, without looking at m_status.  ReadSnapshot returns the first
\* word of the file, and reopening the file for output empties it.
leaderSendSnapShot(s, d) ==
    /\ Alive(s)
    /\ <<s, d>> \in snapTask
    /\ snapTask' = snapTask \ {<<s, d>>}
    /\ isArgs' = isArgs \cup
         {[term |-> m_currentTerm[s], leaderid |-> s,
           lastsnapshotincludeindex |-> m_lastSnapshotIncludeIndex[s],
           lastsnapshotincludeterm |-> m_lastSnapshotIncludeTerm[s],
           data |-> FirstWord(snapshotFile[s]), to |-> d, boot |-> incarnation[s]]}
    /\ snapshotFile' = [snapshotFile EXCEPT ![s] = "empty"]
    /\ UNCHANGED <<memory, raftState, procVars, voteNet, appendNet, isReply>>

AnswerSnapshot(m, term) ==
    /\ isArgs' = isArgs \ {m}
    /\ isReply' = isReply \cup
         {[from |-> m.to, to |-> m.leaderid, argsterm |-> m.term, boot |-> m.boot,
           lastsnapshotincludeindex |-> m.lastsnapshotincludeindex, term |-> term]}
    /\ UNCHANGED snapTask

InstallSnapshotStale(m) ==
    /\ Alive(m.to)
    /\ m.term < m_currentTerm[m.to]
    /\ AnswerSnapshot(m, m_currentTerm[m.to])
    /\ UNCHANGED <<memory, diskVars, procVars, voteNet, appendNet>>

\* The outdated branch leaves reply.term unset, which reads as 0.
InstallSnapshotOutdated(m) ==
    LET s == m.to IN
    /\ Alive(s)
    /\ m.term >= m_currentTerm[s]
    /\ m.lastsnapshotincludeindex <= m_lastSnapshotIncludeIndex[s]
    /\ FollowTerm(s, m.term)
    /\ AnswerSnapshot(m, 0)
    /\ UNCHANGED <<workVars, procVars, voteNet, appendNet>>
    /\ IF m.term > m_currentTerm[s] THEN persist(s) ELSE UNCHANGED diskVars

InstallSnapshotInstall(m) ==
    LET s == m.to
        index == m.lastsnapshotincludeindex
    IN  /\ Alive(s)
        /\ m.term >= m_currentTerm[s]
        /\ index > m_lastSnapshotIncludeIndex[s]
        /\ FollowTerm(s, m.term)
        /\ m_logs' = [m_logs EXCEPT ![s] =
                         IF getLastLogIndex(s) > index THEN LogAfter(s, index) ELSE <<>>]
        /\ m_lastSnapshotIncludeIndex' = [m_lastSnapshotIncludeIndex EXCEPT ![s] = index]
        /\ m_lastSnapshotIncludeTerm' =
              [m_lastSnapshotIncludeTerm EXCEPT ![s] = m.lastsnapshotincludeterm]
        /\ m_commitIndex' = [m_commitIndex EXCEPT ![s] = MaxOf(@, index)]
        /\ m_lastApplied' = [m_lastApplied EXCEPT ![s] = MaxOf(@, index)]
        /\ AnswerSnapshot(m, m.term)
        /\ UNCHANGED <<voteVars, proposed, leaderVars, procVars, voteNet, appendNet>>
        /\ Save(s, m.data)

InstallSnapshot(m) ==
    InstallSnapshotStale(m) \/ InstallSnapshotOutdated(m) \/ InstallSnapshotInstall(m)

\* leaderSendSnapShot after the call returned.
SnapshotIgnored(m) ==
    LET s == m.to IN
    /\ Awaits(s, m)
    /\ m_status[s] # Leader \/ m_currentTerm[s] # m.argsterm
    /\ isReply' = isReply \ {m}
    /\ UNCHANGED <<memory, diskVars, procVars, voteNet, appendNet, isArgs, snapTask>>

SnapshotHigherTerm(m) ==
    LET s == m.to IN
    /\ Awaits(s, m)
    /\ m_status[s] = Leader /\ m_currentTerm[s] = m.argsterm
    /\ m.term > m_currentTerm[s]
    /\ StepDown(s, m.term)
    /\ isReply' = isReply \ {m}
    /\ UNCHANGED <<workVars, procVars, voteNet, appendNet, isArgs, snapTask>>
    /\ persist(s)

SnapshotAccepted(m) ==
    LET s == m.to IN
    /\ Awaits(s, m)
    /\ m_status[s] = Leader /\ m_currentTerm[s] = m.argsterm
    /\ m.term <= m_currentTerm[s]
    /\ m_matchIndex' = [m_matchIndex EXCEPT ![s][m.from] = m.lastsnapshotincludeindex]
    /\ m_nextIndex' = [m_nextIndex EXCEPT ![s][m.from] = m.lastsnapshotincludeindex + 1]
    /\ isReply' = isReply \ {m}
    /\ UNCHANGED <<termVars, m_status, voteVars, logVars, applyVars, appendNums, diskVars,
                   procVars, voteNet, appendNet, isArgs, snapTask>>

SendSnapshotReturns(m) == SnapshotIgnored(m) \/ SnapshotHigherTerm(m) \/ SnapshotAccepted(m)

\* The channel reports failure, or the fiber never gets its turn: a request or
\* its answer is lost, and the caller's fiber ends.
CallFails ==
    /\ \/ \E m \in rvArgs : rvArgs' = rvArgs \ {m} /\ UNCHANGED <<rvReply, appendNet, isArgs,
                                                                  isReply>>
       \/ \E m \in rvReply : rvReply' = rvReply \ {m} /\ UNCHANGED <<rvArgs, appendNet, isArgs,
                                                                     isReply>>
       \/ \E m \in aeArgs : aeArgs' = aeArgs \ {m} /\ UNCHANGED <<voteNet, aeReply, isArgs,
                                                                  isReply>>
       \/ \E m \in aeReply : aeReply' = aeReply \ {m} /\ UNCHANGED <<voteNet, aeArgs, isArgs,
                                                                     isReply>>
       \/ \E m \in isArgs : isArgs' = isArgs \ {m} /\ UNCHANGED <<voteNet, appendNet, isReply>>
       \/ \E m \in isReply : isReply' = isReply \ {m} /\ UNCHANGED <<voteNet, appendNet, isArgs>>
    /\ UNCHANGED <<memory, diskVars, procVars, snapTask>>

-----------------------------------------------------------------------------
ServerStep(s) ==
    \/ doElection(s)
    \/ \E c \in Command : Start(s, c)
    \/ \E r \in Round : doHeartBeat(s, r)
    \/ applierTicker(s)
    \/ \E i \in 1..MaxSnapshotIndex : Snapshot(s, i)
    \/ \E d \in Server : leaderSendSnapShot(s, d)

Next ==
    \/ \E s \in Server : ServerStep(s)
    \/ \E m \in rvArgs : RequestVote(m)
    \/ \E m \in rvReply : sendRequestVote(m)
    \/ \E m \in aeArgs : AppendEntries(m)
    \/ \E m \in aeReply : sendAppendEntries(m)
    \/ \E m \in isArgs : InstallSnapshot(m)
    \/ \E m \in isReply : SendSnapshotReturns(m)
    \/ CallFails

\* Without crashes other than a failing assertion.
Spec == Init /\ [][Next]_vars

\* With restarts.
NextRestart == Next \/ \E s \in Server : Restart(s)

SpecRestart == Init /\ [][NextRestart]_vars

\* The tickers keep running, and calls that are made again and again get
\* through again and again: handler and reply are strongly fair per peer.
Fairness ==
    /\ \A s \in Server :
          /\ WF_vars(applierTicker(s))
          /\ WF_vars(\E r \in Round : doHeartBeat(s, r))
          /\ SF_vars(\E m \in aeArgs : m.to = s /\ AppendEntries(m))
          /\ SF_vars(\E m \in aeReply : m.from = s /\ sendAppendEntries(m))

LiveSpec == Spec /\ Fairness

-----------------------------------------------------------------------------
(* Properties *)

StateRecord == [m_currentTerm : Nat, m_votedFor : Server \cup {None},
                m_lastSnapshotIncludeIndex : Nat, m_lastSnapshotIncludeTerm : Nat,
                m_logs : Seq(Entry)]

\* What a RequestVote, AppendEntries or InstallSnapshot message looks like.
VoteArgsType == [term : 1..MaxTerm, candidateid : Server, lastlogindex : Nat, lastlogterm : Nat,
                 to : Server, boot : Nat]
VoteReplyType == [from : Server, to : Server, election : 1..MaxTerm, boot : Nat, term : 1..MaxTerm,
                  votegranted : BOOLEAN]
AppendArgsType == [term : 0..MaxTerm, leaderid : Server, prevlogindex : Nat, prevlogterm : Nat,
                   entries : Seq(Entry), leadercommit : Nat, to : Server, round : Round, boot : Nat]
AppendReplyType == [from : Server, to : Server, round : Round, boot : Nat, upto : Nat,
                    lastterm : Nat, term : 0..MaxTerm, success : BOOLEAN, updatenextindex : Int]
SnapshotArgsType == [term : 0..MaxTerm, leaderid : Server, lastsnapshotincludeindex : Nat,
                     lastsnapshotincludeterm : Nat, data : Data, to : Server, boot : Nat]
SnapshotReplyType == [from : Server, to : Server, argsterm : 0..MaxTerm, boot : Nat,
                      lastsnapshotincludeindex : Nat, term : 0..MaxTerm]

MemberTypes ==
    /\ m_currentTerm \in [Server -> 0..MaxTerm]
    /\ m_votedFor \in [Server -> Server \cup {None}]
    /\ m_status \in [Server -> {Follower, Candidate, Leader}]
    /\ m_commitIndex \in [Server -> Nat]
    /\ m_lastApplied \in [Server -> Nat]
    /\ m_nextIndex \in [Server -> [Server -> Int]]
    /\ m_matchIndex \in [Server -> [Server -> Nat]]
    /\ votedNum \in [Server -> [0..MaxTerm -> SUBSET Server]]
    /\ appendNums \in [Server -> [Round -> Nat]]
    /\ snapTask \subseteq Server \X Server
    /\ exited \in [Server -> BOOLEAN]
    /\ incarnation \in [Server -> Nat]

LogTypes ==
    /\ m_logs \in [Server -> Seq(Entry)]
    /\ m_lastSnapshotIncludeIndex \in [Server -> Nat]
    /\ m_lastSnapshotIncludeTerm \in [Server -> Nat]

FileTypes ==
    /\ raftState \in [Server -> StateRecord]
    /\ snapshotFile \in [Server -> Data]

CallTypes ==
    /\ rvArgs \subseteq VoteArgsType
    /\ rvReply \subseteq VoteReplyType
    /\ aeArgs \subseteq AppendArgsType
    /\ aeReply \subseteq AppendReplyType
    /\ isArgs \subseteq SnapshotArgsType
    /\ isReply \subseteq SnapshotReplyType

HistoryTypes ==
    /\ ballots \subseteq [voter : Server, term : 1..MaxTerm, candidate : Server]
    /\ elected \subseteq [term : 1..MaxTerm, leader : Server, votes : SUBSET Server]
    /\ proposed \subseteq Entry

\* The members of class Raft, the files of its Persister and the RPC messages
\* keep their declared types; no term passes MaxTerm.
TypeOK == MemberTypes /\ LogTypes /\ FileTypes /\ CallTypes /\ HistoryTypes

\* Slice k of m_logs holds log index m_lastSnapshotIncludeIndex + k, in every
\* server and in every AppendEntries under way: the arithmetic of
\* getSlicesIndexFromLogIndex is right after any mix of Start, AppendEntries,
\* Snapshot and InstallSnapshot.
LogContiguous ==
    /\ \A s \in Server : \A k \in 1..Len(m_logs[s]) :
          m_logs[s][k].logindex = m_lastSnapshotIncludeIndex[s] + k
    /\ \A m \in aeArgs : \A k \in 1..Len(m.entries) :
          m.entries[k].logindex = m.prevlogindex + k

\* A term has at most one winner, and it wins once (the assertion of
\* sendRequestVote), whatever order votes and answers arrive in.
ElectionSafety == \A e, f \in elected : e.term = f.term => e = f

Ballot(v, t, c) == [voter |-> v, term |-> t, candidate |-> c]

\* A server's votes are of terms it has reached, the one of its current term is
\* m_votedFor, and there is one per term.
VotesRecorded ==
    /\ \A b \in ballots :
          /\ b.term <= m_currentTerm[b.voter]
          /\ b.term = m_currentTerm[b.voter] => m_votedFor[b.voter] = b.candidate
    /\ \A b, c \in ballots : b.voter = c.voter /\ b.term = c.term => b = c

\* What votedNum counts, what an answer grants and what won an election are
\* votes that were given.
VotesGiven ==
    /\ \A s \in Server, t \in 0..MaxTerm : \A v \in votedNum[s][t] : Ballot(v, t, s) \in ballots
    /\ \A r \in rvReply : r.votegranted => r.term = r.election /\ Ballot(r.from, r.election, r.to) \in ballots
    /\ \A e \in elected :
          /\ \A v \in e.votes : Ballot(v, e.term, e.leader) \in ballots
          /\ IsMajority(Cardinality(e.votes))

\* A candidate has reached the term of its elections.
TermsReached ==
    /\ \A m \in rvArgs : m.term <= m_currentTerm[m.candidateid]
    /\ \A r \in rvReply : r.election <= m_currentTerm[r.to]
    /\ \A e \in elected : e.term <= m_currentTerm[e.leader]

\* A candidate asks each peer once per term: the call or its answer is under way.
CallsUnique ==
    /\ \A m, n \in rvArgs : m.candidateid = n.candidateid /\ m.to = n.to /\ m.term = n.term => m = n
    /\ \A r, q \in rvReply : r.to = q.to /\ r.from = q.from /\ r.election = q.election => r = q
    /\ \A m \in rvArgs, r \in rvReply :
          ~(m.candidateid = r.to /\ m.to = r.from /\ m.term = r.election)

\* A vote whose call is under way is in no count, and the votes that won are
\* not counted again.
CountedOnce ==
    /\ \A m \in rvArgs : m.to \notin votedNum[m.candidateid][m.term]
    /\ \A r \in rvReply : r.from \notin votedNum[r.to][r.election]
    /\ \A e \in elected :
          /\ \A v \in e.votes : v \notin votedNum[e.leader][e.term]
          /\ \A m \in rvArgs : m.candidateid = e.leader /\ m.term = e.term => m.to \notin e.votes
          /\ \A r \in rvReply : r.to = e.leader /\ r.election = e.term => r.from \notin e.votes

\* The bookkeeping that makes ElectionSafety inductive: no vote is counted for
\* two elections or twice for one, however calls and answers overtake each other.
ElectInv ==
    VotesRecorded /\ VotesGiven /\ TermsReached /\ CallsUnique /\ CountedOnce /\ ElectionSafety

\* Entries of the same index and term carry the same command, in all logs and
\* all AppendEntries under way (the assertion in AppendEntries' entry loop).
Entries == UNION ({{m_logs[s][k] : k \in 1..Len(m_logs[s])} : s \in Server}
                  \cup {{m.entries[k] : k \in 1..Len(m.entries)} : m \in aeArgs})

EntriesAgree == \A e, f \in Entries : e.logindex = f.logindex /\ e.logterm = f.logterm => e = f

\* Every entry in a log or on its way was created by Start.
EntriesProposed ==
    /\ \A s \in Server : \A k \in 1..Len(m_logs[s]) : m_logs[s][k] \in proposed
    /\ \A m \in aeArgs : \A k \in 1..Len(m.entries) : m.entries[k] \in proposed

\* Start proposed at most one entry per index and term, as a winner of the term.
ProposedOnce ==
    /\ \A e, f \in proposed : e.logindex = f.logindex /\ e.logterm = f.logterm => e = f
    /\ \A e \in proposed : \E w \in elected : w.term = e.logterm

\* A leader has won its term and holds every index proposed in it.
LeaderHoldsTerm ==
    \A s \in Server : m_status[s] = Leader =>
        /\ \E w \in elected : w.term = m_currentTerm[s] /\ w.leader = s
        /\ \A e \in proposed : e.logterm = m_currentTerm[s] =>
              e.logindex <= m_lastSnapshotIncludeIndex[s] + Len(m_logs[s])

\* Only Start creates entries, for indices the term does not have yet: what
\* makes EntriesAgree inductive.
LogInv == EntriesProposed /\ ProposedOnce /\ LeaderHoldsTerm

\* A vote is in the raft state file before anybody can act on it, and stays
\* there as long as the file is of that term; the log on file is the one in
\* memory (persist() before m_mtx is released).
StatePersisted ==
    /\ \A b \in ballots : LET file == raftState[b.voter] IN
          \/ file.m_currentTerm > b.term
          \/ file.m_currentTerm = b.term /\ file.m_votedFor = b.candidate
    /\ \A s \in Server :
          /\ raftState[s].m_logs = m_logs[s]
          /\ raftState[s].m_lastSnapshotIncludeIndex = m_lastSnapshotIncludeIndex[s]

\* No myAssert of the handlers ever fails.
NoAssertFails == \A s \in Server : ~exited[s]

\* A leader's commit index, when it names an entry of the current term, is on a
\* majority: each of those servers has the entry, has it in its snapshot, or
\* has moved on to a later term.
HasCommitted(s, d) ==
    LET c == m_commitIndex[s] IN
    \/ m_currentTerm[d] > m_currentTerm[s]
    \/ m_lastSnapshotIncludeIndex[d] >= c
    \/ HoldsIndex(d, c) /\ getLogTermFromLogIndex(d, c) = m_currentTerm[s]

CommittedOnMajority ==
    \A s \in Server :
        (/\ m_status[s] = Leader
         /\ m_commitIndex[s] > m_lastSnapshotIncludeIndex[s]
         /\ getLogTermFromLogIndex(s, m_commitIndex[s]) = m_currentTerm[s])
        => IsMajority(Cardinality({d \in Server : HasCommitted(s, d)}))

\* A server never withdraws or changes a vote of the term it is in, its term
\* never decreases, and it leaves the leader's role for good in that term.
VoteIsFinal ==
    [][\A s \in Server :
          /\ m_currentTerm'[s] >= m_currentTerm[s]
          /\ m_currentTerm'[s] = m_currentTerm[s] =>
                /\ m_votedFor[s] # None => m_votedFor'[s] = m_votedFor[s]
                /\ (/\ m_status[s] # Leader
                    /\ \E e \in elected : e.term = m_currentTerm[s] /\ e.leader = s)
                   => m_status'[s] # Leader
      ]_vars

\* A leader only appends: while it keeps the role, every entry it has stays in
\* its log or goes into its snapshot.
LeaderAppendOnly ==
    [][\A s \in Server : m_status[s] = Leader /\ m_status'[s] = Leader =>
          \A k \in 1..Len(m_logs[s]) :
             LET j == m_lastSnapshotIncludeIndex[s] + k - m_lastSnapshotIncludeIndex'[s] IN
             j >= 1 => j <= Len(m_logs'[s]) /\ m_logs'[s][j] = m_logs[s][k]]_vars

\* What Start appended is committed and handed to the state machine, unless
\* the leader loses its role: lost calls only delay it.
LeaderEntriesApplied ==
    \A s \in Server, i \in 1..MaxLog :
        (m_status[s] = Leader /\ getLastLogIndex(s) >= i)
            ~> (m_lastApplied[s] >= i \/ m_status[s] # Leader)
=============================================================================

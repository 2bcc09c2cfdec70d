------------------------------- MODULE KvServer -------------------------------
(* The key-value service on top of Raft: the Clerks that send requests and     *)
(* retry them, the KvServers that put them through Raft, wait on a channel per *)
(* log index and answer, and the loop that applies what Raft has committed.    *)
(* Raft itself is its promise: one sequence of committed commands, delivered   *)
(* to every server in order; who believes to lead may change at any moment.    *)
EXTENDS Naturals, Sequences, FiniteSets, FiniteSetsExt

CONSTANTS
    Client,     \* Clerk objects, one request at a time each
    NServers,   \* servers are 0..NServers-1, the order in which a Clerk tries them
    Key,        \* keys
    Budgets,    \* bounds: requests of each client, log indices, calls that fail (request
                \* or answer lost) and restarts; a behaviour keeps to one of them
    LateGets,   \* may a client go on while a Get it gave up is still running?
    None        \* absent

Budget == [requests : [Client -> Nat], index : Nat, fails : Nat, restarts : Nat]

ASSUME KvAssumption == NServers \in Nat \ {0} /\ LateGets \in BOOLEAN /\ Budgets \subseteq Budget

VARIABLES
    \* Clerk
    m_requestId,      \* [Client -> last request id used]
    m_recentLeaderId, \* [Client -> server that last answered OK]
    request,          \* [Client -> Op under way, or None]
    server,           \* [Client -> server the current attempt goes to]
    waiting,          \* [Client -> the call of this attempt was delivered]
    returned,         \* [Client -> what the last request returned]
    \* KvServer
    m_skipList,       \* [Server -> [Key -> value]]
    m_lastRequestId,  \* [Server -> [Client -> id], 0 when absent]
    waitApplyCh,      \* [Server -> [index -> queue of Op]], a map on some indices
    handlers,         \* Get and PutAppend handlers in progress
    loop,             \* [Server -> what ReadRaftApplyCommandLoop is doing]
    \* Raft
    committed,        \* the committed commands
    proposed,         \* <<index, Op>> appended to some log and not yet committed
    lastLogIndex,     \* [Server -> last index of its log]
    lastApplied,      \* [Server -> commands taken from applyChan]
    \* bookkeeping
    since,            \* [Client -> commands committed when the request was made]
    budget            \* what is left of the bounds

clerkVars == <<m_requestId, m_recentLeaderId, request, server, waiting, returned, since>>
dbVars == <<m_skipList, m_lastRequestId>>
raftVars == <<committed, proposed, lastLogIndex>>
applyVars == <<loop, lastApplied>>
vars == <<clerkVars, dbVars, waitApplyCh, handlers, raftVars, applyVars, budget>>

Server == 0..NServers-1
RequestId == UNION {UNION {1..b.requests[c] : c \in Client} : b \in Budgets}
Op == [Operation : {"Get", "Put"}, Key : Key, ClientId : Client, RequestId : RequestId]
Value == {op \in Op : op.Operation = "Put"} \cup {None}

ASSUME NoneAssumption == None \notin Op

\* The value written is named after the request that writes it.
SameRequest(a, b) == a.ClientId = b.ClientId /\ a.RequestId = b.RequestId

Idle == [at |-> "Pop", op |-> None]

\* A map without one of its keys, and with one more.
Without(map, i) == [j \in DOMAIN map \ {i} |-> map[j]]
With(map, i, v) == [j \in DOMAIN map \cup {i} |-> IF j = i THEN v ELSE map[j]]

ifRequestDuplicate_Older(s, op) ==      \* mutant: < for <=
    op.RequestId < m_lastRequestId[s][op.ClientId]

ifRequestDuplicate(s, op) == op.RequestId <= m_lastRequestId[s][op.ClientId]

Init ==
    /\ m_requestId = [c \in Client |-> 0]
    /\ m_recentLeaderId = [c \in Client |-> 0]
    /\ request = [c \in Client |-> None]
    /\ server = [c \in Client |-> 0]
    /\ waiting = [c \in Client |-> FALSE]
    /\ returned = [c \in Client |-> None]
    /\ m_skipList = [s \in Server |-> [k \in Key |-> None]]
    /\ m_lastRequestId = [s \in Server |-> [c \in Client |-> 0]]
    /\ waitApplyCh = [s \in Server |-> <<>>]
    /\ handlers = {}
    /\ loop = [s \in Server |-> Idle]
    /\ committed = <<>> /\ proposed = {}
    /\ lastLogIndex = [s \in Server |-> 0]
    /\ lastApplied = [s \in Server |-> 0]
    /\ since = [c \in Client |-> 0]
    /\ budget \in Budgets

-----------------------------------------------------------------------------
(* The Puts in effect: committed ones, each the first with its request.       *)

InEffect(i) ==
    /\ committed[i].Operation = "Put"
    /\ \A j \in 1..i-1 : ~SameRequest(committed[j], committed[i])

\* What every committed command does to the dictionary: a Put, or nothing.
Effects == [i \in 1..Len(committed) |-> IF InEffect(i) THEN committed[i] ELSE None]

-----------------------------------------------------------------------------
(* Clerk *)

\* Clerk::Get, Clerk::Put: a new request under the next id.
Invoke(c) ==
    /\ request[c] = None /\ m_requestId[c] < budget.requests[c]
    /\ LateGets \/ \A h \in handlers : h.op.ClientId = c => h.op.Operation = "Put"
    /\ m_requestId' = [m_requestId EXCEPT ![c] = @ + 1]
    /\ \E op \in {"Get", "Put"}, k \in Key :
           request' = [request EXCEPT ![c] =
               [Operation |-> op, Key |-> k, ClientId |-> c, RequestId |-> m_requestId[c] + 1]]
    /\ server' = [server EXCEPT ![c] = m_recentLeaderId[c]]
    /\ since' = [since EXCEPT ![c] = Len(committed)]
    /\ returned' = [returned EXCEPT ![c] = None]
    /\ UNCHANGED <<m_recentLeaderId, waiting, dbVars, waitApplyCh, handlers, raftVars,
                   applyVars, budget>>

TryNext_NoWrap(c) ==                    \* mutant: % m_servers.size() forgotten
    /\ server' = [server EXCEPT ![c] = @ + 1]
    /\ waiting' = [waiting EXCEPT ![c] = FALSE]

\* The attempt failed: go on with the next server.
TryNext(c) ==
    /\ server' = [server EXCEPT ![c] = (@ + 1) % NServers]
    /\ waiting' = [waiting EXCEPT ![c] = FALSE]

\* The handlers without the one that serves c's current attempt, if any; that
\* one runs on, but nobody waits for its answer any more.
Orphan(c) == {IF h.op.ClientId = c THEN [h EXCEPT !.awaited = FALSE] ELSE h : h \in handlers}

\* !ok: the request or the answer is lost.
CallFails(c) ==
    /\ request[c] # None /\ budget.fails > 0
    /\ budget' = [budget EXCEPT !.fails = @ - 1]
    /\ TryNext(c)
    /\ handlers' = Orphan(c)
    /\ UNCHANGED <<m_requestId, m_recentLeaderId, request, returned, since, dbVars, waitApplyCh,
                   raftVars, applyVars>>

\* The Clerk's loop on a reply: ErrWrongLeader tries the next server; ErrNoKey
\* returns "" without remembering the server; OK remembers it and returns.
Reply(c, s, err, value) ==
    \/ /\ err = "ErrWrongLeader"
       /\ TryNext(c)
       /\ UNCHANGED <<m_requestId, m_recentLeaderId, request, returned, since>>
    \/ /\ err \in {"OK", "ErrNoKey"}
       /\ request' = [request EXCEPT ![c] = None]
       /\ waiting' = [waiting EXCEPT ![c] = FALSE]
       /\ returned' = [returned EXCEPT ![c] = value]
       /\ m_recentLeaderId' = IF err = "OK" THEN [m_recentLeaderId EXCEPT ![c] = s]
                                            ELSE m_recentLeaderId
       /\ server' = [server EXCEPT ![c] = 0]
       /\ since' = [since EXCEPT ![c] = 0]
       /\ UNCHANGED m_requestId

-----------------------------------------------------------------------------
(* Raft, as KvServer sees it *)

\* The largest index in use: the next one is free on every log.
LastProposed == Max({0, Len(committed)} \cup {p[1] : p \in proposed})

\* Raft::Start on a server that believes to lead: the command is appended under
\* an index above every one this log has had (no log is ever truncated).
Start(s, op, i) ==
    /\ i \in lastLogIndex[s]+1..LastProposed+1 /\ i <= budget.index
    /\ proposed' = IF i > Len(committed) THEN proposed \cup {<<i, op>>} ELSE proposed
    /\ lastLogIndex' = [lastLogIndex EXCEPT ![s] = i]
    /\ UNCHANGED committed

\* A majority holds the command some leader put at the next index.
Commit ==
    /\ \E p \in proposed :
           /\ p[1] = Len(committed) + 1
           /\ committed' = Append(committed, p[2])
           /\ proposed' = {q \in proposed : q[1] # p[1]}
    /\ UNCHANGED <<clerkVars, dbVars, waitApplyCh, handlers, lastLogIndex, applyVars, budget>>

-----------------------------------------------------------------------------
(* KvServer::Get and KvServer::PutAppend *)

\* The call reaches a server that does not lead.
HandleWrongLeader(c) ==
    /\ request[c] # None /\ ~waiting[c]
    /\ Reply(c, server[c], "ErrWrongLeader", None)
    /\ UNCHANGED <<dbVars, waitApplyCh, handlers, raftVars, applyVars, budget>>

\* The call reaches a server that believes to lead: Start returned an index.
HandleStart(c) ==
    /\ request[c] # None /\ ~waiting[c]
    /\ \E i \in 1..budget.index :
           /\ Start(server[c], request[c], i)
           /\ handlers' = handlers \cup
                  {[op |-> request[c], at |-> "start", srv |-> server[c], index |-> i, awaited |-> TRUE,
                    err |-> None, value |-> None]}
    /\ waiting' = [waiting EXCEPT ![c] = TRUE]
    /\ UNCHANGED <<m_requestId, m_recentLeaderId, request, server, returned, since, dbVars,
                   waitApplyCh, applyVars, budget>>

Becomes(h, g) == handlers' = (handlers \ {h}) \cup {g}

\* Under m_mtx: find or create the channel of the index.
CreateWaitCh(h) ==
    /\ h.at = "start"
    /\ waitApplyCh' = IF h.index \in DOMAIN waitApplyCh[h.srv] THEN waitApplyCh
                      ELSE [waitApplyCh EXCEPT ![h.srv] = With(@, h.index, <<>>)]
    /\ Becomes(h, [h EXCEPT !.at = "wait"])
    /\ UNCHANGED <<clerkVars, dbVars, raftVars, applyVars, budget>>

PopWaitCh_Trusts(h) ==                  \* mutant: the Op popped is not compared
    /\ h.at = "wait" /\ h.index \in DOMAIN waitApplyCh[h.srv]
    /\ waitApplyCh[h.srv][h.index] # <<>>
    /\ Becomes(h, IF h.op.Operation = "Get" THEN [h EXCEPT !.at = "execute"]
                  ELSE [h EXCEPT !.at = "erase", !.err = "OK"])
    /\ waitApplyCh' = [waitApplyCh EXCEPT ![h.srv][h.index] = Tail(@)]
    /\ UNCHANGED <<clerkVars, dbVars, raftVars, applyVars, budget>>

\* timeOutPop returned an Op; it is this request's or a leader change put
\* another one at the index.
PopWaitCh(h) ==
    /\ h.at = "wait" /\ h.index \in DOMAIN waitApplyCh[h.srv]
    /\ waitApplyCh[h.srv][h.index] # <<>>
    /\ LET raftCommitOp == Head(waitApplyCh[h.srv][h.index])
       IN  Becomes(h, IF ~SameRequest(raftCommitOp, h.op)
                      THEN [h EXCEPT !.at = "erase", !.err = "ErrWrongLeader"]
                      ELSE IF h.op.Operation = "Get" THEN [h EXCEPT !.at = "execute"]
                      ELSE [h EXCEPT !.at = "erase", !.err = "OK"])
    /\ waitApplyCh' = [waitApplyCh EXCEPT ![h.srv][h.index] = Tail(@)]
    /\ UNCHANGED <<clerkVars, dbVars, raftVars, applyVars, budget>>

\* timeOutPop returned false.  A Put that was executed meanwhile is OK; a Get
\* that was executed before may be executed again by a server that believes to
\* lead.  The step is the look at m_lastRequestId: the timeout was at some moment
\* before, when the channel was empty, and a command may have been pushed since.
TimeoutWaitCh(h) ==
    /\ h.at = "wait" /\ h.index \in DOMAIN waitApplyCh[h.srv]
    /\ \/ /\ h.op.Operation = "Put" => ~ifRequestDuplicate(h.srv, h.op)
          /\ Becomes(h, [h EXCEPT !.at = "erase", !.err = "ErrWrongLeader"])
       \/ /\ ifRequestDuplicate(h.srv, h.op)
          /\ Becomes(h, IF h.op.Operation = "Get" THEN [h EXCEPT !.at = "execute"]
                        ELSE [h EXCEPT !.at = "erase", !.err = "OK"])
    /\ UNCHANGED <<clerkVars, dbVars, waitApplyCh, raftVars, applyVars, budget>>

\* ExecuteGetOpOnKVDB records the request's id whatever it was before.
ExecuteGetOpOnKVDB(h) ==
    /\ h.at = "execute"
    /\ LET value == m_skipList[h.srv][h.op.Key]
       IN  Becomes(h, [h EXCEPT !.at = "erase", !.value = value,
                                !.err = IF value = None THEN "ErrNoKey" ELSE "OK"])
    /\ m_lastRequestId' = [m_lastRequestId EXCEPT ![h.srv][h.op.ClientId] = h.op.RequestId]
    /\ UNCHANGED <<clerkVars, m_skipList, waitApplyCh, raftVars, applyVars, budget>>

\* The channel is erased and deleted; the answer leaves when the handler
\* returns, and reaches the Clerk if it still waits.
EraseWaitCh(h) ==
    /\ h.at = "erase"
    /\ waitApplyCh' = [waitApplyCh EXCEPT ![h.srv] = Without(@, h.index)]
    /\ handlers' = handlers \ {h}
    /\ IF h.awaited THEN Reply(h.op.ClientId, h.srv, h.err, h.value) ELSE UNCHANGED clerkVars
    /\ UNCHANGED <<dbVars, raftVars, applyVars, budget>>

Handle(h) ==
    CreateWaitCh(h) \/ PopWaitCh(h) \/ TimeoutWaitCh(h) \/ ExecuteGetOpOnKVDB(h) \/ EraseWaitCh(h)

-----------------------------------------------------------------------------
(* ReadRaftApplyCommandLoop *)

\* Pop the next command; ifRequestDuplicate decides under m_mtx, the command is
\* executed after m_mtx was released and taken again.
GetCommandFromRaft(s) ==
    /\ loop[s].at = "Pop" /\ lastApplied[s] < Len(committed)
    /\ LET op == committed[lastApplied[s] + 1]
           skip == ifRequestDuplicate(s, op) \/ op.Operation = "Get"
       IN  loop' = [loop EXCEPT ![s] = [at |-> IF skip THEN "Send" ELSE "Execute", op |-> op]]
    /\ lastApplied' = [lastApplied EXCEPT ![s] = @ + 1]
    /\ lastLogIndex' = [lastLogIndex EXCEPT ![s] = Max({@, lastApplied[s] + 1})]
    /\ UNCHANGED <<clerkVars, dbVars, waitApplyCh, handlers, committed, proposed, budget>>

ExecutePutOpOnKVDB_Insert(s) ==         \* mutant: insert_element keeps an old value
    /\ loop[s].at = "Execute"
    /\ LET op == loop[s].op
       IN  /\ m_skipList' = [m_skipList EXCEPT ![s][op.Key] = IF @ = None THEN op ELSE @]
           /\ m_lastRequestId' = [m_lastRequestId EXCEPT ![s][op.ClientId] = op.RequestId]
    /\ loop' = [loop EXCEPT ![s].at = "Send"]
    /\ UNCHANGED <<clerkVars, waitApplyCh, handlers, raftVars, lastApplied, budget>>

ExecutePutOpOnKVDB(s) ==
    /\ loop[s].at = "Execute"
    /\ LET op == loop[s].op
       IN  /\ m_skipList' = [m_skipList EXCEPT ![s][op.Key] = op]
           /\ m_lastRequestId' = [m_lastRequestId EXCEPT ![s][op.ClientId] = op.RequestId]
    /\ loop' = [loop EXCEPT ![s].at = "Send"]
    /\ UNCHANGED <<clerkVars, waitApplyCh, handlers, raftVars, lastApplied, budget>>

SendMessageToWaitChan_NoFind(s) ==      \* mutant: operator[] without find creates a channel
    /\ loop[s].at = "Send"
    /\ LET i == lastApplied[s]
       IN  waitApplyCh' = [waitApplyCh EXCEPT ![s] =
               With(@, i, Append(IF i \in DOMAIN @ THEN @[i] ELSE <<>>, loop[s].op))]
    /\ loop' = [loop EXCEPT ![s] = Idle]
    /\ UNCHANGED <<clerkVars, dbVars, handlers, raftVars, lastApplied, budget>>

SendMessageToWaitChan(s) ==
    /\ loop[s].at = "Send"
    /\ LET i == lastApplied[s]
       IN  waitApplyCh' = IF i \in DOMAIN waitApplyCh[s]
                          THEN [waitApplyCh EXCEPT ![s][i] = Append(@, loop[s].op)]
                          ELSE waitApplyCh
    /\ loop' = [loop EXCEPT ![s] = Idle]
    /\ UNCHANGED <<clerkVars, dbVars, handlers, raftVars, lastApplied, budget>>

ApplyStep(s) == GetCommandFromRaft(s) \/ ExecutePutOpOnKVDB(s) \/ SendMessageToWaitChan(s)

\* The process dies and starts again.  Its Persister empties both files, so the
\* constructor finds no snapshot; Raft delivers the committed commands again
\* from the first.  Clients that were waiting see their call fail.
Restart(s) ==
    /\ budget.restarts > 0
    /\ budget' = [budget EXCEPT !.restarts = @ - 1]
    /\ m_skipList' = [m_skipList EXCEPT ![s] = [k \in Key |-> None]]
    /\ m_lastRequestId' = [m_lastRequestId EXCEPT ![s] = [c \in Client |-> 0]]
    /\ waitApplyCh' = [waitApplyCh EXCEPT ![s] = <<>>]
    /\ loop' = [loop EXCEPT ![s] = Idle]
    /\ lastApplied' = [lastApplied EXCEPT ![s] = 0]
    /\ lastLogIndex' = [lastLogIndex EXCEPT ![s] = 0]
    /\ handlers' = {h \in handlers : h.srv # s}
    /\ LET cut == {h.op.ClientId : h \in {g \in handlers : g.srv = s /\ g.awaited}}
       IN  /\ server' = [c \in Client |-> IF c \in cut THEN (server[c] + 1) % NServers ELSE server[c]]
           /\ waiting' = [c \in Client |-> waiting[c] /\ c \notin cut]
    /\ UNCHANGED <<m_requestId, m_recentLeaderId, request, returned, since, committed, proposed>>

Next ==
    \/ \E c \in Client : Invoke(c) \/ CallFails(c) \/ HandleWrongLeader(c) \/ HandleStart(c)
    \/ \E h \in handlers : Handle(h)
    \/ \E s \in Server : ApplyStep(s) \/ Restart(s)
    \/ Commit

Spec == Init /\ [][Next]_vars

\* What the clients are promised, over the state of this module.
Store == INSTANCE KvStore WITH history <- Effects

-----------------------------------------------------------------------------
(* Properties *)

Handler == [op : Op, at : {"start", "wait", "execute", "erase"}, srv : Server,
            index : 1..budget.index, awaited : BOOLEAN,
            err : {"OK", "ErrNoKey", "ErrWrongLeader", None}, value : Value]

ClerkTypes ==
    /\ m_requestId \in [Client -> RequestId \cup {0}] /\ since \in [Client -> 0..budget.index]
    /\ m_recentLeaderId \in [Client -> Server] /\ server \in [Client -> Server]
    /\ request \in [Client -> Op \cup {None}] /\ waiting \in [Client -> BOOLEAN]
    /\ returned \in [Client -> Value]

ChannelTypes ==
    \A s \in Server : /\ DOMAIN waitApplyCh[s] \subseteq 1..budget.index
                      /\ \A i \in DOMAIN waitApplyCh[s] : waitApplyCh[s][i] \in Seq(Op)

ServerTypes ==
    /\ m_skipList \in [Server -> [Key -> Value]]
    /\ m_lastRequestId \in [Server -> [Client -> RequestId \cup {0}]]
    /\ loop \in [Server -> [at : {"Pop", "Execute", "Send"}, op : Op \cup {None}]]
    /\ lastApplied \in [Server -> 0..budget.index]

RaftTypes ==
    /\ committed \in Seq(Op) /\ proposed \subseteq (1..budget.index) \X Op
    /\ lastLogIndex \in [Server -> 0..budget.index]

BudgetTypes ==
    /\ budget \in Budget
    /\ \E b \in Budgets : /\ budget.requests = b.requests /\ budget.index = b.index
                          /\ budget.fails <= b.fails /\ budget.restarts <= b.restarts

\* Clerk, KvServer and Raft fields have their types (class Clerk, class KvServer).
TypeOK ==
    /\ ClerkTypes /\ ServerTypes /\ ChannelTypes /\ handlers \subseteq Handler
    /\ RaftTypes /\ BudgetTypes

\* A handler between creating and erasing its channel is the only one that
\* uses it, and a channel lives exactly as long as its handler: no handler
\* waits on a queue another one deleted, and none is leaked
\* (KvServer::Get and PutAppend, waitApplyCh).
ChannelOwned ==
    \A s \in Server :
        LET here == {h \in handlers : h.srv = s}
        IN  /\ DOMAIN waitApplyCh[s] = {h.index : h \in {g \in here : g.at # "start"}}
            /\ \A g, h \in here : g.index = h.index => g = h

\* The commands a server has executed or passed over.
Done(s) == lastApplied[s] - (IF loop[s].at = "Execute" THEN 1 ELSE 0)

\* The dictionary of a server is what the commands it took from Raft make of
\* it when every request counts once: servers that applied the same commands
\* hold the same data, whatever was retried, timed out or delivered again
\* after a restart (GetCommandFromRaft, ifRequestDuplicate).
ReplicaAgrees ==
    \A s \in Server, k \in Key :
        m_skipList[s][k] = Store!ValueAfter(Effects, Done(s), k)

\* A command is executed only if it is the first one committed with its
\* request: "duplicate command will not be exed" (GetCommandFromRaft).
ExecutedOnce == \A s \in Server : loop[s].at = "Execute" => InEffect(lastApplied[s])

\* The service is one dictionary: every Put takes effect once between its call
\* and its return, every Get returns a value of that time (Clerk::Get,
\* Clerk::Put over the whole service).
ImplementsStore == Store!Spec
=============================================================================

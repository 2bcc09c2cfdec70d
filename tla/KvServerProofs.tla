---------------------------- MODULE KvServerProofs ----------------------------
(* The fields of Clerk and KvServer keep their types and every channel of      *)
(* waitApplyCh belongs to one handler; and as long as no client goes on while  *)
(* a Get it gave up is running, every command is executed once, the replicas   *)
(* agree and the service implements KvStore.  For any number of clients,       *)
(* servers and keys and any bounds.                                            *)
EXTENDS KvServer, FiniteSetTheorems, SequenceTheorems, WellFoundedInduction, TLAPS

-----------------------------------------------------------------------------
(* The inductive invariant *)

\* waitApplyCh is a map of maps.
MapInv ==
    /\ DOMAIN waitApplyCh = Server
    /\ \A s \in Server : waitApplyCh[s] = [i \in DOMAIN waitApplyCh[s] |-> waitApplyCh[s][i]]

\* The loop works on the command it took last.
LoopInv ==
    \A s \in Server :
        /\ lastApplied[s] <= Len(committed)
        /\ loop[s].at # "Pop" => lastApplied[s] > 0 /\ loop[s].op = committed[lastApplied[s]]
        /\ loop[s].at = "Execute" => loop[s].op.Operation = "Put"

\* Start hands out indices above all the log has had: a handler's is not above.
IndexInv ==
    /\ Len(committed) <= budget.index
    /\ \A h \in handlers : h.index <= lastLogIndex[h.srv]

\* ChannelOwned, handler by handler.
OwnedInv ==
    /\ \A s \in Server : \A i \in 1..budget.index :
         i \in DOMAIN waitApplyCh[s] <=>
             \E h \in handlers : h.srv = s /\ h.at # "start" /\ h.index = i
    /\ \A g, h \in handlers : g.srv = h.srv /\ g.index = h.index => g = h

Inv == TypeOK /\ MapInv /\ LoopInv /\ IndexInv /\ OwnedInv


-----------------------------------------------------------------------------
(* Sets and maps *)

\* The larger of two.
LEMMA MaxOfTwo ==
    ASSUME NEW a \in Int, NEW b \in Int
    PROVE  Max({a, b}) = IF a >= b THEN a ELSE b
<1> DEFINE m == IF a >= b THEN a ELSE b
<1>1. m \in {a, b} /\ \A y \in {a, b} : m >= y
  OBVIOUS
<1>2. \A x \in {a, b} : (\A y \in {a, b} : x >= y) => x = m
  OBVIOUS
<1> HIDE DEF m
<1>3. Max({a, b}) = m
  BY <1>1, <1>2 DEF Max
<1> QED
  BY <1>3 DEF m

\* Request ids are positive, and the bound of a client allows the next one.
LEMMA RequestIds ==
    /\ RequestId \subseteq Nat \ {0} /\ \A n \in RequestId \cup {0} : n \in Nat
    /\ \A b \in Budgets, c \in Client : \A n \in 1..b.requests[c] : n \in RequestId
<1>1. \A b \in Budgets, c \in Client : b.requests[c] \in Nat
  BY KvAssumption DEF Budget
<1>2. \A n \in RequestId : \E b \in Budgets, c \in Client : n \in 1..b.requests[c]
  BY DEF RequestId
<1>3. \A b \in Budgets, c \in Client : \A n \in 1..b.requests[c] : n \in RequestId
  BY DEF RequestId
<1> QED
  BY <1>1, <1>2, <1>3

\* What is left of the bounds.
LEMMA BudgetFacts ==
    ASSUME TypeOK
    PROVE  /\ budget.index \in Nat /\ budget.fails \in Nat /\ budget.restarts \in Nat
           /\ \A c \in Client : \A n \in 1..budget.requests[c] : n \in RequestId
           /\ \A c \in Client : budget.requests[c] \in Nat
<1>1. budget \in Budget /\ \E b \in Budgets : budget.requests = b.requests
  BY DEF TypeOK, BudgetTypes
<1> QED
  BY <1>1, RequestIds DEF Budget

\* A handler that is given up changes nothing but that.
LEMMA OrphanHandlers ==
    ASSUME TypeOK, NEW c
    PROVE  /\ Orphan(c) \subseteq Handler
           /\ \A g \in Orphan(c) : \E h \in handlers :
                /\ g = IF h.op.ClientId = c THEN [h EXCEPT !.awaited = FALSE] ELSE h
                /\ g.op = h.op /\ g.at = h.at /\ g.srv = h.srv /\ g.index = h.index
                /\ g.err = h.err /\ g.value = h.value /\ (g.awaited => g = h /\ h.op.ClientId # c)
           /\ \A h \in handlers : \E g \in Orphan(c) :
                g.op = h.op /\ g.at = h.at /\ g.srv = h.srv /\ g.index = h.index
<1> DEFINE G(h) == IF h.op.ClientId = c THEN [h EXCEPT !.awaited = FALSE] ELSE h
<1>1. ASSUME NEW h \in handlers
      PROVE  /\ G(h) \in Handler
             /\ G(h).op = h.op /\ G(h).at = h.at /\ G(h).srv = h.srv /\ G(h).index = h.index
             /\ G(h).err = h.err /\ G(h).value = h.value
             /\ G(h).awaited => G(h) = h /\ h.op.ClientId # c
  <2>1. h \in Handler
    BY DEF TypeOK
  <2>2. CASE h.op.ClientId = c
    <3>1. G(h) = [h EXCEPT !.awaited = FALSE]
      BY <2>2
    <3> QED
      BY <2>1, <3>1 DEF Handler
  <2>3. CASE h.op.ClientId # c
    BY <2>1, <2>3
  <2> QED
    BY <2>2, <2>3
<1>2. Orphan(c) = {G(h) : h \in handlers}
  BY DEF Orphan
<1>3. \A g \in Orphan(c) : \E h \in handlers : g = G(h)
  BY <1>2
<1>4. \A h \in handlers : G(h) \in Orphan(c)
  BY <1>2
<1> HIDE DEF G
<1>5. \A g \in Orphan(c) : \E h \in handlers :
        /\ g = G(h)
        /\ g.op = h.op /\ g.at = h.at /\ g.srv = h.srv /\ g.index = h.index
        /\ g.err = h.err /\ g.value = h.value /\ (g.awaited => g = h /\ h.op.ClientId # c)
  BY <1>1, <1>3
<1>6. \A h \in handlers : \E g \in Orphan(c) :
        g.op = h.op /\ g.at = h.at /\ g.srv = h.srv /\ g.index = h.index
  BY <1>1, <1>4
<1>7. Orphan(c) \subseteq Handler
  BY <1>1, <1>3
<1> QED
  BY <1>5, <1>6, <1>7 DEF G

\* One server's channels change.
LEMMA ChannelUpdate ==
    ASSUME TypeOK, MapInv, NEW s \in Server, NEW map,
           map = [i \in DOMAIN map |-> map[i]], DOMAIN map \subseteq 1..budget.index,
           \A i \in DOMAIN map : map[i] \in Seq(Op),
           waitApplyCh' = [waitApplyCh EXCEPT ![s] = map], budget.index' = budget.index
    PROVE  /\ MapInv' /\ ChannelTypes' /\ waitApplyCh'[s] = map
           /\ \A x \in Server : x # s => waitApplyCh'[x] = waitApplyCh[x]
<1>1. /\ DOMAIN waitApplyCh' = Server /\ waitApplyCh'[s] = map
      /\ \A x \in Server : x # s => waitApplyCh'[x] = waitApplyCh[x]
  BY DEF MapInv
<1>2. MapInv'
  BY <1>1 DEF MapInv
<1>3. ChannelTypes'
  BY <1>1 DEF TypeOK, ChannelTypes
<1> QED
  BY <1>1, <1>2, <1>3

\* A handler goes on; its channel is there afterwards.
LEMMA HandlerGoesOn ==
    ASSUME Inv, NEW h \in handlers, NEW g \in Handler,
           g.srv = h.srv, g.index = h.index, g.at # "start", Becomes(h, g),
           \A s \in Server : DOMAIN waitApplyCh'[s] = DOMAIN waitApplyCh[s]
                                 \cup (IF s = h.srv THEN {h.index} ELSE {}),
           UNCHANGED <<lastLogIndex, committed, budget>>
    PROVE  OwnedInv' /\ IndexInv' /\ handlers' \subseteq Handler'
<1>1. handlers' = (handlers \ {h}) \cup {g} /\ h \in Handler /\ handlers \subseteq Handler
  BY DEF Becomes, Inv, TypeOK
<1>2. h.srv \in Server /\ h.index \in 1..budget.index
  BY <1>1 DEF Handler
<1>3. Handler' = Handler
  BY DEF Handler
<1>4. ASSUME NEW s \in Server, NEW i \in 1..budget.index
      PROVE  i \in DOMAIN waitApplyCh'[s] <=>
                 \E f \in handlers' : f.srv = s /\ f.at # "start" /\ f.index = i
  <2>1. i \in DOMAIN waitApplyCh[s] <=>
            \E f \in handlers : f.srv = s /\ f.at # "start" /\ f.index = i
    BY DEF Inv, OwnedInv
  <2>2. \A f \in handlers : f # h => ~(f.srv = h.srv /\ f.index = h.index)
    BY DEF Inv, OwnedInv
  <2>3. CASE s = h.srv /\ i = h.index
    <3>1. g \in handlers' /\ g.srv = s /\ g.at # "start" /\ g.index = i
      BY <1>1, <2>3
    <3> QED
      BY <2>3, <3>1
  <2>4. CASE ~(s = h.srv /\ i = h.index)
    <3>1. i \in DOMAIN waitApplyCh'[s] <=> i \in DOMAIN waitApplyCh[s]
      BY <2>4
    <3>2. \A f : f.srv = s /\ f.index = i => (f \in handlers' <=> f \in handlers)
      BY <1>1, <2>4
    <3> QED
      BY <2>1, <3>1, <3>2
  <2> QED
    BY <2>3, <2>4
<1>5. \A e, f \in handlers' : e.srv = f.srv /\ e.index = f.index => e = f
  BY <1>1 DEF Inv, OwnedInv
<1>6. OwnedInv'
  BY <1>4, <1>5 DEF OwnedInv
<1>7. IndexInv'
  BY <1>1 DEF Inv, IndexInv
<1> QED
  BY <1>1, <1>3, <1>6, <1>7

-----------------------------------------------------------------------------
(* Every step keeps the invariant *)

\* A new request: only the Clerk changes.
LEMMA InvokeKeeps ==
    ASSUME Inv, NEW c \in Client, Invoke(c)
    PROVE  Inv'
<1>1. /\ UNCHANGED <<m_recentLeaderId, waiting, dbVars, waitApplyCh, handlers, raftVars, applyVars, budget>>
      /\ m_requestId' = [m_requestId EXCEPT ![c] = @ + 1]
      /\ server' = [server EXCEPT ![c] = m_recentLeaderId[c]]
      /\ since' = [since EXCEPT ![c] = Len(committed)]
      /\ returned' = [returned EXCEPT ![c] = None]
      /\ m_requestId[c] < budget.requests[c]
  BY DEF Invoke
<1>2. PICK op \in {"Get", "Put"}, k \in Key :
          request' = [request EXCEPT ![c] =
              [Operation |-> op, Key |-> k, ClientId |-> c, RequestId |-> m_requestId[c] + 1]]
  BY DEF Invoke
<1>3. m_requestId[c] \in Nat /\ m_requestId[c] + 1 \in RequestId
  <2>1. m_requestId[c] \in Nat
    <3>1. m_requestId[c] \in RequestId \cup {0}
      BY DEF Inv, TypeOK, ClerkTypes
    <3> QED
      BY <3>1, RequestIds
  <2>2. budget.requests[c] \in Nat /\ \A n \in 1..budget.requests[c] : n \in RequestId
    BY BudgetFacts DEF Inv
  <2> QED
    BY <1>1, <2>1, <2>2
<1>4. [Operation |-> op, Key |-> k, ClientId |-> c, RequestId |-> m_requestId[c] + 1] \in Op
  BY <1>3 DEF Op
<1>5. Len(committed) \in 0..budget.index
  <2>1. Len(committed) \in Nat /\ budget.index \in Nat
    BY BudgetFacts, LenProperties DEF Inv, TypeOK, RaftTypes
  <2> QED
    BY <2>1 DEF Inv, IndexInv
<1>6. ClerkTypes'
  BY <1>1, <1>2, <1>3, <1>4, <1>5 DEF Inv, TypeOK, ClerkTypes, Value
<1>7. TypeOK'
  BY <1>1, <1>6 DEF Inv, TypeOK, ServerTypes, ChannelTypes, RaftTypes, BudgetTypes, Handler,
     dbVars, raftVars, applyVars
<1>8. MapInv' /\ LoopInv' /\ IndexInv' /\ OwnedInv'
  BY <1>1 DEF Inv, MapInv, LoopInv, IndexInv, OwnedInv, raftVars, applyVars
<1> QED
  BY <1>7, <1>8 DEF Inv

\* The next server's number is one of the numbers.
LEMMA NextServer ==
    ASSUME NEW s \in Server
    PROVE  (s + 1) % NServers \in Server
BY KvAssumption DEF Server

\* The Clerk's part of an answer or of a call that failed.
LEMMA TryNextTypes ==
    ASSUME TypeOK, NEW c \in Client, TryNext(c)
    PROVE  server' \in [Client -> Server] /\ waiting' \in [Client -> BOOLEAN]
<1>1. (server[c] + 1) % NServers \in Server
  BY NextServer DEF TypeOK, ClerkTypes
<1> QED
  BY <1>1 DEF TypeOK, ClerkTypes, TryNext

\* An answer leaves the Clerk's fields with their types.
LEMMA ReplyTypes ==
    ASSUME TypeOK, NEW c \in Client, NEW s \in Server, NEW err, NEW value \in Value,
           Reply(c, s, err, value), budget.index' = budget.index
    PROVE  ClerkTypes'
<1>1. budget.index \in Nat
  BY BudgetFacts
<1>2. CASE err = "ErrWrongLeader" /\ TryNext(c)
           /\ UNCHANGED <<m_requestId, m_recentLeaderId, request, returned, since>>
  BY <1>2, TryNextTypes DEF TypeOK, ClerkTypes
<1>3. CASE /\ request' = [request EXCEPT ![c] = None]
           /\ waiting' = [waiting EXCEPT ![c] = FALSE]
           /\ returned' = [returned EXCEPT ![c] = value]
           /\ m_recentLeaderId' = IF err = "OK" THEN [m_recentLeaderId EXCEPT ![c] = s]
                                                ELSE m_recentLeaderId
           /\ server' = [server EXCEPT ![c] = 0]
           /\ since' = [since EXCEPT ![c] = 0]
           /\ UNCHANGED m_requestId
  <2>1. 0 \in Server /\ 0 \in 0..budget.index
    BY <1>1, KvAssumption DEF Server
  <2>2. m_recentLeaderId' \in [Client -> Server]
    BY <1>3 DEF TypeOK, ClerkTypes
  <2> QED
    BY <1>3, <2>1, <2>2 DEF TypeOK, ClerkTypes
<1> QED
  BY <1>2, <1>3 DEF Reply

\* The budget stays within one of the bounds when one of its counts goes down.
LEMMA BudgetSpent ==
    ASSUME TypeOK,
           \/ budget.fails > 0 /\ budget' = [budget EXCEPT !.fails = @ - 1]
           \/ budget.restarts > 0 /\ budget' = [budget EXCEPT !.restarts = @ - 1]
    PROVE  BudgetTypes' /\ budget'.index = budget.index /\ Handler' = Handler
<1>1. PICK b \in Budgets : /\ budget.requests = b.requests /\ budget.index = b.index
                           /\ budget.fails <= b.fails /\ budget.restarts <= b.restarts
  BY DEF TypeOK, BudgetTypes
<1>2. b \in Budget /\ budget \in Budget
  BY KvAssumption DEF TypeOK, BudgetTypes
<1>3. /\ budget' \in Budget
      /\ budget'.requests = b.requests /\ budget'.index = b.index
      /\ budget'.fails <= b.fails /\ budget'.restarts <= b.restarts
  BY <1>1, <1>2 DEF Budget
<1>4. BudgetTypes'
  BY <1>3 DEF BudgetTypes
<1> QED
  BY <1>1, <1>3, <1>4 DEF Handler

\* A call that fails orphans its handler, which keeps its channel.
LEMMA CallFailsKeeps ==
    ASSUME Inv, NEW c \in Client, CallFails(c)
    PROVE  Inv'
<1>1. /\ TryNext(c) /\ handlers' = Orphan(c)
      /\ UNCHANGED <<m_requestId, m_recentLeaderId, request, returned, since, dbVars, waitApplyCh,
                     raftVars, applyVars>>
      /\ budget.fails > 0 /\ budget' = [budget EXCEPT !.fails = @ - 1]
  BY DEF CallFails
<1>2. BudgetTypes' /\ budget'.index = budget.index /\ Handler' = Handler
  BY <1>1, BudgetSpent DEF Inv
<1>3. ClerkTypes'
  <2>1. server' \in [Client -> Server] /\ waiting' \in [Client -> BOOLEAN]
    BY <1>1, TryNextTypes DEF Inv
  <2> QED
    BY <1>1, <1>2, <2>1 DEF Inv, TypeOK, ClerkTypes
<1>4. handlers' \subseteq Handler'
  BY <1>1, <1>2, OrphanHandlers DEF Inv
<1>5. TypeOK'
  BY <1>1, <1>2, <1>3, <1>4 DEF Inv, TypeOK, ServerTypes, ChannelTypes, RaftTypes,
     dbVars, raftVars, applyVars
<1>6. MapInv' /\ LoopInv'
  BY <1>1 DEF Inv, MapInv, LoopInv, raftVars, applyVars
<1>7. /\ \A g \in handlers' : \E h \in handlers :
           /\ g = IF h.op.ClientId = c THEN [h EXCEPT !.awaited = FALSE] ELSE h
           /\ g.at = h.at /\ g.srv = h.srv /\ g.index = h.index
      /\ \A h \in handlers : \E g \in handlers' :
           g.at = h.at /\ g.srv = h.srv /\ g.index = h.index
  BY <1>1, OrphanHandlers DEF Inv
<1>8. IndexInv'
  BY <1>1, <1>2, <1>7 DEF Inv, IndexInv, raftVars
<1>9. OwnedInv'
  <2>1. ASSUME NEW e \in handlers', NEW f \in handlers', e.srv = f.srv, e.index = f.index
        PROVE  e = f
    <3>1. PICK a \in handlers : /\ e = IF a.op.ClientId = c THEN [a EXCEPT !.awaited = FALSE] ELSE a
                                /\ e.srv = a.srv /\ e.index = a.index
      BY <1>7
    <3>2. PICK b \in handlers : /\ f = IF b.op.ClientId = c THEN [b EXCEPT !.awaited = FALSE] ELSE b
                                /\ f.srv = b.srv /\ f.index = b.index
      BY <1>7
    <3>3. a = b
      BY <2>1, <3>1, <3>2 DEF Inv, OwnedInv
    <3> QED
      BY <3>1, <3>2, <3>3
  <2>2. ASSUME NEW s \in Server, NEW i \in 1..budget.index
        PROVE  i \in DOMAIN waitApplyCh'[s] <=>
                   \E h \in handlers' : h.srv = s /\ h.at # "start" /\ h.index = i
    BY <1>1, <1>7 DEF Inv, OwnedInv
  <2> QED
    BY <1>2, <2>1, <2>2 DEF OwnedInv
<1> QED
  BY <1>5, <1>6, <1>8, <1>9 DEF Inv

\* A server that does not lead sends the Clerk on.
LEMMA HandleWrongLeaderKeeps ==
    ASSUME Inv, NEW c \in Client, HandleWrongLeader(c)
    PROVE  Inv'
<1>1. /\ Reply(c, server[c], "ErrWrongLeader", None)
      /\ UNCHANGED <<dbVars, waitApplyCh, handlers, raftVars, applyVars, budget>>
  BY DEF HandleWrongLeader
<1>2. server[c] \in Server /\ None \in Value
  BY DEF Inv, TypeOK, ClerkTypes, Value
<1>3. ClerkTypes'
  BY <1>1, <1>2, ReplyTypes DEF Inv
<1>4. TypeOK'
  BY <1>1, <1>3 DEF Inv, TypeOK, ServerTypes, ChannelTypes, RaftTypes, BudgetTypes, Handler,
     dbVars, raftVars, applyVars
<1>5. MapInv' /\ LoopInv' /\ IndexInv' /\ OwnedInv'
  BY <1>1 DEF Inv, MapInv, LoopInv, IndexInv, OwnedInv, raftVars, applyVars
<1> QED
  BY <1>4, <1>5 DEF Inv

\* Start returns an index no other handler of the server has.
LEMMA HandleStartKeeps ==
    ASSUME Inv, NEW c \in Client, HandleStart(c)
    PROVE  Inv'
<1> DEFINE s == server[c]
<1>1. PICK i \in 1..budget.index :
          /\ Start(s, request[c], i)
          /\ handlers' = handlers \cup
                 {[op |-> request[c], at |-> "start", srv |-> s, index |-> i, awaited |-> TRUE,
                   err |-> None, value |-> None]}
  BY DEF HandleStart
<1>2. /\ waiting' = [waiting EXCEPT ![c] = TRUE] /\ request[c] # None
      /\ UNCHANGED <<m_requestId, m_recentLeaderId, request, server, returned, since, dbVars,
                     waitApplyCh, applyVars, budget>>
  BY DEF HandleStart
<1>3. /\ i > lastLogIndex[s] /\ i \in Nat /\ UNCHANGED committed
      /\ proposed' = IF i > Len(committed) THEN proposed \cup {<<i, request[c]>>} ELSE proposed
      /\ lastLogIndex' = [lastLogIndex EXCEPT ![s] = i]
  <2>1. s \in Server
    BY DEF Inv, TypeOK, ClerkTypes
  <2>2. lastLogIndex[s] \in Nat
    BY <2>1, BudgetFacts DEF Inv, TypeOK, RaftTypes
  <2> QED
    BY <1>1, <2>2 DEF Start
<1>4. s \in Server /\ request[c] \in Op
  BY <1>2 DEF Inv, TypeOK, ClerkTypes
<1> HIDE DEF s
<1> DEFINE g == [op |-> request[c], at |-> "start", srv |-> s, index |-> i, awaited |-> TRUE,
                 err |-> None, value |-> None]
<1>5. g \in Handler /\ g.srv = s /\ g.index = i /\ g.at = "start"
  BY <1>4 DEF Handler, Value
<1>6. handlers' = handlers \cup {g}
  BY <1>1
<1> HIDE DEF g
<1>7. budget.index \in Nat /\ Handler' = Handler
  BY <1>2, BudgetFacts DEF Inv, Handler
<1>8. ClerkTypes' /\ ServerTypes' /\ ChannelTypes' /\ BudgetTypes'
  BY <1>2 DEF Inv, TypeOK, ClerkTypes, ServerTypes, ChannelTypes, BudgetTypes, dbVars, applyVars
<1>9. RaftTypes'
  <2>1. <<i, request[c]>> \in (1..budget.index) \X Op
    BY <1>4
  <2>2. i \in 0..budget.index
    BY <1>7
  <2> QED
    BY <1>2, <1>3, <1>4, <2>1, <2>2 DEF Inv, TypeOK, RaftTypes
<1>10. TypeOK'
  BY <1>5, <1>6, <1>7, <1>8, <1>9 DEF Inv, TypeOK
<1>11. MapInv' /\ LoopInv'
  BY <1>2, <1>3 DEF Inv, MapInv, LoopInv, applyVars
<1>12. \A h \in handlers : h.srv \in Server /\ h.index \in Nat /\ lastLogIndex[h.srv] \in Nat
  <2> SUFFICES ASSUME NEW h \in handlers
               PROVE  h.srv \in Server /\ h.index \in Nat /\ lastLogIndex[h.srv] \in Nat
    OBVIOUS
  <2>1. h \in Handler
    BY DEF Inv, TypeOK
  <2>2. h.srv \in Server /\ h.index \in 1..budget.index
    BY <2>1 DEF Handler
  <2> QED
    BY <1>7, <2>2 DEF Inv, TypeOK, RaftTypes
<1>13. \A h \in handlers : h.srv = s => h.index < i
  BY <1>3, <1>12 DEF Inv, IndexInv
<1>14. IndexInv'
  <2>1. \A h \in handlers : h.index <= lastLogIndex'[h.srv]
    <3> SUFFICES ASSUME NEW h \in handlers PROVE h.index <= lastLogIndex'[h.srv]
      OBVIOUS
    <3>1. lastLogIndex'[h.srv] = IF h.srv = s THEN i ELSE lastLogIndex[h.srv]
      BY <1>3, <1>12 DEF Inv, TypeOK, RaftTypes
    <3> QED
      BY <1>3, <1>12, <1>13, <3>1 DEF Inv, IndexInv
  <2>2. lastLogIndex'[s] = i
    BY <1>3, <1>4 DEF Inv, TypeOK, RaftTypes
  <2> QED
    BY <1>2, <1>3, <1>5, <1>6, <2>1, <2>2 DEF Inv, IndexInv
<1>15. OwnedInv'
  <2>1. \A e, f \in handlers' : e.srv = f.srv /\ e.index = f.index => e = f
    BY <1>3, <1>5, <1>6, <1>12, <1>13 DEF Inv, OwnedInv
  <2>2. \A h : h \in handlers' /\ h.at # "start" <=> h \in handlers /\ h.at # "start"
    BY <1>5, <1>6
  <2> QED
    BY <1>2, <2>1, <2>2 DEF Inv, OwnedInv
<1> QED
  BY <1>10, <1>11, <1>14, <1>15 DEF Inv

\* What a handler of the invariant has.
LEMMA HandlerFacts ==
    ASSUME Inv, NEW h \in handlers
    PROVE  /\ h \in Handler /\ h.op \in Op /\ h.srv \in Server /\ h.index \in 1..budget.index
           /\ h.index \in Nat /\ h.value \in Value
           /\ h.at # "start" => h.index \in DOMAIN waitApplyCh[h.srv]
<1>1. h \in Handler /\ budget.index \in Nat
  BY BudgetFacts DEF Inv, TypeOK
<1>2. /\ h.op \in Op /\ h.srv \in Server /\ h.index \in 1..budget.index /\ h.value \in Value
  BY <1>1 DEF Handler
<1>3. h.at # "start" => h.index \in DOMAIN waitApplyCh[h.srv]
  BY <1>2 DEF Inv, OwnedInv
<1> QED
  BY <1>1, <1>2, <1>3

\* Only the handler, its channel and the dictionary's ids change.
LEMMA HandlerStepTypes ==
    ASSUME Inv, ChannelTypes', handlers' \subseteq Handler', MapInv', OwnedInv', IndexInv',
           m_lastRequestId' \in [Server -> [Client -> RequestId \cup {0}]],
           UNCHANGED <<clerkVars, m_skipList, raftVars, applyVars, budget>>
    PROVE  Inv'
<1>1. ClerkTypes' /\ ServerTypes' /\ RaftTypes' /\ BudgetTypes'
  BY DEF Inv, TypeOK, ClerkTypes, ServerTypes, RaftTypes, BudgetTypes, clerkVars, raftVars,
     applyVars
<1>2. LoopInv'
  BY DEF Inv, LoopInv, raftVars, applyVars
<1> QED
  BY <1>1, <1>2 DEF Inv, TypeOK

\* A handler finds or creates its channel.
LEMMA CreateWaitChKeeps ==
    ASSUME Inv, NEW h \in handlers, CreateWaitCh(h)
    PROVE  Inv'
<1> DEFINE g == [h EXCEPT !.at = "wait"]
           s == h.srv
           i == h.index
<1>1. /\ h.at = "start" /\ Becomes(h, g)
      /\ UNCHANGED <<clerkVars, dbVars, raftVars, applyVars, budget>>
      /\ waitApplyCh' = IF i \in DOMAIN waitApplyCh[s] THEN waitApplyCh
                        ELSE [waitApplyCh EXCEPT ![s] = With(@, i, <<>>)]
  BY DEF CreateWaitCh
<1>2. h \in Handler /\ s \in Server /\ i \in 1..budget.index
  BY HandlerFacts
<1>3. g \in Handler /\ g.srv = h.srv /\ g.index = h.index /\ g.at # "start"
  BY <1>2 DEF Handler
<1> HIDE DEF g, s, i
<1>4. /\ MapInv' /\ ChannelTypes'
      /\ \A x \in Server : DOMAIN waitApplyCh'[x] = DOMAIN waitApplyCh[x]
                               \cup (IF x = s THEN {i} ELSE {})
  <2>1. CASE i \in DOMAIN waitApplyCh[s]
    BY <1>1, <2>1 DEF Inv, MapInv, TypeOK, ChannelTypes
  <2>2. CASE i \notin DOMAIN waitApplyCh[s]
    <3> DEFINE map == With(waitApplyCh[s], i, <<>>)
    <3>1. waitApplyCh' = [waitApplyCh EXCEPT ![s] = map]
      BY <1>1, <1>2, <2>2 DEF Inv, MapInv
    <3>2. /\ DOMAIN map = DOMAIN waitApplyCh[s] \cup {i}
          /\ map = [j \in DOMAIN map |-> map[j]]
      BY DEF With
    <3>3. <<>> \in Seq(Op)
      BY EmptySeq
    <3>4. \A j \in DOMAIN map : map[j] \in Seq(Op)
      BY <1>2, <3>3 DEF Inv, TypeOK, ChannelTypes, With
    <3>5. DOMAIN map \subseteq 1..budget.index
      BY <1>2, <3>2 DEF Inv, TypeOK, ChannelTypes
    <3> HIDE DEF map
    <3>6. /\ MapInv' /\ ChannelTypes' /\ waitApplyCh'[s] = map
          /\ \A x \in Server : x # s => waitApplyCh'[x] = waitApplyCh[x]
      BY <1>1, <1>2, <3>1, <3>2, <3>4, <3>5, ChannelUpdate DEF Inv
    <3> QED
      BY <3>2, <3>6
  <2> QED
    BY <2>1, <2>2
<1>5. OwnedInv' /\ IndexInv' /\ handlers' \subseteq Handler'
  BY <1>1, <1>3, <1>4, HandlerGoesOn DEF raftVars, s, i
<1>6. m_lastRequestId' \in [Server -> [Client -> RequestId \cup {0}]] /\ UNCHANGED m_skipList
  BY <1>1 DEF Inv, TypeOK, ServerTypes, dbVars
<1> QED
  BY <1>1, <1>4, <1>5, <1>6, HandlerStepTypes

\* A step of a handler that leaves its channel where it is.
LEMMA HandlerAtChannel ==
    ASSUME Inv, NEW h \in handlers, h.at # "start", NEW g \in Handler,
           g.srv = h.srv, g.index = h.index, g.at # "start", Becomes(h, g),
           MapInv', ChannelTypes',
           \A x \in Server : DOMAIN waitApplyCh'[x] = DOMAIN waitApplyCh[x],
           m_lastRequestId' \in [Server -> [Client -> RequestId \cup {0}]],
           UNCHANGED <<clerkVars, m_skipList, raftVars, applyVars, budget>>
    PROVE  Inv'
<1>1. h.index \in DOMAIN waitApplyCh[h.srv]
  BY HandlerFacts
<1>2. \A x \in Server : DOMAIN waitApplyCh'[x] = DOMAIN waitApplyCh[x]
                            \cup (IF x = h.srv THEN {h.index} ELSE {})
  BY <1>1
<1>3. UNCHANGED <<lastLogIndex, committed, budget>>
  BY DEF raftVars
<1>4. OwnedInv' /\ IndexInv' /\ handlers' \subseteq Handler'
  BY <1>2, <1>3, HandlerGoesOn
<1> QED
  BY <1>4, HandlerStepTypes

\* A handler takes an Op from its channel.
LEMMA PopWaitChKeeps ==
    ASSUME Inv, NEW h \in handlers, PopWaitCh(h)
    PROVE  Inv'
<1> DEFINE s == h.srv
           i == h.index
           head == Head(waitApplyCh[s][i])
           g == IF ~SameRequest(head, h.op)
                THEN [h EXCEPT !.at = "erase", !.err = "ErrWrongLeader"]
                ELSE IF h.op.Operation = "Get" THEN [h EXCEPT !.at = "execute"]
                ELSE [h EXCEPT !.at = "erase", !.err = "OK"]
           q == Tail(waitApplyCh[s][i])
           map == [waitApplyCh[s] EXCEPT ![i] = q]
<1>1. /\ h.at = "wait" /\ Becomes(h, g) /\ i \in DOMAIN waitApplyCh[s] /\ waitApplyCh[s][i] # <<>>
      /\ waitApplyCh' = [waitApplyCh EXCEPT ![s][i] = Tail(@)]
      /\ UNCHANGED <<clerkVars, dbVars, raftVars, applyVars, budget>>
  BY DEF PopWaitCh
<1>2. h \in Handler /\ s \in Server /\ i \in 1..budget.index
  BY HandlerFacts
<1>3. /\ [h EXCEPT !.at = "erase", !.err = "ErrWrongLeader"] \in Handler
      /\ [h EXCEPT !.at = "execute"] \in Handler
      /\ [h EXCEPT !.at = "erase", !.err = "OK"] \in Handler
  BY <1>2 DEF Handler
<1>4. g \in Handler /\ g.srv = h.srv /\ g.index = h.index /\ g.at # "start"
  BY <1>2, <1>3 DEF Handler
<1> HIDE DEF g, head
<1>5. q \in Seq(Op)
  BY <1>1, <1>2, HeadTailProperties DEF Inv, TypeOK, ChannelTypes
<1>6. waitApplyCh' = [waitApplyCh EXCEPT ![s] = map]
  BY <1>1, <1>2
<1> HIDE DEF q
<1>7. /\ DOMAIN map = DOMAIN waitApplyCh[s] /\ map = [j \in DOMAIN map |-> map[j]]
      /\ \A j \in DOMAIN map : map[j] \in Seq(Op)
      /\ DOMAIN map \subseteq 1..budget.index
  BY <1>1, <1>2, <1>5 DEF Inv, TypeOK, ChannelTypes
<1> HIDE DEF map, s, i
<1>8. /\ MapInv' /\ ChannelTypes' /\ waitApplyCh'[s] = map
      /\ \A x \in Server : x # s => waitApplyCh'[x] = waitApplyCh[x]
  BY <1>1, <1>2, <1>6, <1>7, ChannelUpdate DEF Inv
<1>9. m_lastRequestId' \in [Server -> [Client -> RequestId \cup {0}]] /\ UNCHANGED m_skipList
  BY <1>1 DEF Inv, TypeOK, ServerTypes, dbVars
<1>10. \A x \in Server : DOMAIN waitApplyCh'[x] = DOMAIN waitApplyCh[x]
  BY <1>7, <1>8
<1> QED
  BY <1>1, <1>4, <1>8, <1>9, <1>10, HandlerAtChannel

\* A handler gives up waiting.
LEMMA TimeoutWaitChKeeps ==
    ASSUME Inv, NEW h \in handlers, TimeoutWaitCh(h)
    PROVE  Inv'
<1>1. h.at = "wait" /\ UNCHANGED <<clerkVars, dbVars, waitApplyCh, raftVars, applyVars, budget>>
  BY DEF TimeoutWaitCh
<1>2. h \in Handler
  BY HandlerFacts
<1>3. PICK g : /\ Becomes(h, g)
               /\ g \in {[h EXCEPT !.at = "erase", !.err = "ErrWrongLeader"],
                         [h EXCEPT !.at = "execute"], [h EXCEPT !.at = "erase", !.err = "OK"]}
  BY DEF TimeoutWaitCh
<1>4. g \in Handler /\ g.srv = h.srv /\ g.index = h.index /\ g.at # "start"
  BY <1>2, <1>3 DEF Handler
<1>5. MapInv' /\ ChannelTypes' /\ \A x \in Server : DOMAIN waitApplyCh'[x] = DOMAIN waitApplyCh[x]
  BY <1>1 DEF Inv, MapInv, TypeOK, ChannelTypes
<1>6. m_lastRequestId' \in [Server -> [Client -> RequestId \cup {0}]] /\ UNCHANGED m_skipList
  BY <1>1 DEF Inv, TypeOK, ServerTypes, dbVars
<1> QED
  BY <1>1, <1>3, <1>4, <1>5, <1>6, HandlerAtChannel

\* A Get reads the dictionary and records its id.
LEMMA ExecuteGetKeeps ==
    ASSUME Inv, NEW h \in handlers, ExecuteGetOpOnKVDB(h)
    PROVE  Inv'
<1> DEFINE v == m_skipList[h.srv][h.op.Key]
           g == [h EXCEPT !.at = "erase", !.value = v,
                          !.err = IF v = None THEN "ErrNoKey" ELSE "OK"]
<1>1. /\ h.at = "execute" /\ Becomes(h, g)
      /\ m_lastRequestId' = [m_lastRequestId EXCEPT ![h.srv][h.op.ClientId] = h.op.RequestId]
      /\ UNCHANGED <<clerkVars, m_skipList, waitApplyCh, raftVars, applyVars, budget>>
  BY DEF ExecuteGetOpOnKVDB
<1>2. h \in Handler /\ h.op \in Op /\ h.srv \in Server
  BY HandlerFacts
<1>3. v \in Value
  BY <1>2 DEF Inv, TypeOK, ServerTypes, Op
<1> HIDE DEF v
<1>4. g \in Handler /\ g.srv = h.srv /\ g.index = h.index /\ g.at # "start"
  BY <1>2, <1>3 DEF Handler
<1> HIDE DEF g
<1>5. MapInv' /\ ChannelTypes' /\ \A x \in Server : DOMAIN waitApplyCh'[x] = DOMAIN waitApplyCh[x]
  BY <1>1 DEF Inv, MapInv, TypeOK, ChannelTypes
<1>6. m_lastRequestId' \in [Server -> [Client -> RequestId \cup {0}]]
  <2>1. h.op.ClientId \in Client /\ h.op.RequestId \in RequestId
    BY <1>2 DEF Op
  <2> QED
    BY <1>1, <1>2, <2>1 DEF Inv, TypeOK, ServerTypes
<1> QED
  BY <1>1, <1>4, <1>5, <1>6, HandlerAtChannel

\* A handler erases its channel and answers: nobody else used the channel.
LEMMA EraseWaitChKeeps ==
    ASSUME Inv, NEW h \in handlers, EraseWaitCh(h)
    PROVE  Inv'
<1> DEFINE s == h.srv
           i == h.index
           map == Without(waitApplyCh[s], i)
<1>1. /\ h.at = "erase" /\ handlers' = handlers \ {h}
      /\ waitApplyCh' = [waitApplyCh EXCEPT ![s] = Without(@, i)]
      /\ UNCHANGED <<dbVars, raftVars, applyVars, budget>>
  BY DEF EraseWaitCh
<1>2. h \in Handler /\ s \in Server /\ i \in 1..budget.index /\ h.op \in Op /\ h.value \in Value
  BY HandlerFacts
<1>3. ClerkTypes'
  <2>1. CASE h.awaited
    <3>1. Reply(h.op.ClientId, h.srv, h.err, h.value)
      BY <2>1 DEF EraseWaitCh
    <3>2. h.op.ClientId \in Client
      BY <1>2 DEF Op
    <3> QED
      BY <1>1, <1>2, <3>1, <3>2, ReplyTypes DEF Inv
  <2>2. CASE ~h.awaited
    <3>1. UNCHANGED clerkVars
      BY <2>2 DEF EraseWaitCh
    <3> QED
      BY <1>1, <3>1 DEF Inv, TypeOK, ClerkTypes, clerkVars
  <2> QED
    BY <2>1, <2>2
<1>4. waitApplyCh' = [waitApplyCh EXCEPT ![s] = map]
  BY <1>1, <1>2 DEF Inv, MapInv
<1>5. /\ DOMAIN map = DOMAIN waitApplyCh[s] \ {i} /\ map = [j \in DOMAIN map |-> map[j]]
      /\ \A j \in DOMAIN map : map[j] \in Seq(Op)
      /\ DOMAIN map \subseteq 1..budget.index
  BY <1>2 DEF Inv, TypeOK, ChannelTypes, Without
<1> HIDE DEF map
<1>6. /\ MapInv' /\ ChannelTypes' /\ waitApplyCh'[s] = map
      /\ \A x \in Server : x # s => waitApplyCh'[x] = waitApplyCh[x]
  BY <1>1, <1>2, <1>4, <1>5, ChannelUpdate DEF Inv
<1>7. TypeOK'
  BY <1>1, <1>3, <1>6 DEF Inv, TypeOK, ServerTypes, RaftTypes, BudgetTypes, Handler,
     dbVars, raftVars, applyVars
<1>8. LoopInv' /\ IndexInv'
  BY <1>1 DEF Inv, LoopInv, IndexInv, raftVars, applyVars
<1>9. OwnedInv'
  <2>1. \A f \in handlers : f.srv = s /\ f.index = i => f = h
    BY DEF Inv, OwnedInv
  <2>2. ASSUME NEW x \in Server, NEW j \in 1..budget.index
        PROVE  j \in DOMAIN waitApplyCh'[x] <=>
                   \E f \in handlers' : f.srv = x /\ f.at # "start" /\ f.index = j
    <3>1. j \in DOMAIN waitApplyCh[x] <=>
              \E f \in handlers : f.srv = x /\ f.at # "start" /\ f.index = j
      BY DEF Inv, OwnedInv
    <3>2. CASE x = s /\ j = i
      BY <1>1, <1>5, <1>6, <2>1, <3>2
    <3>3. CASE ~(x = s /\ j = i)
      <4>1. j \in DOMAIN waitApplyCh'[x] <=> j \in DOMAIN waitApplyCh[x]
        BY <1>5, <1>6, <3>3
      <4>2. \A f : f.srv = x /\ f.index = j => (f \in handlers' <=> f \in handlers)
        BY <1>1, <3>3
      <4> QED
        BY <3>1, <4>1, <4>2
    <3> QED
      BY <3>2, <3>3
  <2>3. \A e, f \in handlers' : e.srv = f.srv /\ e.index = f.index => e = f
    BY <1>1 DEF Inv, OwnedInv
  <2> QED
    BY <1>1, <2>2, <2>3 DEF OwnedInv
<1> QED
  BY <1>6, <1>7, <1>8, <1>9 DEF Inv

\* The loop takes the next command.
LEMMA GetCommandKeeps ==
    ASSUME Inv, NEW s \in Server, GetCommandFromRaft(s)
    PROVE  Inv'
<1> DEFINE n == lastApplied[s] + 1
           op == committed[n]
           to == [at |-> IF ifRequestDuplicate(s, op) \/ op.Operation = "Get" THEN "Send" ELSE "Execute",
                  op |-> op]
<1>1. /\ lastApplied[s] < Len(committed)
      /\ loop' = [loop EXCEPT ![s] = to]
      /\ lastApplied' = [lastApplied EXCEPT ![s] = n]
      /\ lastLogIndex' = [lastLogIndex EXCEPT ![s] = Max({@, n})]
      /\ UNCHANGED <<clerkVars, dbVars, waitApplyCh, handlers, committed, proposed, budget>>
  BY DEF GetCommandFromRaft, Inv, TypeOK, ServerTypes, RaftTypes
<1>2. /\ budget.index \in Nat /\ committed \in Seq(Op) /\ Len(committed) \in Nat
      /\ lastApplied[s] \in Nat /\ lastLogIndex[s] \in Nat /\ lastLogIndex[s] <= budget.index
  BY BudgetFacts, LenProperties DEF Inv, TypeOK, ServerTypes, RaftTypes
<1>3. n \in 1..Len(committed) /\ Len(committed) <= budget.index
  BY <1>1, <1>2 DEF Inv, IndexInv
<1>4. op \in Op /\ (op.Operation # "Get" => op.Operation = "Put")
  <2>1. op \in Op
    BY <1>2, <1>3, ElementOfSeq
  <2> QED
    BY <2>1 DEF Op
<1>5. to \in [at : {"Pop", "Execute", "Send"}, op : Op \cup {None}]
  BY <1>4
<1>6. to.op = committed[n] /\ (to.at = "Execute" => op.Operation = "Put")
  BY <1>4
<1> HIDE DEF to, op
<1> DEFINE m == Max({lastLogIndex[s], n})
<1>7. m = IF lastLogIndex[s] >= n THEN lastLogIndex[s] ELSE n
  BY <1>2, <1>3, MaxOfTwo
<1> HIDE DEF n, m
<1>8. m \in 0..budget.index /\ lastLogIndex[s] <= m /\ n \in 0..budget.index
  BY <1>2, <1>3, <1>7
<1>9. lastLogIndex' = [lastLogIndex EXCEPT ![s] = m]
  BY <1>1 DEF m
<1>10. TypeOK'
  <2>1. ServerTypes' /\ RaftTypes'
    BY <1>1, <1>5, <1>8, <1>9 DEF Inv, TypeOK, ServerTypes, RaftTypes, dbVars
  <2> QED
    BY <1>1, <2>1 DEF Inv, TypeOK, ClerkTypes, ChannelTypes, BudgetTypes, Handler, clerkVars
<1>11. MapInv' /\ OwnedInv'
  BY <1>1 DEF Inv, MapInv, OwnedInv
<1>12. LoopInv'
  <2> SUFFICES ASSUME NEW x \in Server
               PROVE  /\ lastApplied'[x] <= Len(committed)
                      /\ loop'[x].at # "Pop" => lastApplied'[x] > 0 /\ loop'[x].op = committed[lastApplied'[x]]
                      /\ loop'[x].at = "Execute" => loop'[x].op.Operation = "Put"
    BY <1>1 DEF LoopInv
  <2>1. CASE x = s
    <3>1. lastApplied'[x] = n /\ loop'[x] = to
      BY <1>1, <2>1 DEF Inv, TypeOK, ServerTypes
    <3> QED
      BY <1>2, <1>3, <1>6, <3>1 DEF op
  <2>2. CASE x # s
    <3>1. lastApplied'[x] = lastApplied[x] /\ loop'[x] = loop[x]
      BY <1>1, <2>2 DEF Inv, TypeOK, ServerTypes
    <3> QED
      BY <3>1 DEF Inv, LoopInv
  <2> QED
    BY <2>1, <2>2
<1>13. IndexInv'
  <2> SUFFICES ASSUME NEW h \in handlers PROVE h.index <= lastLogIndex'[h.srv]
    BY <1>1, <1>3 DEF IndexInv
  <2>1. h.srv \in Server /\ h.index \in Nat /\ h.index <= lastLogIndex[h.srv]
    BY HandlerFacts DEF Inv, IndexInv
  <2>2. lastLogIndex'[h.srv] = IF h.srv = s THEN m ELSE lastLogIndex[h.srv]
    BY <1>9, <2>1 DEF Inv, TypeOK, RaftTypes
  <2> QED
    BY <1>2, <1>8, <2>1, <2>2
<1> QED
  BY <1>10, <1>11, <1>12, <1>13 DEF Inv

\* The loop executes a Put.
LEMMA ExecutePutKeeps ==
    ASSUME Inv, NEW s \in Server, ExecutePutOpOnKVDB(s)
    PROVE  Inv'
<1> DEFINE op == loop[s].op
<1>1. /\ loop[s].at = "Execute"
      /\ m_skipList' = [m_skipList EXCEPT ![s][op.Key] = op]
      /\ m_lastRequestId' = [m_lastRequestId EXCEPT ![s][op.ClientId] = op.RequestId]
      /\ loop' = [loop EXCEPT ![s].at = "Send"]
      /\ UNCHANGED <<clerkVars, waitApplyCh, handlers, raftVars, lastApplied, budget>>
  BY DEF ExecutePutOpOnKVDB
<1>2. lastApplied[s] \in 1..Len(committed) /\ op = committed[lastApplied[s]] /\ op.Operation = "Put"
  <2>1. lastApplied[s] \in Nat /\ Len(committed) \in Nat
    BY BudgetFacts, LenProperties DEF Inv, TypeOK, ServerTypes, RaftTypes
  <2> QED
    BY <1>1, <2>1 DEF Inv, LoopInv
<1>3. op \in Op /\ op \in Value
  <2>1. op \in Op
    BY <1>2, ElementOfSeq DEF Inv, TypeOK, RaftTypes
  <2> QED
    BY <1>2, <2>1 DEF Value
<1>4. loop[s] \in [at : {"Pop", "Execute", "Send"}, op : Op \cup {None}]
  BY DEF Inv, TypeOK, ServerTypes
<1> HIDE DEF op
<1>5. ServerTypes'
  <2>1. op.Key \in Key /\ op.ClientId \in Client /\ op.RequestId \in RequestId
    BY <1>3 DEF Op
  <2>2. m_skipList' \in [Server -> [Key -> Value]]
    BY <1>1, <1>3, <2>1 DEF Inv, TypeOK, ServerTypes
  <2>3. m_lastRequestId' \in [Server -> [Client -> RequestId \cup {0}]]
    BY <1>1, <2>1 DEF Inv, TypeOK, ServerTypes
  <2>4. loop' \in [Server -> [at : {"Pop", "Execute", "Send"}, op : Op \cup {None}]]
    BY <1>1, <1>4 DEF Inv, TypeOK, ServerTypes
  <2> QED
    BY <1>1, <2>2, <2>3, <2>4 DEF Inv, TypeOK, ServerTypes
<1>6. TypeOK'
  BY <1>1, <1>5 DEF Inv, TypeOK, ClerkTypes, ChannelTypes, RaftTypes, BudgetTypes, Handler,
     clerkVars, raftVars
<1>7. MapInv' /\ OwnedInv' /\ IndexInv'
  BY <1>1 DEF Inv, MapInv, OwnedInv, IndexInv, raftVars
<1>8. LoopInv'
  <2>1. \A x \in Server : /\ loop'[x].op = loop[x].op
                          /\ loop'[x].at = IF x = s THEN "Send" ELSE loop[x].at
    BY <1>1, <1>4 DEF Inv, TypeOK, ServerTypes
  <2> QED
    BY <1>1, <2>1 DEF Inv, LoopInv, raftVars
<1> QED
  BY <1>6, <1>7, <1>8 DEF Inv

\* The loop tells the handler that waits at the index, if any.
LEMMA SendKeeps ==
    ASSUME Inv, NEW s \in Server, SendMessageToWaitChan(s)
    PROVE  Inv'
<1> DEFINE i == lastApplied[s]
           q == Append(waitApplyCh[s][i], loop[s].op)
           map == [waitApplyCh[s] EXCEPT ![i] = q]
<1>1. /\ loop[s].at = "Send"
      /\ waitApplyCh' = IF i \in DOMAIN waitApplyCh[s]
                        THEN [waitApplyCh EXCEPT ![s][i] = Append(@, loop[s].op)]
                        ELSE waitApplyCh
      /\ loop' = [loop EXCEPT ![s] = Idle]
      /\ UNCHANGED <<clerkVars, dbVars, handlers, raftVars, lastApplied, budget>>
  BY DEF SendMessageToWaitChan
<1>2. loop[s].op \in Op
  <2>1. lastApplied[s] \in Nat /\ Len(committed) \in Nat
    BY BudgetFacts, LenProperties DEF Inv, TypeOK, ServerTypes, RaftTypes
  <2>2. lastApplied[s] \in 1..Len(committed) /\ loop[s].op = committed[lastApplied[s]]
    BY <1>1, <2>1 DEF Inv, LoopInv
  <2> QED
    BY <2>2, ElementOfSeq DEF Inv, TypeOK, RaftTypes
<1>3. /\ MapInv' /\ ChannelTypes'
      /\ \A x \in Server : DOMAIN waitApplyCh'[x] = DOMAIN waitApplyCh[x]
  <2>1. CASE i \notin DOMAIN waitApplyCh[s]
    BY <1>1, <2>1 DEF Inv, MapInv, TypeOK, ChannelTypes
  <2>2. CASE i \in DOMAIN waitApplyCh[s]
    <3>1. q \in Seq(Op)
      BY <1>2, <2>2, AppendProperties DEF Inv, TypeOK, ChannelTypes
    <3>2. waitApplyCh' = [waitApplyCh EXCEPT ![s] = map]
      BY <1>1, <2>2
    <3> HIDE DEF q
    <3>3. /\ DOMAIN map = DOMAIN waitApplyCh[s] /\ map = [j \in DOMAIN map |-> map[j]]
          /\ \A j \in DOMAIN map : map[j] \in Seq(Op)
          /\ DOMAIN map \subseteq 1..budget.index
      BY <2>2, <3>1 DEF Inv, TypeOK, ChannelTypes
    <3> HIDE DEF map, i
    <3>4. /\ MapInv' /\ ChannelTypes' /\ waitApplyCh'[s] = map
          /\ \A x \in Server : x # s => waitApplyCh'[x] = waitApplyCh[x]
      BY <1>1, <3>2, <3>3, ChannelUpdate DEF Inv
    <3> QED
      BY <3>3, <3>4
  <2> QED
    BY <2>1, <2>2
<1>4. Idle \in [at : {"Pop", "Execute", "Send"}, op : Op \cup {None}] /\ Idle.at = "Pop"
  BY DEF Idle
<1>5. TypeOK'
  <2>1. ServerTypes'
    BY <1>1, <1>4 DEF Inv, TypeOK, ServerTypes, dbVars
  <2> QED
    BY <1>1, <1>3, <2>1 DEF Inv, TypeOK, ClerkTypes, RaftTypes, BudgetTypes, Handler,
       clerkVars, raftVars
<1>6. OwnedInv' /\ IndexInv'
  BY <1>1, <1>3 DEF Inv, OwnedInv, IndexInv, raftVars
<1>7. LoopInv'
  <2>1. \A x \in Server : loop'[x] = IF x = s THEN Idle ELSE loop[x]
    BY <1>1 DEF Inv, TypeOK, ServerTypes
  <2> QED
    BY <1>1, <1>4, <2>1 DEF Inv, LoopInv, raftVars
<1> QED
  BY <1>3, <1>5, <1>6, <1>7 DEF Inv

\* A server starts again with nothing; its handlers and channels are gone.
LEMMA RestartKeeps ==
    ASSUME Inv, NEW s \in Server, Restart(s)
    PROVE  Inv'
<1>1. /\ budget.restarts > 0 /\ budget' = [budget EXCEPT !.restarts = @ - 1]
      /\ m_skipList' = [m_skipList EXCEPT ![s] = [k \in Key |-> None]]
      /\ m_lastRequestId' = [m_lastRequestId EXCEPT ![s] = [c \in Client |-> 0]]
      /\ waitApplyCh' = [waitApplyCh EXCEPT ![s] = <<>>]
      /\ loop' = [loop EXCEPT ![s] = Idle]
      /\ lastApplied' = [lastApplied EXCEPT ![s] = 0]
      /\ lastLogIndex' = [lastLogIndex EXCEPT ![s] = 0]
      /\ handlers' = {h \in handlers : h.srv # s}
      /\ UNCHANGED <<m_requestId, m_recentLeaderId, request, returned, since, committed, proposed>>
  BY DEF Restart
<1>2. PICK cut :
        /\ server' = [c \in Client |-> IF c \in cut THEN (server[c] + 1) % NServers ELSE server[c]]
        /\ waiting' = [c \in Client |-> waiting[c] /\ c \notin cut]
  BY DEF Restart
<1>3. BudgetTypes' /\ budget'.index = budget.index /\ Handler' = Handler
  BY <1>1, BudgetSpent DEF Inv
<1>4. budget.index \in Nat
  BY BudgetFacts DEF Inv
<1>5. ClerkTypes'
  <2>1. server' \in [Client -> Server]
    <3>1. \A c \in Client : server[c] \in Server /\ (server[c] + 1) % NServers \in Server
      BY NextServer DEF Inv, TypeOK, ClerkTypes
    <3> QED
      BY <1>2, <3>1
  <2>2. waiting' \in [Client -> BOOLEAN]
    BY <1>2
  <2> QED
    BY <1>1, <1>3, <2>1, <2>2 DEF Inv, TypeOK, ClerkTypes
<1>6. ServerTypes'
  <2>1. Idle \in [at : {"Pop", "Execute", "Send"}, op : Op \cup {None}] /\ 0 \in 0..budget.index
    BY <1>4 DEF Idle
  <2>2. [k \in Key |-> None] \in [Key -> Value] /\ [c \in Client |-> 0] \in [Client -> RequestId \cup {0}]
    BY DEF Value
  <2> QED
    BY <1>1, <1>3, <2>1, <2>2 DEF Inv, TypeOK, ServerTypes
<1>7. RaftTypes'
  BY <1>1, <1>3, <1>4 DEF Inv, TypeOK, RaftTypes
<1>8. /\ MapInv' /\ ChannelTypes' /\ waitApplyCh'[s] = <<>>
      /\ \A x \in Server : x # s => waitApplyCh'[x] = waitApplyCh[x]
  <2> DEFINE map == <<>>
  <2>1. /\ DOMAIN map = {} /\ map = [j \in DOMAIN map |-> map[j]]
    OBVIOUS
  <2>2. waitApplyCh' = [waitApplyCh EXCEPT ![s] = map]
    BY <1>1
  <2> HIDE DEF map
  <2>3. /\ MapInv' /\ ChannelTypes' /\ waitApplyCh'[s] = map
        /\ \A x \in Server : x # s => waitApplyCh'[x] = waitApplyCh[x]
    BY <1>3, <2>1, <2>2, ChannelUpdate DEF Inv
  <2> QED
    BY <2>3 DEF map
<1>9. TypeOK'
  BY <1>1, <1>3, <1>5, <1>6, <1>7, <1>8 DEF Inv, TypeOK
<1>10. LoopInv'
  <2>1. \A x \in Server : /\ loop'[x] = IF x = s THEN Idle ELSE loop[x]
                          /\ lastApplied'[x] = IF x = s THEN 0 ELSE lastApplied[x]
    BY <1>1 DEF Inv, TypeOK, ServerTypes
  <2>2. 0 <= Len(committed)
    BY LenProperties DEF Inv, TypeOK, RaftTypes
  <2> QED
    BY <1>1, <2>1, <2>2 DEF Inv, LoopInv, Idle
<1>11. IndexInv'
  <2>1. \A h \in handlers' : h \in handlers /\ lastLogIndex'[h.srv] = lastLogIndex[h.srv]
    BY <1>1, HandlerFacts DEF Inv, TypeOK, RaftTypes
  <2> QED
    BY <1>1, <1>3, <2>1 DEF Inv, IndexInv
<1>12. OwnedInv'
  <2>1. ASSUME NEW x \in Server, NEW i \in 1..budget.index
        PROVE  i \in DOMAIN waitApplyCh'[x] <=>
                   \E h \in handlers' : h.srv = x /\ h.at # "start" /\ h.index = i
    <3>1. CASE x = s
      BY <1>1, <1>8, <3>1
    <3>2. CASE x # s
      BY <1>1, <1>8, <3>2 DEF Inv, OwnedInv
    <3> QED
      BY <3>1, <3>2
  <2>2. \A e, f \in handlers' : e.srv = f.srv /\ e.index = f.index => e = f
    BY <1>1 DEF Inv, OwnedInv
  <2> QED
    BY <1>3, <2>1, <2>2 DEF OwnedInv
<1> QED
  BY <1>8, <1>9, <1>10, <1>11, <1>12 DEF Inv

\* A command is committed: the earlier ones stay what they are.
LEMMA CommitKeeps ==
    ASSUME Inv, Commit
    PROVE  Inv'
<1>1. PICK p \in proposed : /\ p[1] = Len(committed) + 1
                            /\ committed' = Append(committed, p[2])
                            /\ proposed' = {q \in proposed : q[1] # p[1]}
  BY DEF Commit
<1>2. UNCHANGED <<clerkVars, dbVars, waitApplyCh, handlers, lastLogIndex, applyVars, budget>>
  BY DEF Commit
<1>3. p[1] \in 1..budget.index /\ p[2] \in Op /\ budget.index \in Nat
  BY BudgetFacts DEF Inv, TypeOK, RaftTypes
<1>4. /\ committed' \in Seq(Op) /\ Len(committed') = Len(committed) + 1 /\ Len(committed) \in Nat
      /\ \A j \in 1..Len(committed) : committed'[j] = committed[j]
  BY <1>1, <1>3, AppendProperties, LenProperties DEF Inv, TypeOK, RaftTypes
<1>5. TypeOK'
  <2>1. RaftTypes'
    BY <1>1, <1>2, <1>4 DEF Inv, TypeOK, RaftTypes
  <2> QED
    BY <1>2, <2>1 DEF Inv, TypeOK, ClerkTypes, ServerTypes, ChannelTypes, BudgetTypes, Handler,
       clerkVars, dbVars, applyVars
<1>6. MapInv' /\ OwnedInv'
  BY <1>2 DEF Inv, MapInv, OwnedInv
<1>7. IndexInv'
  BY <1>1, <1>2, <1>3, <1>4 DEF Inv, IndexInv
<1>8. LoopInv'
  <2> SUFFICES ASSUME NEW s \in Server
               PROVE  /\ lastApplied[s] <= Len(committed')
                      /\ loop[s].at # "Pop" => lastApplied[s] > 0 /\ loop[s].op = committed'[lastApplied[s]]
                      /\ loop[s].at = "Execute" => loop[s].op.Operation = "Put"
    BY <1>2 DEF LoopInv, applyVars
  <2>1. lastApplied[s] \in Nat /\ lastApplied[s] <= Len(committed)
    BY <1>3 DEF Inv, TypeOK, ServerTypes, LoopInv
  <2>2. lastApplied[s] > 0 => committed'[lastApplied[s]] = committed[lastApplied[s]]
    BY <1>4, <2>1
  <2> QED
    BY <1>4, <2>1, <2>2 DEF Inv, LoopInv
<1> QED
  BY <1>5, <1>6, <1>7, <1>8 DEF Inv

\* The invariant holds at first.
LEMMA InitInv == Init => Inv
<1> SUFFICES ASSUME Init PROVE Inv
  OBVIOUS
<1>1. budget \in Budgets /\ budget \in Budget /\ budget.index \in Nat
  BY KvAssumption DEF Init, Budget
<1>2. BudgetTypes
  BY <1>1 DEF BudgetTypes, Budget
<1>3. 0 \in Server /\ 0 \in 0..budget.index /\ 0 \in RequestId \cup {0}
  BY <1>1, KvAssumption DEF Server
<1>4. ClerkTypes
  BY <1>3 DEF Init, ClerkTypes, Value
<1>5. ServerTypes
  <2>1. Idle \in [at : {"Pop", "Execute", "Send"}, op : Op \cup {None}]
    BY DEF Idle
  <2>2. [k \in Key |-> None] \in [Key -> Value] /\ [c \in Client |-> 0] \in [Client -> RequestId \cup {0}]
    BY DEF Value
  <2> QED
    BY <1>3, <2>1, <2>2 DEF Init, ServerTypes
<1>6. RaftTypes /\ Len(committed) = 0
  BY <1>3, EmptySeq DEF Init, RaftTypes
<1>7. \A s \in Server : waitApplyCh[s] = <<>> /\ DOMAIN waitApplyCh[s] = {}
  BY DEF Init
<1>8. ChannelTypes /\ MapInv
  <2>1. \A s \in Server : waitApplyCh[s] = [i \in DOMAIN waitApplyCh[s] |-> waitApplyCh[s][i]]
    BY <1>7
  <2> QED
    BY <1>7, <2>1 DEF Init, ChannelTypes, MapInv
<1>9. handlers = {}
  BY DEF Init
<1>10. LoopInv
  BY <1>6 DEF Init, LoopInv, Idle
<1>11. IndexInv /\ OwnedInv
  BY <1>1, <1>6, <1>7, <1>9 DEF IndexInv, OwnedInv
<1> QED
  BY <1>2, <1>4, <1>5, <1>6, <1>8, <1>9, <1>10, <1>11 DEF Inv, TypeOK

\* The invariant is inductive.
LEMMA NextInv == Inv /\ [Next]_vars => Inv'
<1> SUFFICES ASSUME Inv, [Next]_vars PROVE Inv'
  OBVIOUS
<1>1. ASSUME NEW c \in Client,
             Invoke(c) \/ CallFails(c) \/ HandleWrongLeader(c) \/ HandleStart(c)
      PROVE  Inv'
  BY <1>1, InvokeKeeps, CallFailsKeeps, HandleWrongLeaderKeeps, HandleStartKeeps
<1>2. ASSUME NEW h \in handlers, Handle(h) PROVE Inv'
  BY <1>2, CreateWaitChKeeps, PopWaitChKeeps, TimeoutWaitChKeeps, ExecuteGetKeeps, EraseWaitChKeeps
     DEF Handle
<1>3. ASSUME NEW s \in Server, ApplyStep(s) \/ Restart(s) PROVE Inv'
  BY <1>3, GetCommandKeeps, ExecutePutKeeps, SendKeeps, RestartKeeps DEF ApplyStep
<1>4. CASE UNCHANGED vars
  <2>1. UNCHANGED <<clerkVars, dbVars, waitApplyCh, handlers, raftVars, applyVars, budget>>
    BY <1>4 DEF vars
  <2>2. TypeOK'
    BY <2>1 DEF Inv, TypeOK, ClerkTypes, ServerTypes, ChannelTypes, RaftTypes, BudgetTypes, Handler,
       clerkVars, dbVars, raftVars, applyVars
  <2>3. MapInv' /\ LoopInv' /\ IndexInv' /\ OwnedInv'
    BY <2>1 DEF Inv, MapInv, LoopInv, IndexInv, OwnedInv, raftVars, applyVars
  <2> QED
    BY <2>2, <2>3 DEF Inv
<1> QED
  BY <1>1, <1>2, <1>3, <1>4, CommitKeeps DEF Next

\* The inductive invariant is invariant.
THEOREM InvInvariant == Spec => []Inv
  BY InitInv, NextInv, PTL DEF Spec

\* The fields of Clerk, KvServer and Raft keep their types: no answer, retry or
\* restart leaves a server number, a request id or a channel out of range.
THEOREM TypeInvariant == Spec => []TypeOK
<1>1. Inv => TypeOK
  BY DEF Inv
<1> QED
  BY <1>1, InvInvariant, PTL

\* A channel of waitApplyCh belongs to exactly one handler, from the moment it is
\* created until it is erased: no handler waits on a queue another one deleted.
THEOREM ChannelOwnedInvariant == Spec => []ChannelOwned
<1>1. ASSUME Inv, NEW s \in Server
      PROVE  LET here == {h \in handlers : h.srv = s}
             IN  /\ DOMAIN waitApplyCh[s] = {h.index : h \in {g \in here : g.at # "start"}}
                 /\ \A g, h \in here : g.index = h.index => g = h
  <2> DEFINE here == {h \in handlers : h.srv = s}
             used == {h.index : h \in {g \in here : g.at # "start"}}
  <2>1. \A i \in DOMAIN waitApplyCh[s] : i \in 1..budget.index
    BY <1>1 DEF Inv, TypeOK, ChannelTypes
  <2>2. \A i \in used : i \in 1..budget.index
    BY <1>1, HandlerFacts
  <2>3. \A i \in 1..budget.index :
            i \in DOMAIN waitApplyCh[s] <=>
                \E h \in handlers : h.srv = s /\ h.at # "start" /\ h.index = i
    BY <1>1 DEF Inv, OwnedInv
  <2>4. \A i : i \in used <=> \E h \in handlers : h.srv = s /\ h.at # "start" /\ h.index = i
    OBVIOUS
  <2> HIDE DEF used
  <2>5. DOMAIN waitApplyCh[s] = used
    BY <2>1, <2>2, <2>3, <2>4
  <2>6. \A g, h \in here : g.index = h.index => g = h
    BY <1>1 DEF Inv, OwnedInv
  <2> QED
    BY <2>5, <2>6 DEF used
<1>2. Inv => ChannelOwned
  BY <1>1 DEF ChannelOwned
<1> QED
  BY <1>2, InvInvariant, PTL
-----------------------------------------------------------------------------
(* Once and in order: the inductive invariant *)

\* Commands: the first n committed ones, all that were put into some log, all
\* that anybody knows.
CommittedBy(op, n) == \E j \in 1..n : committed[j] = op
Submitted(op) == CommittedBy(op, Len(committed)) \/ \E p \in proposed : p[2] = op
Known(op) == Submitted(op) \/ (\E c \in Client : request[c] = op) \/ \E h \in handlers : h.op = op

\* Requests are numbered one after the other, a Get runs for the current one
\* (the Put handlers of earlier ones may still run), and a number stands for one
\* request.
RequestInv ==
    \A c \in Client : request[c] # None => /\ request[c].ClientId = c
                                           /\ request[c].RequestId = m_requestId[c]
GetsCurrent ==
    \A h \in handlers : h.op.Operation = "Get" => h.op.RequestId = m_requestId[h.op.ClientId]
KnownInv == \A op \in Op : Known(op) => op.RequestId <= m_requestId[op.ClientId]
UniqueInv == \A a, b \in Op : Known(a) /\ Known(b) /\ SameRequest(a, b) => a = b

\* A Put whose client has gone on is committed ...
Settled ==
    \A op \in Op :
        /\ Submitted(op) /\ op.Operation = "Put"
        /\ op.RequestId < m_requestId[op.ClientId] \/ request[op.ClientId] = None
        => CommittedBy(op, Len(committed))

\* ... and was before any later request of the client.
CommitOrder ==
    \A j \in 1..Len(committed) : \A op \in Op :
        /\ Submitted(op) /\ op.Operation = "Put"
        /\ op.ClientId = committed[j].ClientId /\ op.RequestId < committed[j].RequestId
        => CommittedBy(op, j - 1)

\* Every committed Put took effect when it was committed first.
FirstInv ==
    \A j \in 1..Len(committed) : committed[j].Operation = "Put" =>
        \E i \in 1..j : InEffect(i) /\ committed[i] = committed[j]

\* m_lastRequestId is the id of a command the server has done, and not below any
\* Put it has done.
LastInv ==
    \A s \in Server, c \in Client :
        m_lastRequestId[s][c] # 0 => \E j \in 1..Done(s) : /\ committed[j].ClientId = c
                                                           /\ committed[j].RequestId = m_lastRequestId[s][c]
PutsInv ==
    \A s \in Server : \A j \in 1..Done(s) :
        committed[j].Operation = "Put"
            => committed[j].RequestId <= m_lastRequestId[s][committed[j].ClientId]

\* A channel holds commands the server has taken from Raft.
ChannelInv ==
    \A s \in Server : \A i \in DOMAIN waitApplyCh[s] : \A n \in 1..Len(waitApplyCh[s][i]) :
        CommittedBy(waitApplyCh[s][i][n], lastApplied[s])

\* A Get is executed after its command was taken, a Put is answered after it was
\* committed.
HandlerOk(h) ==
    /\ h.at = "execute" => h.op.Operation = "Get" /\ CommittedBy(h.op, lastApplied[h.srv])
    /\ h.at = "erase" /\ h.err # "ErrWrongLeader" /\ h.op.Operation = "Put" /\ h.awaited
         => CommittedBy(h.op, Len(committed))
HandlerInv == \A h \in handlers : HandlerOk(h)

\* A Get answers with a value of the time since it was called.
AnswerOk(h) ==
    /\ h.op.Operation = "Put" => h.value = None
    /\ h.at = "erase" /\ h.err # "ErrWrongLeader" /\ h.op.Operation = "Get" =>
         \E n \in since[h.op.ClientId]..Len(committed) :
             h.value = Store!ValueAfter(Effects, n, h.op.Key)
AnswerInv == \A h \in handlers : AnswerOk(h)

\* A Clerk waits for one handler, which serves its request.
AwaitedInv ==
    /\ \A h \in handlers : h.awaited => waiting[h.op.ClientId] /\ request[h.op.ClientId] = h.op
    /\ \A g, h \in handlers : g.awaited /\ h.awaited /\ g.op.ClientId = h.op.ClientId => g = h

\* The current request was committed after it was called.
SinceInv ==
    /\ \A c \in Client : since[c] <= Len(committed)
    /\ \A j \in 1..Len(committed) :
         committed[j].RequestId = m_requestId[committed[j].ClientId]
             => since[committed[j].ClientId] < j

KnownGroup == RequestInv /\ GetsCurrent /\ KnownInv /\ UniqueInv /\ Settled /\ CommitOrder
ApplyGroup == LastInv /\ PutsInv /\ ExecutedOnce /\ ReplicaAgrees
HandlerGroup == ChannelInv /\ HandlerInv /\ AnswerInv /\ AwaitedInv /\ SinceInv

ServiceInv == Inv /\ KnownGroup /\ FirstInv /\ ApplyGroup /\ HandlerGroup

-----------------------------------------------------------------------------
(* The value of a key *)

\* A set of natural numbers has a least element: < is well founded.
LEMMA LeastNatural ==
    ASSUME NEW T \in SUBSET Nat, T # {}
    PROVE  \E x \in T : \A y \in T : x <= y
<1> DEFINE R == OpToRel(<, Nat)
<1>1. IsWellFoundedOn(R, Nat)
  BY NatLessThanWellFounded
<1>2. \A x, y \in Nat : <<y, x>> \in R <=> y < x
  BY DEF OpToRel
<1> HIDE DEF R
<1>3. PICK x \in T : \A y \in T : ~(<<y, x>> \in R)
  BY <1>1, WFMin
<1>4. x \in Nat /\ \A y \in T : y \in Nat /\ ~(y < x)
  BY <1>2, <1>3
<1> QED
  BY <1>4

\* A bounded set of positive numbers has its maximum.
LEMMA MaxInSet ==
    ASSUME NEW n \in Nat, NEW S \in SUBSET (1..n), S # {}
    PROVE  Max(S) \in S /\ \A y \in S : Max(S) >= y
<1> DEFINE T == {m \in Nat : \A y \in S : y <= m}
<1>1. n \in T
  OBVIOUS
<1>2. PICK m \in T : \A x \in T : m <= x
  <2>1. T \in SUBSET Nat /\ T # {}
    BY <1>1
  <2> HIDE DEF T
  <2> QED
    BY <2>1, LeastNatural
<1>3. m \in S
  <2> SUFFICES ASSUME m \notin S PROVE FALSE
    OBVIOUS
  <2>1. \A y \in S : y \in Nat /\ y >= 1 /\ y <= m /\ y # m
    BY <1>2
  <2>2. m \in Nat /\ m - 1 \in Nat
    <3>1. PICK y \in S : TRUE
      OBVIOUS
    <3> QED
      BY <1>2, <2>1, <3>1
  <2>3. \A y \in S : y <= m - 1
    BY <2>1, <2>2
  <2>4. m - 1 \in T
    BY <2>2, <2>3
  <2> QED
    BY <1>2, <2>2, <2>4
<1>4. \E x \in S : \A y \in S : x >= y
  BY <1>2, <1>3
<1> QED
  BY <1>4 DEF Max

\* Only the moments counted matter.
LEMMA SameValue ==
    ASSUME NEW f, NEW g, NEW n \in Nat, NEW k, \A i \in 1..n : f[i] = g[i]
    PROVE  Store!ValueAfter(f, n, k) = Store!ValueAfter(g, n, k)
<1> DEFINE F == {i \in 1..n : f[i] # None /\ f[i].Key = k}
           G == {i \in 1..n : g[i] # None /\ g[i].Key = k}
<1>1. F = G
  OBVIOUS
<1>2. F # {} => Max(F) \in F
  <2>1. F \in SUBSET (1..n)
    OBVIOUS
  <2> HIDE DEF F
  <2> QED
    BY <2>1, MaxInSet
<1>3. F # {} => f[Max(F)] = g[Max(F)]
  BY <1>2
<1>4. /\ Store!ValueAfter(f, n, k) = IF F = {} THEN None ELSE f[Max(F)]
      /\ Store!ValueAfter(g, n, k) = IF G = {} THEN None ELSE g[Max(G)]
  BY DEF Store!ValueAfter, Store!Max, Max
<1> HIDE DEF F, G
<1> QED
  BY <1>1, <1>3, <1>4

\* At first no key has a value.
LEMMA NoValue ==
    ASSUME NEW f, NEW k
    PROVE  Store!ValueAfter(f, 0, k) = None
<1>1. {i \in 1..0 : f[i] # None /\ f[i].Key = k} = {}
  OBVIOUS
<1> QED
  BY <1>1 DEF Store!ValueAfter

\* A Put gives its key its value and leaves the others.
LEMMA NextValue ==
    ASSUME NEW f, NEW n \in Nat, NEW k
    PROVE  Store!ValueAfter(f, n + 1, k) =
               IF f[n + 1] # None /\ f[n + 1].Key = k THEN f[n + 1] ELSE Store!ValueAfter(f, n, k)
<1> DEFINE F(m) == {i \in 1..m : f[i] # None /\ f[i].Key = k}
<1>1. CASE f[n + 1] # None /\ f[n + 1].Key = k
  <2>1. n + 1 \in F(n + 1) /\ \A i \in F(n + 1) : i \in Int /\ n + 1 >= i
    BY <1>1
  <2> HIDE DEF F
  <2>2. Max(F(n + 1)) = n + 1
    <3>1. \A x \in F(n + 1) : (\A y \in F(n + 1) : x >= y) => x = n + 1
      BY <2>1
    <3> QED
      BY <2>1, <3>1 DEF Max
  <2>3. Store!ValueAfter(f, n + 1, k) = IF F(n + 1) = {} THEN None ELSE f[Max(F(n + 1))]
    BY DEF Store!ValueAfter, Store!Max, Max, F
  <2> QED
    BY <1>1, <2>1, <2>2, <2>3
<1>2. CASE ~(f[n + 1] # None /\ f[n + 1].Key = k)
  <2>1. F(n + 1) = F(n)
    BY <1>2
  <2> QED
    BY <1>2, <2>1 DEF Store!ValueAfter
<1> QED
  BY <1>1, <1>2

-----------------------------------------------------------------------------
(* What does not change *)

\* Committed commands are commands that are known.
LEMMA CommittedFacts ==
    ASSUME Inv
    PROVE  /\ committed \in Seq(Op) /\ Len(committed) \in Nat
           /\ \A j \in 1..Len(committed) :
                /\ committed[j] \in Op /\ Submitted(committed[j]) /\ Known(committed[j])
                /\ committed[j].ClientId \in Client /\ committed[j].RequestId \in Nat \ {0}
                /\ committed[j].Operation \in {"Get", "Put"} /\ committed[j].Key \in Key
<1>1. committed \in Seq(Op) /\ Len(committed) \in Nat
  BY LenProperties DEF Inv, TypeOK, RaftTypes
<1>2. ASSUME NEW j \in 1..Len(committed)
      PROVE  /\ committed[j] \in Op /\ Submitted(committed[j]) /\ Known(committed[j])
             /\ committed[j].ClientId \in Client /\ committed[j].RequestId \in Nat \ {0}
             /\ committed[j].Operation \in {"Get", "Put"} /\ committed[j].Key \in Key
  <2>1. committed[j] \in Op
    BY <1>1, ElementOfSeq
  <2>2. Submitted(committed[j]) /\ Known(committed[j])
    BY DEF Submitted, Known, CommittedBy
  <2>3. committed[j].RequestId \in RequestId
    BY <2>1 DEF Op
  <2>4. committed[j].RequestId \in Nat \ {0}
    BY <2>3, RequestIds
  <2> QED
    BY <2>1, <2>2, <2>4 DEF Op
<1> QED
  BY <1>1, <1>2

\* Numbers are numbers, and requests are none or commands.
LEMMA ClerkFacts ==
    ASSUME Inv, NEW c \in Client
    PROVE  /\ m_requestId[c] \in Nat /\ since[c] \in Nat
           /\ request[c] # None => request[c] \in Op
<1>1. m_requestId[c] \in RequestId \cup {0} /\ since[c] \in 0..budget.index /\ budget.index \in Nat
  BY BudgetFacts DEF Inv, TypeOK, ClerkTypes
<1>2. m_requestId[c] \in Nat
  BY <1>1, RequestIds
<1>3. request[c] # None => request[c] \in Op
  BY DEF Inv, TypeOK, ClerkTypes
<1> QED
  BY <1>1, <1>2, <1>3

\* Fields of a command.
LEMMA OpFacts ==
    ASSUME NEW op \in Op
    PROVE  /\ op.ClientId \in Client /\ op.RequestId \in Nat \ {0} /\ op.Key \in Key
           /\ op.Operation \in {"Get", "Put"} /\ op # None
<1>1. op.RequestId \in RequestId
  BY DEF Op
<1>2. op.RequestId \in Nat \ {0}
  BY <1>1, RequestIds
<1> QED
  BY <1>2, NoneAssumption DEF Op

\* What a server has done is committed.
LEMMA DoneFacts ==
    ASSUME Inv, NEW s \in Server
    PROVE  /\ lastApplied[s] \in Nat /\ Done(s) \in Nat /\ lastApplied[s] <= Len(committed)
           /\ Done(s) = IF loop[s].at = "Execute" THEN lastApplied[s] - 1 ELSE lastApplied[s]
           /\ loop[s].at # "Pop" => lastApplied[s] \in 1..Len(committed)
           /\ \A c \in Client : m_lastRequestId[s][c] \in Nat
<1>1. lastApplied[s] \in Nat /\ budget.index \in Nat /\ Len(committed) \in Nat
  BY BudgetFacts, CommittedFacts DEF Inv, TypeOK, ServerTypes
<1>2. lastApplied[s] <= Len(committed) /\ (loop[s].at # "Pop" => lastApplied[s] > 0)
  BY DEF Inv, LoopInv
<1>3. ASSUME NEW c \in Client PROVE m_lastRequestId[s][c] \in Nat
  <2>1. m_lastRequestId[s][c] \in RequestId \cup {0}
    BY DEF Inv, TypeOK, ServerTypes
  <2> QED
    BY <2>1, RequestIds
<1>4. loop[s].at = "Execute" => loop[s].at # "Pop"
  OBVIOUS
<1> QED
  BY <1>1, <1>2, <1>3, <1>4 DEF Done

\* More commands are committed than fewer.
LEMMA CommittedMore ==
    ASSUME NEW op, NEW m \in Nat, NEW n \in Nat, m <= n, CommittedBy(op, m)
    PROVE  CommittedBy(op, n)
BY DEF CommittedBy

\* Two known commands with one request are one.
LEMMA OneCommand ==
    ASSUME ServiceInv, NEW a \in Op, NEW b \in Op, Known(a), Known(b),
           a.ClientId = b.ClientId, a.RequestId = b.RequestId
    PROVE  a = b
BY DEF ServiceInv, KnownGroup, UniqueInv, SameRequest

\* Nothing new is known, nobody goes on.
LEMMA KnownKept ==
    ASSUME ServiceInv, \A g \in handlers' : \E h \in handlers : g.op = h.op,
           UNCHANGED <<m_requestId, request, committed, proposed>>
    PROVE  KnownGroup'
<1>1. \A op : Submitted(op)' <=> Submitted(op)
  BY DEF Submitted, CommittedBy
<1>2. \A op : Known(op)' => Known(op)
  BY <1>1 DEF Known
<1>3. RequestInv' /\ GetsCurrent'
  BY DEF ServiceInv, KnownGroup, RequestInv, GetsCurrent
<1>4. KnownInv' /\ UniqueInv'
  BY <1>2 DEF ServiceInv, KnownGroup, KnownInv, UniqueInv
<1>5. Settled' /\ CommitOrder'
  BY <1>1 DEF ServiceInv, KnownGroup, Settled, CommitOrder, CommittedBy
<1> QED
  BY <1>3, <1>4, <1>5 DEF KnownGroup

\* Nothing is executed.
LEMMA ApplyKept ==
    ASSUME ServiceInv, UNCHANGED <<committed, m_skipList, m_lastRequestId, lastApplied>>,
           \A s \in Server : loop'[s].at = "Execute" <=> loop[s].at = "Execute"
    PROVE  ApplyGroup' /\ FirstInv' /\ \A s \in Server : Done(s)' = Done(s)
<1>1. \A s \in Server : Done(s)' = Done(s)
  BY DEF Done
<1>2. (\A i : InEffect(i)' <=> InEffect(i)) /\ Effects' = Effects
  BY DEF InEffect, Effects
<1>3. LastInv'
  BY <1>1 DEF ServiceInv, ApplyGroup, LastInv
<1>4. PutsInv'
  BY <1>1 DEF ServiceInv, ApplyGroup, PutsInv
<1>5. ExecutedOnce'
  BY <1>2 DEF ServiceInv, ApplyGroup, ExecutedOnce
<1>6. ReplicaAgrees'
  <2>1. ASSUME NEW s \in Server, NEW k \in Key
        PROVE  Store!ValueAfter(Effects, Done(s), k)' = Store!ValueAfter(Effects, Done(s), k)
    <3>1. Done(s)' = Done(s)
      BY <1>1
    <3> QED
      BY <1>2, <3>1 DEF Store!ValueAfter, Store!Max
  <2> QED
    BY <2>1 DEF ServiceInv, ApplyGroup, ReplicaAgrees
<1>7. FirstInv'
  BY <1>2 DEF ServiceInv, FirstInv
<1> QED
  BY <1>1, <1>3, <1>4, <1>5, <1>6, <1>7 DEF ApplyGroup

\* A handler that is what it was, or what another was but for its waiter.
LEMMA HandlersKept ==
    ASSUME ServiceInv, UNCHANGED committed, NEW h, HandlerOk(h), AnswerOk(h), NEW g,
           g.op = h.op, g.at = h.at, g.err = h.err, g.value = h.value, g.srv = h.srv,
           g.awaited => h.awaited,
           h.srv \in Server, h.op.ClientId \in Client,
           lastApplied[h.srv] \in Nat, lastApplied'[h.srv] \in Nat,
           lastApplied[h.srv] <= lastApplied'[h.srv],
           since[h.op.ClientId] \in Nat, since'[h.op.ClientId] \in Nat,
           h.op.Operation = "Get" => since'[h.op.ClientId] <= since[h.op.ClientId]
    PROVE  HandlerOk(g)' /\ AnswerOk(g)'
<1>1. \A op, n : CommittedBy(op, n)' <=> CommittedBy(op, n)
  BY DEF CommittedBy
<1>2. HandlerOk(g)'
  <2>1. h.at = "execute" => CommittedBy(h.op, lastApplied'[h.srv])
    BY CommittedMore DEF HandlerOk
  <2> QED
    BY <1>1, <2>1 DEF HandlerOk
<1>3. Effects' = Effects
  BY DEF Effects, InEffect
<1>4. Len(committed) \in Nat
  BY CommittedFacts DEF ServiceInv
<1>5. ASSUME NEW n \in since[h.op.ClientId]..Len(committed), h.op.Operation = "Get"
      PROVE  n \in since'[h.op.ClientId]..Len(committed)
  BY <1>4, <1>5
<1>6. \A n, k : Store!ValueAfter(Effects, n, k)' = Store!ValueAfter(Effects, n, k)
  BY <1>3 DEF Store!ValueAfter, Store!Max
<1>7. AnswerOk(g)'
  BY <1>5, <1>6 DEF AnswerOk
<1> QED
  BY <1>2, <1>7

\* Handlers, channels and times when nothing is committed or taken.
LEMMA SameHandlers ==
    ASSUME UNCHANGED <<committed, lastApplied, since>>
    PROVE  /\ \A h : HandlerOk(h)' <=> HandlerOk(h)
           /\ \A h : AnswerOk(h)' <=> AnswerOk(h)
           /\ \A op, n : CommittedBy(op, n)' <=> CommittedBy(op, n)
<1>1. \A op, n : CommittedBy(op, n)' <=> CommittedBy(op, n)
  BY DEF CommittedBy
<1>2. Effects' = Effects
  BY DEF Effects, InEffect
<1>3. \A n, k : Store!ValueAfter(Effects, n, k)' = Store!ValueAfter(Effects, n, k)
  BY <1>2 DEF Store!ValueAfter, Store!Max
<1>4. \A h : HandlerOk(h)' <=> HandlerOk(h)
  BY <1>1 DEF HandlerOk
<1>5. \A h : AnswerOk(h)' <=> AnswerOk(h)
  BY <1>3 DEF AnswerOk
<1> QED
  BY <1>1, <1>4, <1>5

\* Channels that stay what they are.
LEMMA SameChannels ==
    ASSUME ServiceInv, UNCHANGED <<committed, lastApplied, waitApplyCh>>
    PROVE  ChannelInv'
BY DEF ServiceInv, HandlerGroup, ChannelInv, CommittedBy

-----------------------------------------------------------------------------
(* Clerk *)

\* A new request has a number no command had.
LEMMA InvokeServes ==
    ASSUME ServiceInv, ~LateGets, NEW c \in Client, Invoke(c)
    PROVE  ServiceInv'
<1>1. /\ UNCHANGED <<m_recentLeaderId, waiting, dbVars, waitApplyCh, handlers, raftVars, applyVars, budget>>
      /\ m_requestId' = [m_requestId EXCEPT ![c] = @ + 1]
      /\ since' = [since EXCEPT ![c] = Len(committed)]
      /\ request[c] = None /\ \A h \in handlers : h.op.ClientId = c => h.op.Operation = "Put"
  BY DEF Invoke
<1>2. PICK o \in {"Get", "Put"}, k \in Key :
          request' = [request EXCEPT ![c] =
              [Operation |-> o, Key |-> k, ClientId |-> c, RequestId |-> m_requestId[c] + 1]]
  BY DEF Invoke
<1> DEFINE new == [Operation |-> o, Key |-> k, ClientId |-> c, RequestId |-> m_requestId[c] + 1]
<1>3. Inv' /\ Inv
  BY InvokeKeeps DEF ServiceInv
<1>4. /\ \A x \in Client : request'[x] = IF x = c THEN new ELSE request[x]
      /\ \A x \in Client : m_requestId'[x] = IF x = c THEN m_requestId[c] + 1 ELSE m_requestId[x]
      /\ \A x \in Client : since'[x] = IF x = c THEN Len(committed) ELSE since[x]
  BY <1>1, <1>2, <1>3 DEF Inv, TypeOK, ClerkTypes
<1>5. new \in Op /\ new.ClientId = c /\ new.RequestId = m_requestId[c] + 1 /\ new # None
  <2>1. request'[c] \in Op \cup {None}
    BY <1>3 DEF Inv, TypeOK, ClerkTypes
  <2>2. new.ClientId = c /\ new.RequestId = m_requestId[c] + 1
    OBVIOUS
  <2>3. m_requestId'[c] \in RequestId \cup {0}
    BY <1>3 DEF Inv, TypeOK, ClerkTypes
  <2>4. m_requestId[c] + 1 \in RequestId
    BY <1>3, <1>4, <2>3, ClerkFacts
  <2>5. new \in Op
    BY <2>4 DEF Op
  <2> QED
    BY <2>2, <2>5, NoneAssumption
<1>6. \A x \in Client : m_requestId[x] \in Nat
  BY <1>3, ClerkFacts
<1> HIDE DEF new
<1>7. UNCHANGED <<committed, proposed, lastApplied, loop, m_skipList, m_lastRequestId>>
  BY <1>1 DEF raftVars, applyVars, dbVars
<1>8. \A op : /\ Submitted(op)' <=> Submitted(op)
              /\ \A n : CommittedBy(op, n)' <=> CommittedBy(op, n)
              /\ Known(op)' => Known(op) \/ op = new
  <2>1. \A op : /\ Submitted(op)' <=> Submitted(op)
                /\ \A n : CommittedBy(op, n)' <=> CommittedBy(op, n)
    BY <1>7 DEF Submitted, CommittedBy
  <2>2. \A op : Known(op)' => Known(op) \/ op = new
    BY <1>1, <1>4, <2>1 DEF Known
  <2> QED
    BY <2>1, <2>2
<1>9. RequestInv' /\ GetsCurrent'
  <2>1. RequestInv'
    BY <1>4, <1>5 DEF ServiceInv, KnownGroup, RequestInv
  <2>2. \A h \in handlers : h.op.ClientId \in Client
    BY <1>3, HandlerFacts, OpFacts
  <2>3. \A h \in handlers : h.op.Operation = "Get" => h.op.ClientId # c
    BY <1>1
  <2> QED
    BY <1>1, <1>4, <2>1, <2>2, <2>3 DEF ServiceInv, KnownGroup, GetsCurrent
<1>10. ASSUME NEW op \in Op, Known(op)
       PROVE  op.RequestId <= m_requestId[op.ClientId] /\ op.RequestId <= m_requestId'[op.ClientId]
  <2>1. op.ClientId \in Client /\ op.RequestId \in Nat
    BY OpFacts
  <2>2. op.RequestId <= m_requestId[op.ClientId]
    BY <1>10 DEF ServiceInv, KnownGroup, KnownInv
  <2> QED
    BY <1>4, <1>6, <2>1, <2>2
<1>11. KnownInv'
  <2>1. new.RequestId <= m_requestId'[new.ClientId]
    BY <1>4, <1>5, <1>6
  <2> QED
    BY <1>8, <1>10, <2>1 DEF KnownInv
<1>12. ASSUME NEW op \in Op, Known(op) PROVE ~SameRequest(op, new) /\ ~SameRequest(new, op)
  <2>1. op.RequestId \in Nat
    BY OpFacts
  <2> QED
    BY <1>5, <1>6, <1>10, <1>12, <2>1 DEF SameRequest
<1>13. UniqueInv'
  BY <1>8, <1>12 DEF ServiceInv, KnownGroup, UniqueInv
<1>14. Settled'
  <2> SUFFICES ASSUME NEW op \in Op, Submitted(op), op.Operation = "Put",
                      op.RequestId < m_requestId'[op.ClientId] \/ request'[op.ClientId] = None
               PROVE  CommittedBy(op, Len(committed))
    BY <1>7, <1>8 DEF Settled
  <2>1. op.ClientId \in Client /\ op.RequestId \in Nat
    BY OpFacts
  <2>2. op.RequestId < m_requestId[op.ClientId] \/ request[op.ClientId] = None
    BY <1>1, <1>4, <1>5, <2>1
  <2> QED
    BY <2>2 DEF ServiceInv, KnownGroup, Settled
<1>15. CommitOrder'
  BY <1>7, <1>8 DEF ServiceInv, KnownGroup, CommitOrder
<1>16. ApplyGroup' /\ FirstInv'
  BY <1>7, ApplyKept
<1>17. ChannelInv'
  BY <1>1, <1>7, SameChannels
<1>18. ASSUME NEW h \in handlers PROVE HandlerOk(h)' /\ AnswerOk(h)'
  <2>1. h.op.ClientId \in Client /\ h.srv \in Server
    BY <1>1, <1>3, HandlerFacts, OpFacts
  <2>2. /\ since[h.op.ClientId] \in Nat /\ since'[h.op.ClientId] \in Nat
        /\ h.op.Operation = "Get" => since'[h.op.ClientId] = since[h.op.ClientId]
    <3>1. h.op.Operation = "Get" => h.op.ClientId # c
      BY <1>1
    <3>2. since[h.op.ClientId] \in Nat /\ Len(committed) \in Nat
      BY <1>3, <2>1, ClerkFacts, CommittedFacts
    <3> QED
      BY <1>4, <2>1, <3>1, <3>2
  <2>3. lastApplied'[h.srv] = lastApplied[h.srv] /\ lastApplied[h.srv] \in Nat
    BY <1>3, <1>7, <2>1, DoneFacts
  <2>4. HandlerOk(h) /\ AnswerOk(h)
    BY DEF ServiceInv, HandlerGroup, HandlerInv, AnswerInv
  <2> QED
    BY <1>7, <2>1, <2>2, <2>3, <2>4, HandlersKept
<1>19. HandlerInv' /\ AnswerInv'
  BY <1>1, <1>18 DEF HandlerInv, AnswerInv
<1>20. AwaitedInv'
  <2>1. \A h \in handlers : h.op.ClientId \in Client /\ h.op # None
    BY <1>3, HandlerFacts, OpFacts
  <2>2. \A h \in handlers : h.awaited => h.op.ClientId # c
    BY <1>1, <2>1 DEF ServiceInv, HandlerGroup, AwaitedInv
  <2> QED
    BY <1>1, <1>4, <2>1, <2>2 DEF ServiceInv, HandlerGroup, AwaitedInv
<1>21. SinceInv'
  <2>1. Len(committed) \in Nat
    BY <1>3, CommittedFacts
  <2>2. \A x \in Client : since'[x] <= Len(committed)
    BY <1>4, <2>1 DEF ServiceInv, HandlerGroup, SinceInv
  <2>3. ASSUME NEW j \in 1..Len(committed), committed[j].RequestId = m_requestId'[committed[j].ClientId]
        PROVE  since'[committed[j].ClientId] < j
    <3>1. committed[j] \in Op /\ Known(committed[j]) /\ committed[j].ClientId \in Client
      BY <1>3, CommittedFacts
    <3>2. committed[j].ClientId # c
      BY <1>4, <1>6, <1>10, <2>3, <3>1
    <3> QED
      BY <1>4, <2>3, <3>1, <3>2 DEF ServiceInv, HandlerGroup, SinceInv
  <2> QED
    BY <1>7, <2>2, <2>3 DEF SinceInv
<1>22. KnownGroup'
  BY <1>9, <1>11, <1>13, <1>14, <1>15 DEF KnownGroup
<1>23. HandlerGroup'
  BY <1>17, <1>19, <1>20, <1>21 DEF HandlerGroup
<1> QED
  BY <1>3, <1>16, <1>22, <1>23 DEF ServiceInv

\* Only waiters change: who waits for whom is left to show.
LEMMA OnlyWaiters ==
    ASSUME ServiceInv, Inv', AwaitedInv', ChannelInv',
           UNCHANGED <<m_requestId, request, since, dbVars, raftVars, applyVars>>,
           \A g \in handlers' : \E h \in handlers :
               /\ g.op = h.op /\ g.at = h.at /\ g.srv = h.srv /\ g.err = h.err /\ g.value = h.value
               /\ g.awaited => h.awaited
    PROVE  ServiceInv'
<1>1. UNCHANGED <<committed, proposed, lastApplied, loop, m_skipList, m_lastRequestId>>
  BY DEF raftVars, applyVars, dbVars
<1>2. KnownGroup'
  BY <1>1, KnownKept
<1>3. ApplyGroup' /\ FirstInv'
  BY <1>1, ApplyKept
<1>4. ASSUME NEW g \in handlers' PROVE HandlerOk(g)' /\ AnswerOk(g)'
  <2>1. PICK h \in handlers :
            /\ g.op = h.op /\ g.at = h.at /\ g.srv = h.srv /\ g.err = h.err /\ g.value = h.value
            /\ g.awaited => h.awaited
    OBVIOUS
  <2>2. HandlerOk(h) /\ AnswerOk(h)
    BY DEF ServiceInv, HandlerGroup, HandlerInv, AnswerInv
  <2>3. HandlerOk(g) /\ AnswerOk(g)
    BY <2>1, <2>2 DEF HandlerOk, AnswerOk
  <2> QED
    BY <1>1, <2>3, SameHandlers
<1>5. SinceInv'
  BY <1>1 DEF ServiceInv, HandlerGroup, SinceInv
<1>6. HandlerGroup'
  BY <1>4, <1>5 DEF HandlerGroup, HandlerInv, AnswerInv
<1> QED
  BY <1>2, <1>3, <1>6 DEF ServiceInv

\* A failed call leaves its handler without a waiter.
LEMMA CallFailsServes ==
    ASSUME ServiceInv, NEW c \in Client, CallFails(c)
    PROVE  ServiceInv'
<1>1. /\ TryNext(c) /\ handlers' = Orphan(c)
      /\ UNCHANGED <<m_requestId, m_recentLeaderId, request, returned, since, dbVars, waitApplyCh,
                     raftVars, applyVars>>
  BY DEF CallFails
<1>2. Inv' /\ Inv
  BY CallFailsKeeps DEF ServiceInv
<1>3. ASSUME NEW g \in handlers'
      PROVE  \E h \in handlers : /\ g.op = h.op /\ g.at = h.at /\ g.srv = h.srv
                                 /\ g.err = h.err /\ g.value = h.value
                                 /\ g.awaited => g = h /\ h.op.ClientId # c
  BY <1>1, <1>2, OrphanHandlers DEF Inv
<1>4. \A x \in Client : x # c => waiting'[x] = waiting[x]
  BY <1>1, <1>2 DEF TryNext, Inv, TypeOK, ClerkTypes
<1>5. AwaitedInv'
  <2>1. \A h \in handlers : h.op.ClientId \in Client
    BY <1>2, HandlerFacts, OpFacts
  <2>2. \A g \in handlers' : g.awaited => g \in handlers /\ g.op.ClientId # c
    BY <1>3
  <2>3. ASSUME NEW g \in handlers', g.awaited
        PROVE  waiting'[g.op.ClientId] /\ request'[g.op.ClientId] = g.op
    BY <1>1, <1>4, <2>1, <2>2, <2>3 DEF ServiceInv, HandlerGroup, AwaitedInv
  <2> QED
    BY <2>2, <2>3 DEF ServiceInv, HandlerGroup, AwaitedInv
<1>6. ChannelInv'
  BY <1>1, SameChannels DEF raftVars, applyVars
<1> QED
  BY <1>1, <1>2, <1>3, <1>5, <1>6, OnlyWaiters

\* A server that does not lead has no handler for the call.
LEMMA HandleWrongLeaderServes ==
    ASSUME ServiceInv, NEW c \in Client, HandleWrongLeader(c)
    PROVE  ServiceInv'
<1>1. /\ TryNext(c) /\ ~waiting[c]
      /\ UNCHANGED <<m_requestId, request, since, dbVars, waitApplyCh, handlers, raftVars, applyVars>>
  BY DEF HandleWrongLeader, Reply
<1>2. Inv' /\ Inv
  BY HandleWrongLeaderKeeps DEF ServiceInv
<1>3. \A x \in Client : x # c => waiting'[x] = waiting[x]
  BY <1>1, <1>2 DEF TryNext, Inv, TypeOK, ClerkTypes
<1>4. AwaitedInv'
  <2>1. \A h \in handlers : h.op.ClientId \in Client
    BY <1>2, HandlerFacts, OpFacts
  <2> QED
    BY <1>1, <1>3, <2>1 DEF ServiceInv, HandlerGroup, AwaitedInv
<1>5. ChannelInv'
  BY <1>1, SameChannels DEF raftVars, applyVars
<1> QED
  BY <1>1, <1>2, <1>4, <1>5, OnlyWaiters

\* The command that enters a log is its client's current request.
LEMMA HandleStartServes ==
    ASSUME ServiceInv, NEW c \in Client, HandleStart(c)
    PROVE  ServiceInv'
<1> DEFINE op0 == request[c]
           h0(i) == [op |-> op0, at |-> "start", srv |-> server[c], index |-> i, awaited |-> TRUE,
                     err |-> None, value |-> None]
<1>1. /\ op0 # None /\ ~waiting[c]
      /\ waiting' = [waiting EXCEPT ![c] = TRUE]
      /\ UNCHANGED <<m_requestId, m_recentLeaderId, request, server, returned, since, dbVars,
                     waitApplyCh, applyVars, budget>>
  BY DEF HandleStart
<1>2. PICK i \in 1..budget.index : /\ Start(server[c], op0, i)
                                   /\ handlers' = handlers \cup {h0(i)}
  BY DEF HandleStart
<1> DEFINE h == h0(i)
<1>3. Inv' /\ Inv
  BY HandleStartKeeps DEF ServiceInv
<1>4. UNCHANGED <<committed, lastApplied, loop, m_skipList, m_lastRequestId>>
  BY <1>1, <1>2 DEF Start, applyVars, dbVars
<1>5. h.op = op0 /\ h.at = "start" /\ h.value = None /\ h.awaited
  OBVIOUS
<1>6. op0 \in Op /\ op0.ClientId = c /\ op0.RequestId = m_requestId[c] /\ m_requestId[c] \in Nat
  BY <1>1, <1>3, ClerkFacts DEF ServiceInv, KnownGroup, RequestInv
<1>7. \A p \in proposed' : p \in proposed \/ p = <<i, op0>>
  BY <1>2 DEF Start
<1>8. Known(op0)
  BY DEF Known
<1> HIDE DEF op0, h
<1>9. \A op, n : CommittedBy(op, n)' <=> CommittedBy(op, n)
  BY <1>4 DEF CommittedBy
<1>10. \A op : Submitted(op)' => Submitted(op) \/ op = op0
  BY <1>4, <1>7, <1>9 DEF Submitted
<1>11. \A op : Known(op)' => Known(op)
  <2>1. \A g \in handlers' : g \in handlers \/ g = h
    BY <1>2 DEF h
  <2> QED
    BY <1>1, <1>5, <1>8, <1>10, <2>1 DEF Known
<1>12. RequestInv' /\ KnownInv' /\ UniqueInv'
  BY <1>1, <1>11 DEF ServiceInv, KnownGroup, RequestInv, KnownInv, UniqueInv
<1>13. GetsCurrent'
  <2>1. \A g \in handlers' : g \in handlers \/ g = h
    BY <1>2 DEF h
  <2> QED
    BY <1>1, <1>5, <1>6, <2>1 DEF ServiceInv, KnownGroup, GetsCurrent
<1>14. Settled'
  <2> SUFFICES ASSUME NEW op \in Op, Submitted(op)', op.Operation = "Put",
                      op.RequestId < m_requestId[op.ClientId] \/ request[op.ClientId] = None
               PROVE  CommittedBy(op, Len(committed))
    BY <1>1, <1>4, <1>9 DEF Settled
  <2>1. op # op0
    BY <1>1, <1>6 DEF op0
  <2> QED
    BY <1>10, <2>1 DEF ServiceInv, KnownGroup, Settled
<1>15. CommitOrder'
  <2> SUFFICES ASSUME NEW j \in 1..Len(committed), NEW op \in Op, Submitted(op)', op.Operation = "Put",
                      op.ClientId = committed[j].ClientId, op.RequestId < committed[j].RequestId
               PROVE  CommittedBy(op, j - 1)
    BY <1>4, <1>9 DEF CommitOrder
  <2>1. /\ committed[j] \in Op /\ committed[j].RequestId \in Nat
        /\ committed[j].RequestId <= m_requestId[committed[j].ClientId]
    BY <1>3, CommittedFacts DEF ServiceInv, KnownGroup, KnownInv
  <2>2. op # op0
    BY <1>6, <2>1
  <2> QED
    BY <1>10, <2>2 DEF ServiceInv, KnownGroup, CommitOrder
<1>16. ApplyGroup' /\ FirstInv'
  BY <1>4, ApplyKept
<1>17. ChannelInv'
  BY <1>1, <1>4, SameChannels
<1>18. ASSUME NEW g \in handlers' PROVE HandlerOk(g)' /\ AnswerOk(g)'
  <2>1. g \in handlers \/ g = h
    BY <1>2 DEF h
  <2>2. HandlerOk(h) /\ AnswerOk(h)
    BY <1>5 DEF HandlerOk, AnswerOk
  <2>3. HandlerOk(g) /\ AnswerOk(g)
    BY <2>1, <2>2 DEF ServiceInv, HandlerGroup, HandlerInv, AnswerInv
  <2> QED
    BY <1>1, <1>4, <2>3, SameHandlers
<1>19. AwaitedInv'
  <2>1. \A g \in handlers' : g \in handlers \/ g = h
    BY <1>2 DEF h
  <2>2. \A x \in Client : waiting'[x] <=> waiting[x] \/ x = c
    BY <1>1, <1>3 DEF Inv, TypeOK, ClerkTypes
  <2>3. \A g \in handlers : g.op.ClientId \in Client
    BY <1>3, HandlerFacts, OpFacts
  <2>4. \A g \in handlers : g.awaited => /\ waiting[g.op.ClientId] /\ request[g.op.ClientId] = g.op
                                         /\ g.op.ClientId # c
    BY <1>1 DEF ServiceInv, HandlerGroup, AwaitedInv
  <2>5. waiting'[h.op.ClientId] /\ request'[h.op.ClientId] = h.op
    BY <1>1, <1>5, <1>6, <2>2 DEF op0
  <2>6. \A g \in handlers' : g.awaited => waiting'[g.op.ClientId] /\ request'[g.op.ClientId] = g.op
    BY <1>1, <2>1, <2>2, <2>3, <2>4, <2>5
  <2>7. ASSUME NEW f \in handlers', NEW g \in handlers', f.awaited, g.awaited, f.op.ClientId = g.op.ClientId
        PROVE  f = g
    <3>1. CASE f \in handlers /\ g \in handlers
      BY <2>7, <3>1 DEF ServiceInv, HandlerGroup, AwaitedInv
    <3>2. CASE f \notin handlers \/ g \notin handlers
      BY <1>5, <1>6, <2>1, <2>4, <2>7, <3>2
    <3> QED
      BY <3>1, <3>2
  <2> QED
    BY <2>6, <2>7 DEF AwaitedInv
<1>20. SinceInv'
  BY <1>1, <1>4 DEF ServiceInv, HandlerGroup, SinceInv
<1>21. KnownGroup'
  BY <1>12, <1>13, <1>14, <1>15 DEF KnownGroup
<1>22. HandlerGroup'
  BY <1>17, <1>18, <1>19, <1>20 DEF HandlerGroup, HandlerInv, AnswerInv
<1> QED
  BY <1>3, <1>16, <1>21, <1>22 DEF ServiceInv

-----------------------------------------------------------------------------
(* KvServer::Get and KvServer::PutAppend *)

\* A handler goes on with its request.
LEMMA HandlerServes ==
    ASSUME ServiceInv, NEW h \in handlers, NEW g, Becomes(h, g),
           g.op = h.op, g.awaited = h.awaited, HandlerOk(g), AnswerOk(g), ChannelInv',
           UNCHANGED <<clerkVars, raftVars, applyVars>>
    PROVE  KnownGroup' /\ HandlerGroup'
<1>1. UNCHANGED <<m_requestId, request, waiting, since, committed, proposed, lastApplied, loop>>
  BY DEF clerkVars, raftVars, applyVars
<1>2. \A f \in handlers' : f = g \/ f \in handlers \ {h}
  BY DEF Becomes
<1>3. KnownGroup'
  <2>1. \A f \in handlers' : \E e \in handlers : f.op = e.op
    BY <1>2
  <2> QED
    BY <1>1, <2>1, KnownKept
<1>4. ASSUME NEW f \in handlers' PROVE HandlerOk(f)' /\ AnswerOk(f)'
  <2>1. HandlerOk(f) /\ AnswerOk(f)
    BY <1>2 DEF ServiceInv, HandlerGroup, HandlerInv, AnswerInv
  <2> QED
    BY <1>1, <2>1, SameHandlers
<1>5. AwaitedInv'
  <2>1. \A f \in handlers' : f.awaited => waiting'[f.op.ClientId] /\ request'[f.op.ClientId] = f.op
    BY <1>1, <1>2 DEF ServiceInv, HandlerGroup, AwaitedInv
  <2>2. ASSUME NEW e \in handlers', NEW f \in handlers', e.awaited, f.awaited,
               e.op.ClientId = f.op.ClientId
        PROVE  e = f
    <3>1. ASSUME NEW d \in handlers \ {h}, d.awaited, d.op.ClientId = h.op.ClientId, h.awaited
          PROVE  FALSE
      BY <3>1 DEF ServiceInv, HandlerGroup, AwaitedInv
    <3>2. CASE e \in handlers \ {h} /\ f \in handlers \ {h}
      BY <2>2, <3>2 DEF ServiceInv, HandlerGroup, AwaitedInv
    <3> QED
      BY <1>2, <2>2, <3>1, <3>2
  <2> QED
    BY <2>1, <2>2 DEF AwaitedInv
<1>6. SinceInv'
  BY <1>1 DEF ServiceInv, HandlerGroup, SinceInv
<1> QED
  BY <1>3, <1>4, <1>5, <1>6 DEF HandlerGroup, HandlerInv, AnswerInv

\* A new channel is empty.
LEMMA CreateWaitChServes ==
    ASSUME ServiceInv, NEW h \in handlers, CreateWaitCh(h)
    PROVE  ServiceInv'
<1> DEFINE g == [h EXCEPT !.at = "wait"]
<1>1. /\ h.at = "start" /\ Becomes(h, g)
      /\ UNCHANGED <<clerkVars, dbVars, raftVars, applyVars, budget>>
      /\ waitApplyCh' = IF h.index \in DOMAIN waitApplyCh[h.srv] THEN waitApplyCh
                        ELSE [waitApplyCh EXCEPT ![h.srv] = With(@, h.index, <<>>)]
  BY DEF CreateWaitCh
<1>2. Inv' /\ Inv
  BY CreateWaitChKeeps DEF ServiceInv
<1>3. UNCHANGED <<committed, lastApplied, loop, m_skipList, m_lastRequestId>>
  BY <1>1 DEF raftVars, applyVars, dbVars
<1>4. h \in Handler /\ h.srv \in Server
  BY <1>2, HandlerFacts
<1>5. g.op = h.op /\ g.awaited = h.awaited /\ g.at = "wait" /\ g.value = h.value
  BY <1>4 DEF Handler
<1>6. HandlerOk(g) /\ AnswerOk(g)
  <2>1. AnswerOk(h)
    BY DEF ServiceInv, HandlerGroup, AnswerInv
  <2> QED
    BY <1>5, <2>1 DEF HandlerOk, AnswerOk
<1> HIDE DEF g
<1>7. ChannelInv'
  <2>1. ASSUME NEW s \in Server, NEW i \in DOMAIN waitApplyCh'[s], waitApplyCh'[s][i] # <<>>
        PROVE  i \in DOMAIN waitApplyCh[s] /\ waitApplyCh'[s][i] = waitApplyCh[s][i]
    BY <1>1, <1>2, <1>4, <2>1 DEF Inv, MapInv, With
  <2>2. ASSUME NEW s \in Server, NEW i \in DOMAIN waitApplyCh'[s],
               NEW n \in 1..Len(waitApplyCh'[s][i])
        PROVE  CommittedBy(waitApplyCh'[s][i][n], lastApplied[s])
    <3>1. waitApplyCh'[s][i] # <<>>
      BY EmptySeq
    <3> QED
      BY <2>1, <3>1 DEF ServiceInv, HandlerGroup, ChannelInv
  <2> QED
    BY <1>3, <2>2 DEF ChannelInv, CommittedBy
<1>8. KnownGroup' /\ HandlerGroup'
  BY <1>1, <1>5, <1>6, <1>7, HandlerServes
<1>9. ApplyGroup' /\ FirstInv'
  BY <1>3, ApplyKept
<1> QED
  BY <1>2, <1>8, <1>9 DEF ServiceInv

\* A command with the handler's request is the handler's command.
LEMMA HandlerCommand ==
    ASSUME ServiceInv, NEW h \in handlers, NEW s \in Server, NEW j \in 1..lastApplied[s],
           committed[j].ClientId = h.op.ClientId, committed[j].RequestId = h.op.RequestId
    PROVE  CommittedBy(h.op, lastApplied[s]) /\ CommittedBy(h.op, Len(committed))
<1>1. Inv
  BY DEF ServiceInv
<1>2. lastApplied[s] \in Nat /\ Len(committed) \in Nat /\ lastApplied[s] <= Len(committed)
  BY <1>1, DoneFacts, CommittedFacts
<1>3. j \in 1..Len(committed)
  BY <1>2
<1>4. committed[j] \in Op /\ Known(committed[j])
  BY <1>1, <1>3, CommittedFacts
<1>5. h.op \in Op /\ Known(h.op)
  BY <1>1, HandlerFacts DEF Known
<1>6. committed[j] = h.op
  BY <1>4, <1>5, OneCommand
<1> QED
  BY <1>3, <1>6 DEF CommittedBy

\* What is popped has been committed: if it is the handler's request, its command is.
LEMMA PopWaitChServes ==
    ASSUME ServiceInv, NEW h \in handlers, PopWaitCh(h)
    PROVE  ServiceInv'
<1> DEFINE s == h.srv
           i == h.index
           head == Head(waitApplyCh[s][i])
           g == IF ~SameRequest(head, h.op)
                THEN [h EXCEPT !.at = "erase", !.err = "ErrWrongLeader"]
                ELSE IF h.op.Operation = "Get" THEN [h EXCEPT !.at = "execute"]
                ELSE [h EXCEPT !.at = "erase", !.err = "OK"]
<1>1. /\ h.at = "wait" /\ i \in DOMAIN waitApplyCh[s] /\ waitApplyCh[s][i] # <<>>
      /\ Becomes(h, g)
      /\ waitApplyCh' = [waitApplyCh EXCEPT ![s][i] = Tail(@)]
      /\ UNCHANGED <<clerkVars, dbVars, raftVars, applyVars, budget>>
  BY DEF PopWaitCh
<1>2. Inv' /\ Inv
  BY PopWaitChKeeps DEF ServiceInv
<1>3. UNCHANGED <<committed, lastApplied, loop, m_skipList, m_lastRequestId>>
  BY <1>1 DEF raftVars, applyVars, dbVars
<1>4. h \in Handler /\ s \in Server /\ h.op \in Op
  BY <1>2, HandlerFacts
<1>5. waitApplyCh[s][i] \in Seq(Op)
  BY <1>1, <1>2, <1>4 DEF Inv, TypeOK, ChannelTypes
<1>6. /\ CommittedBy(head, lastApplied[s])
      /\ \A n \in 1..Len(Tail(waitApplyCh[s][i])) :
             CommittedBy(Tail(waitApplyCh[s][i])[n], lastApplied[s])
  <2> DEFINE q == waitApplyCh[s][i]
  <2>1. \A n \in 1..Len(q) : CommittedBy(q[n], lastApplied[s])
    BY <1>1, <1>4 DEF ServiceInv, HandlerGroup, ChannelInv
  <2>2. q \in Seq(Op) /\ q # <<>>
    BY <1>1, <1>5
  <2>3. 1 \in 1..Len(q) /\ head = q[1]
    <3> HIDE DEF q
    <3> QED
      BY <2>2, EmptySeq, LenProperties DEF q
  <2>4. \A n \in 1..Len(Tail(q)) : n + 1 \in 1..Len(q) /\ Tail(q)[n] = q[n + 1]
    <3> HIDE DEF q
    <3> QED
      BY <2>2, HeadTailProperties, LenProperties
  <2> HIDE DEF q, head
  <2>5. CommittedBy(head, lastApplied[s])
    BY <2>1, <2>3
  <2>6. \A n \in 1..Len(Tail(q)) : CommittedBy(Tail(q)[n], lastApplied[s])
    BY <2>1, <2>4
  <2> QED
    BY <2>5, <2>6 DEF q
<1>7. SameRequest(head, h.op) =>
          CommittedBy(h.op, lastApplied[s]) /\ CommittedBy(h.op, Len(committed))
  <2> SUFFICES ASSUME SameRequest(head, h.op)
               PROVE  CommittedBy(h.op, lastApplied[s]) /\ CommittedBy(h.op, Len(committed))
    OBVIOUS
  <2>1. PICK j \in 1..lastApplied[s] : committed[j] = head
    BY <1>6 DEF CommittedBy
  <2>2. committed[j].ClientId = h.op.ClientId /\ committed[j].RequestId = h.op.RequestId
    BY <2>1 DEF SameRequest
  <2> HIDE DEF s
  <2> QED
    BY <1>4, <2>2, HandlerCommand
<1> HIDE DEF head
<1>8. /\ g.op = h.op /\ g.awaited = h.awaited /\ g.value = h.value /\ g.srv = s
      /\ g.at = "erase" \/ (g.at = "execute" /\ g.op.Operation = "Get" /\ SameRequest(head, h.op))
      /\ g.at = "erase" /\ g.err # "ErrWrongLeader"
             => g.op.Operation # "Get" /\ SameRequest(head, h.op)
  BY <1>4 DEF Handler
<1> HIDE DEF g
<1>9. HandlerOk(g)
  BY <1>7, <1>8 DEF HandlerOk
<1>10. AnswerOk(g)
  BY <1>8 DEF AnswerOk, ServiceInv, HandlerGroup, AnswerInv
<1>11. ChannelInv'
  <2>1. ASSUME NEW x \in Server, NEW j \in DOMAIN waitApplyCh'[x],
               NEW n \in 1..Len(waitApplyCh'[x][j])
        PROVE  CommittedBy(waitApplyCh'[x][j][n], lastApplied[x])
    <3>1. CASE x = s /\ j = i
      <4>1. waitApplyCh'[x][j] = Tail(waitApplyCh[s][i])
        BY <1>1, <1>2, <1>4, <3>1 DEF Inv, MapInv
      <4> QED
        BY <1>6, <3>1, <4>1
    <3>2. CASE ~(x = s /\ j = i)
      <4>1. j \in DOMAIN waitApplyCh[x] /\ waitApplyCh'[x][j] = waitApplyCh[x][j]
        BY <1>1, <1>2, <1>4, <3>2 DEF Inv, MapInv
      <4> QED
        BY <4>1 DEF ServiceInv, HandlerGroup, ChannelInv
    <3> QED
      BY <3>1, <3>2
  <2> QED
    BY <1>3, <2>1 DEF ChannelInv, CommittedBy
<1>12. KnownGroup' /\ HandlerGroup'
  BY <1>1, <1>8, <1>9, <1>10, <1>11, HandlerServes
<1>13. ApplyGroup' /\ FirstInv'
  BY <1>3, ApplyKept
<1> QED
  BY <1>2, <1>12, <1>13 DEF ServiceInv

\* A handler somebody waits for serves the current request.
LEMMA AwaitedCurrent ==
    ASSUME ServiceInv, NEW h \in handlers, h.awaited
    PROVE  h.op.RequestId = m_requestId[h.op.ClientId] /\ request[h.op.ClientId] = h.op
<1>1. h.op.ClientId \in Client /\ h.op # None
  BY HandlerFacts, OpFacts DEF ServiceInv
<1>2. request[h.op.ClientId] = h.op
  BY DEF ServiceInv, HandlerGroup, AwaitedInv
<1> QED
  BY <1>1, <1>2 DEF ServiceInv, KnownGroup, RequestInv

\* A request the server has marked as done, and that is its client's last, is committed.
LEMMA DuplicateIsDone ==
    ASSUME ServiceInv, NEW h \in handlers, ifRequestDuplicate(h.srv, h.op),
           h.op.RequestId = m_requestId[h.op.ClientId]
    PROVE  CommittedBy(h.op, lastApplied[h.srv]) /\ CommittedBy(h.op, Len(committed))
<1> DEFINE s == h.srv
           c == h.op.ClientId
<1>1. Inv
  BY DEF ServiceInv
<1>2. h.op \in Op /\ s \in Server /\ c \in Client /\ h.op.RequestId \in Nat \ {0}
  BY <1>1, HandlerFacts, OpFacts
<1>3. h.op.RequestId <= m_lastRequestId[s][c] /\ m_lastRequestId[s][c] \in Nat
  BY <1>1, <1>2, DoneFacts DEF ifRequestDuplicate
<1> HIDE DEF s, c
<1>4. PICK j \in 1..Done(s) : /\ committed[j].ClientId = c
                              /\ committed[j].RequestId = m_lastRequestId[s][c]
  BY <1>2, <1>3 DEF ServiceInv, ApplyGroup, LastInv
<1>5. j \in 1..lastApplied[s] /\ j \in 1..Len(committed)
  BY <1>1, <1>2, DoneFacts, CommittedFacts
<1>6. committed[j] \in Op /\ Known(committed[j])
  BY <1>1, <1>5, CommittedFacts
<1>7. committed[j].RequestId <= m_requestId[c]
  BY <1>4, <1>6 DEF ServiceInv, KnownGroup, KnownInv
<1>8. h.op.RequestId = m_requestId[c]
  BY DEF c
<1>9. committed[j].RequestId = h.op.RequestId
  BY <1>2, <1>3, <1>4, <1>7, <1>8
<1>10. CommittedBy(h.op, lastApplied[s]) /\ CommittedBy(h.op, Len(committed))
  BY <1>2, <1>4, <1>5, <1>9, HandlerCommand DEF c
<1> QED
  BY <1>10 DEF s

\* A handler that timed out answers OK only for a command that was committed.
LEMMA TimeoutWaitChServes ==
    ASSUME ServiceInv, NEW h \in handlers, TimeoutWaitCh(h)
    PROVE  ServiceInv'
<1>1. /\ h.at = "wait" /\ UNCHANGED <<clerkVars, dbVars, waitApplyCh, raftVars, applyVars, budget>>
  BY DEF TimeoutWaitCh
<1>2. Inv' /\ Inv
  BY TimeoutWaitChKeeps DEF ServiceInv
<1>3. UNCHANGED <<committed, lastApplied, loop, m_skipList, m_lastRequestId>>
  BY <1>1 DEF raftVars, applyVars, dbVars
<1>4. h \in Handler
  BY <1>2, HandlerFacts
<1>5. PICK g : /\ Becomes(h, g) /\ g.op = h.op /\ g.awaited = h.awaited
               /\ g.value = h.value /\ g.srv = h.srv
               /\ \/ g.at = "erase" /\ g.err = "ErrWrongLeader"
                  \/ /\ ifRequestDuplicate(h.srv, h.op)
                     /\ \/ g.at = "execute" /\ g.op.Operation = "Get"
                        \/ g.at = "erase" /\ g.op.Operation # "Get"
  <2>1. \/ Becomes(h, [h EXCEPT !.at = "erase", !.err = "ErrWrongLeader"])
        \/ /\ ifRequestDuplicate(h.srv, h.op)
           /\ Becomes(h, IF h.op.Operation = "Get" THEN [h EXCEPT !.at = "execute"]
                         ELSE [h EXCEPT !.at = "erase", !.err = "OK"])
    BY DEF TimeoutWaitCh
  <2>2. CASE Becomes(h, [h EXCEPT !.at = "erase", !.err = "ErrWrongLeader"])
    <3> DEFINE g == [h EXCEPT !.at = "erase", !.err = "ErrWrongLeader"]
    <3>1. /\ g.op = h.op /\ g.awaited = h.awaited /\ g.value = h.value /\ g.srv = h.srv
          /\ g.at = "erase" /\ g.err = "ErrWrongLeader"
      BY <1>4 DEF Handler
    <3> HIDE DEF g
    <3>2. Becomes(h, g)
      BY <2>2 DEF g
    <3> QED
      BY <3>1, <3>2
  <2>3. CASE /\ ifRequestDuplicate(h.srv, h.op)
             /\ Becomes(h, IF h.op.Operation = "Get" THEN [h EXCEPT !.at = "execute"]
                           ELSE [h EXCEPT !.at = "erase", !.err = "OK"])
    <3> DEFINE g == IF h.op.Operation = "Get" THEN [h EXCEPT !.at = "execute"]
                    ELSE [h EXCEPT !.at = "erase", !.err = "OK"]
    <3>1. /\ g.op = h.op /\ g.awaited = h.awaited /\ g.value = h.value /\ g.srv = h.srv
          /\ \/ g.at = "execute" /\ g.op.Operation = "Get"
             \/ g.at = "erase" /\ g.op.Operation # "Get"
      BY <1>4 DEF Handler
    <3> HIDE DEF g
    <3>2. Becomes(h, g)
      BY <2>3 DEF g
    <3> QED
      BY <2>3, <3>1, <3>2
  <2> QED
    BY <2>1, <2>2, <2>3
<1>6. HandlerOk(g)
  <2>1. ifRequestDuplicate(h.srv, h.op) /\ (h.awaited \/ h.op.Operation = "Get") =>
            CommittedBy(h.op, lastApplied[h.srv]) /\ CommittedBy(h.op, Len(committed))
    BY AwaitedCurrent, DuplicateIsDone DEF ServiceInv, KnownGroup, GetsCurrent
  <2> QED
    BY <1>5, <2>1 DEF HandlerOk
<1>7. AnswerOk(g)
  BY <1>5 DEF AnswerOk, ServiceInv, HandlerGroup, AnswerInv
<1>8. ChannelInv'
  BY <1>1, <1>3, SameChannels
<1>9. KnownGroup' /\ HandlerGroup'
  BY <1>1, <1>5, <1>6, <1>7, <1>8, HandlerServes
<1>10. ApplyGroup' /\ FirstInv'
  BY <1>3, ApplyKept
<1> QED
  BY <1>2, <1>9, <1>10 DEF ServiceInv

\* A Get reads after its command was taken from Raft, so after it was called.
LEMMA ExecuteGetServes ==
    ASSUME ServiceInv, NEW h \in handlers, ExecuteGetOpOnKVDB(h)
    PROVE  ServiceInv'
<1> DEFINE s == h.srv
           c == h.op.ClientId
           v == m_skipList[h.srv][h.op.Key]
           g == [h EXCEPT !.at = "erase", !.value = v,
                          !.err = IF v = None THEN "ErrNoKey" ELSE "OK"]
<1>1. /\ h.at = "execute" /\ Becomes(h, g)
      /\ m_lastRequestId' = [m_lastRequestId EXCEPT ![s][c] = h.op.RequestId]
      /\ UNCHANGED <<clerkVars, m_skipList, waitApplyCh, raftVars, applyVars, budget>>
  BY DEF ExecuteGetOpOnKVDB
<1>2. Inv' /\ Inv
  BY ExecuteGetKeeps DEF ServiceInv
<1>3. UNCHANGED <<committed, lastApplied, loop, m_skipList>>
  BY <1>1 DEF raftVars, applyVars
<1>4. /\ h \in Handler /\ s \in Server /\ h.op \in Op /\ c \in Client /\ h.op.Key \in Key
      /\ h.op.RequestId \in Nat
  BY <1>2, HandlerFacts, OpFacts
<1>5. g.op = h.op /\ g.awaited = h.awaited /\ g.value = v /\ g.at = "erase"
  BY <1>4 DEF Handler
<1>6. h.op.Operation = "Get" /\ CommittedBy(h.op, lastApplied[s])
  BY <1>1 DEF ServiceInv, HandlerGroup, HandlerInv, HandlerOk
<1>7. PICK j \in 1..lastApplied[s] : committed[j] = h.op
  BY <1>6 DEF CommittedBy
<1>8. /\ Done(s) \in Nat /\ Done(s) <= lastApplied[s] /\ lastApplied[s] \in Nat
      /\ lastApplied[s] <= Len(committed) /\ Len(committed) \in Nat
  BY <1>2, <1>4, DoneFacts, CommittedFacts
<1>9. j \in 1..Done(s) /\ j \in 1..Len(committed)
  <2>1. CASE loop[s].at = "Execute"
    <3>1. committed[lastApplied[s]].Operation = "Put"
      BY <1>2, <1>4, <2>1 DEF Inv, LoopInv
    <3>2. j # lastApplied[s]
      BY <1>6, <1>7, <3>1
    <3> QED
      BY <1>2, <1>4, <1>8, <2>1, <3>2, DoneFacts
  <2>2. CASE loop[s].at # "Execute"
    BY <1>2, <1>4, <1>8, <2>2, DoneFacts
  <2> QED
    BY <2>1, <2>2
<1>10. since[c] < j /\ since[c] \in Nat
  <2>1. h.op.RequestId = m_requestId[c]
    BY <1>6 DEF ServiceInv, KnownGroup, GetsCurrent
  <2> QED
    BY <1>2, <1>4, <1>7, <1>9, <2>1, ClerkFacts DEF ServiceInv, HandlerGroup, SinceInv
<1>11. v = Store!ValueAfter(Effects, Done(s), h.op.Key)
  BY <1>4 DEF ServiceInv, ApplyGroup, ReplicaAgrees
<1>12. Done(s) \in since[c]..Len(committed)
  BY <1>8, <1>9, <1>10
<1> HIDE DEF g, v
<1>13. HandlerOk(g)
  BY <1>5, <1>6 DEF HandlerOk
<1>14. AnswerOk(g)
  BY <1>5, <1>6, <1>11, <1>12 DEF AnswerOk
<1>15. ChannelInv'
  BY <1>1, <1>3, SameChannels
<1>16. KnownGroup' /\ HandlerGroup'
  BY <1>1, <1>5, <1>13, <1>14, <1>15, HandlerServes
<1>17. \A x \in Server, y \in Client :
           m_lastRequestId'[x][y] = IF x = s /\ y = c THEN h.op.RequestId ELSE m_lastRequestId[x][y]
  BY <1>1, <1>2, <1>4 DEF Inv, TypeOK, ServerTypes
<1>18. \A x \in Server : Done(x)' = Done(x)
  BY <1>3 DEF Done
<1> HIDE DEF s, c
<1>19. LastInv'
  <2>1. ASSUME NEW x \in Server, NEW y \in Client, m_lastRequestId'[x][y] # 0
        PROVE  \E n \in 1..Done(x) : /\ committed[n].ClientId = y
                                     /\ committed[n].RequestId = m_lastRequestId'[x][y]
    <3>1. CASE x = s /\ y = c
      BY <1>7, <1>9, <1>17, <3>1 DEF c
    <3>2. CASE ~(x = s /\ y = c)
      BY <1>17, <2>1, <3>2 DEF ServiceInv, ApplyGroup, LastInv
    <3> QED
      BY <3>1, <3>2
  <2> QED
    BY <1>3, <1>18, <2>1 DEF LastInv
<1>20. PutsInv'
  <2>1. ASSUME NEW x \in Server, NEW n \in 1..Done(x), committed[n].Operation = "Put"
        PROVE  committed[n].RequestId <= m_lastRequestId'[x][committed[n].ClientId]
    <3>1. n \in 1..Len(committed)
      BY <1>2, DoneFacts, CommittedFacts
    <3>2. /\ committed[n] \in Op /\ Known(committed[n]) /\ committed[n].ClientId \in Client
          /\ committed[n].RequestId \in Nat
      BY <1>2, <3>1, CommittedFacts
    <3>3. committed[n].RequestId <= m_requestId[committed[n].ClientId]
      BY <3>2 DEF ServiceInv, KnownGroup, KnownInv
    <3>4. h.op.RequestId = m_requestId[c]
      BY <1>6 DEF ServiceInv, KnownGroup, GetsCurrent, c
    <3>5. committed[n].RequestId <= m_lastRequestId[x][committed[n].ClientId]
      BY <2>1 DEF ServiceInv, ApplyGroup, PutsInv
    <3> QED
      BY <1>17, <3>2, <3>3, <3>4, <3>5
  <2> QED
    BY <1>3, <1>18, <2>1 DEF PutsInv
<1>21. (\A n : InEffect(n)' <=> InEffect(n)) /\ Effects' = Effects
  BY <1>3 DEF InEffect, Effects
<1>22. ExecutedOnce' /\ FirstInv'
  BY <1>3, <1>21 DEF ServiceInv, ApplyGroup, ExecutedOnce, FirstInv
<1>23. ReplicaAgrees'
  <2>1. ASSUME NEW x \in Server, NEW k \in Key
        PROVE  Store!ValueAfter(Effects, Done(x), k)' = Store!ValueAfter(Effects, Done(x), k)
    <3>1. Done(x)' = Done(x)
      BY <1>18
    <3> QED
      BY <1>21, <3>1 DEF Store!ValueAfter, Store!Max
  <2> QED
    BY <1>3, <2>1 DEF ServiceInv, ApplyGroup, ReplicaAgrees
<1> QED
  BY <1>2, <1>16, <1>19, <1>20, <1>22, <1>23 DEF ServiceInv, ApplyGroup

\* Erasing a channel leaves what the others hold.
LEMMA EraseChannel ==
    ASSUME ServiceInv, NEW h \in handlers, EraseWaitCh(h)
    PROVE  ChannelInv'
<1>1. h.srv \in Server
  BY HandlerFacts DEF ServiceInv
<1>2. /\ waitApplyCh' = [waitApplyCh EXCEPT ![h.srv] = Without(@, h.index)]
      /\ UNCHANGED <<committed, lastApplied>>
  BY DEF EraseWaitCh, raftVars, applyVars
<1>3. \A s \in Server : \A i \in DOMAIN waitApplyCh'[s] :
          i \in DOMAIN waitApplyCh[s] /\ waitApplyCh'[s][i] = waitApplyCh[s][i]
  BY <1>1, <1>2 DEF ServiceInv, Inv, MapInv, Without
<1> QED
  BY <1>2, <1>3 DEF ServiceInv, HandlerGroup, ChannelInv, CommittedBy

\* A Clerk that gets its answer has its Put committed.
LEMMA ReturnServes ==
    ASSUME ServiceInv, NEW h \in handlers, EraseWaitCh(h), h.awaited, h.err # "ErrWrongLeader"
    PROVE  ServiceInv'
<1> DEFINE c == h.op.ClientId
<1>1. /\ h.at = "erase" /\ handlers' = handlers \ {h}
      /\ UNCHANGED <<dbVars, raftVars, applyVars, budget>>
      /\ request' = [request EXCEPT ![c] = None]
      /\ waiting' = [waiting EXCEPT ![c] = FALSE]
      /\ since' = [since EXCEPT ![c] = 0]
      /\ UNCHANGED m_requestId
  BY DEF EraseWaitCh, Reply
<1>2. Inv' /\ Inv
  BY EraseWaitChKeeps DEF ServiceInv
<1>3. UNCHANGED <<committed, proposed, lastApplied, loop, m_skipList, m_lastRequestId>>
  BY <1>1 DEF raftVars, applyVars, dbVars
<1>4. h.op \in Op /\ c \in Client /\ Known(h.op) /\ h.op.RequestId = m_requestId[c]
  BY <1>2, HandlerFacts, OpFacts, AwaitedCurrent DEF Known
<1>5. /\ \A x \in Client : request'[x] = IF x = c THEN None ELSE request[x]
      /\ \A x \in Client : waiting'[x] = IF x = c THEN FALSE ELSE waiting[x]
      /\ \A x \in Client : since'[x] = IF x = c THEN 0 ELSE since[x]
  BY <1>1, <1>2, <1>4 DEF Inv, TypeOK, ClerkTypes
<1> HIDE DEF c
<1>6. /\ \A op : Submitted(op)' <=> Submitted(op)
      /\ \A op, n : CommittedBy(op, n)' <=> CommittedBy(op, n)
  BY <1>3 DEF Submitted, CommittedBy
<1>7. \A op \in Op : Known(op)' => Known(op)
  BY <1>1, <1>5, <1>6, NoneAssumption DEF Known
<1>8. RequestInv'
  BY <1>1, <1>5 DEF ServiceInv, KnownGroup, RequestInv
<1>9. GetsCurrent' /\ KnownInv' /\ UniqueInv'
  BY <1>1, <1>7 DEF ServiceInv, KnownGroup, GetsCurrent, KnownInv, UniqueInv
<1>10. Settled'
  <2> SUFFICES ASSUME NEW op \in Op, Submitted(op), op.Operation = "Put",
                      op.RequestId < m_requestId[op.ClientId] \/ request'[op.ClientId] = None
               PROVE  CommittedBy(op, Len(committed))
    BY <1>1, <1>3, <1>6 DEF Settled
  <2>1. op.ClientId \in Client /\ op.RequestId \in Nat /\ Known(op) /\ m_requestId[c] \in Nat
    BY <1>2, <1>4, OpFacts, ClerkFacts DEF Known
  <2>2. CASE op.RequestId < m_requestId[op.ClientId] \/ request[op.ClientId] = None
    BY <2>2 DEF ServiceInv, KnownGroup, Settled
  <2>3. CASE op.ClientId = c /\ op.RequestId = m_requestId[c]
    <3>1. op = h.op
      BY <1>4, <2>1, <2>3, OneCommand DEF c
    <3> QED
      BY <1>1, <3>1 DEF ServiceInv, HandlerGroup, HandlerInv, HandlerOk
  <2>4. op.RequestId <= m_requestId[op.ClientId]
    BY <2>1 DEF ServiceInv, KnownGroup, KnownInv
  <2> QED
    BY <1>5, <2>1, <2>2, <2>3, <2>4
<1>11. CommitOrder'
  BY <1>3, <1>6 DEF ServiceInv, KnownGroup, CommitOrder
<1>12. ApplyGroup' /\ FirstInv'
  BY <1>3, ApplyKept
<1>13. ASSUME NEW g \in handlers' PROVE HandlerOk(g)' /\ AnswerOk(g)'
  <2>1. g \in handlers /\ g.op.ClientId \in Client /\ g.srv \in Server
    BY <1>1, <1>2, HandlerFacts, OpFacts
  <2>2. /\ since'[g.op.ClientId] <= since[g.op.ClientId]
        /\ since[g.op.ClientId] \in Nat /\ since'[g.op.ClientId] \in Nat
    BY <1>2, <1>5, <2>1, ClerkFacts
  <2>3. lastApplied'[g.srv] = lastApplied[g.srv] /\ lastApplied[g.srv] \in Nat
    BY <1>2, <1>3, <2>1, DoneFacts
  <2>4. HandlerOk(g) /\ AnswerOk(g)
    BY <2>1 DEF ServiceInv, HandlerGroup, HandlerInv, AnswerInv
  <2> QED
    BY <1>3, <2>1, <2>2, <2>3, <2>4, HandlersKept
<1>14. AwaitedInv'
  <2>1. ASSUME NEW g \in handlers', g.awaited
        PROVE  g.op.ClientId \in Client /\ g.op.ClientId # c
    BY <1>1, <1>2, <2>1, HandlerFacts, OpFacts DEF ServiceInv, HandlerGroup, AwaitedInv, c
  <2> QED
    BY <1>1, <1>5, <2>1 DEF ServiceInv, HandlerGroup, AwaitedInv
<1>15. SinceInv'
  <2>1. Len(committed) \in Nat /\ \A j \in 1..Len(committed) : committed[j].ClientId \in Client
    BY <1>2, CommittedFacts
  <2> QED
    BY <1>1, <1>3, <1>5, <2>1 DEF ServiceInv, HandlerGroup, SinceInv
<1>16. KnownGroup'
  BY <1>8, <1>9, <1>10, <1>11 DEF KnownGroup
<1>17. HandlerGroup'
  BY <1>13, <1>14, <1>15, EraseChannel DEF HandlerGroup, HandlerInv, AnswerInv
<1> QED
  BY <1>2, <1>12, <1>16, <1>17 DEF ServiceInv

\* Otherwise the Clerk goes on trying, or nobody listens.
LEMMA EraseWaitChServes ==
    ASSUME ServiceInv, NEW h \in handlers, EraseWaitCh(h)
    PROVE  ServiceInv'
<1> DEFINE c == h.op.ClientId
<1>1. CASE h.awaited /\ h.err # "ErrWrongLeader"
  BY <1>1, ReturnServes
<1>2. CASE ~(h.awaited /\ h.err # "ErrWrongLeader")
  <2>1. Inv' /\ Inv
    BY EraseWaitChKeeps DEF ServiceInv
  <2>2. c \in Client
    BY <2>1, HandlerFacts, OpFacts
  <2>3. /\ handlers' = handlers \ {h}
        /\ UNCHANGED <<m_requestId, request, since, dbVars, raftVars, applyVars>>
        /\ UNCHANGED waiting \/ (h.awaited /\ waiting' = [waiting EXCEPT ![c] = FALSE])
    BY <1>2 DEF EraseWaitCh, Reply, TryNext, clerkVars
  <2>4. \A x \in Client : waiting'[x] = waiting[x] \/ (h.awaited /\ x = c)
    BY <2>1, <2>2, <2>3 DEF Inv, TypeOK, ClerkTypes
  <2>5. AwaitedInv'
    <3>1. ASSUME NEW g \in handlers', g.awaited
          PROVE  g.op.ClientId \in Client /\ ~(h.awaited /\ g.op.ClientId = c)
      BY <2>1, <2>3, <3>1, HandlerFacts, OpFacts DEF ServiceInv, HandlerGroup, AwaitedInv
    <3> QED
      BY <2>3, <2>4, <3>1 DEF ServiceInv, HandlerGroup, AwaitedInv
  <2> QED
    BY <2>1, <2>3, <2>5, EraseChannel, OnlyWaiters
<1> QED
  BY <1>1, <1>2

-----------------------------------------------------------------------------
(* ReadRaftApplyCommandLoop *)

\* The handlers when a server goes on with the log or starts again without them.
LEMMA HandlersRemain ==
    ASSUME ServiceInv, UNCHANGED <<committed, since>>,
           \A h \in handlers' : /\ h \in handlers /\ lastApplied'[h.srv] \in Nat
                                /\ lastApplied[h.srv] <= lastApplied'[h.srv]
    PROVE  HandlerInv' /\ AnswerInv'
<1>1. ASSUME NEW h \in handlers' PROVE HandlerOk(h)' /\ AnswerOk(h)'
  <2>1. h \in handlers /\ lastApplied'[h.srv] \in Nat /\ lastApplied[h.srv] <= lastApplied'[h.srv]
    OBVIOUS
  <2>2. Inv
    BY DEF ServiceInv
  <2>3. h.op.ClientId \in Client /\ h.srv \in Server
    BY <2>1, <2>2, HandlerFacts, OpFacts
  <2>4. since[h.op.ClientId] \in Nat /\ lastApplied[h.srv] \in Nat
    BY <2>2, <2>3, ClerkFacts, DoneFacts
  <2>5. HandlerOk(h) /\ AnswerOk(h)
    BY <2>1 DEF ServiceInv, HandlerGroup, HandlerInv, AnswerInv
  <2> QED
    BY <2>1, <2>3, <2>4, <2>5, HandlersKept
<1> QED
  BY <1>1 DEF HandlerInv, AnswerInv

\* A Put that m_lastRequestId says is a duplicate was committed before.
LEMMA DuplicateHasNoEffect ==
    ASSUME ServiceInv, NEW s \in Server, NEW n \in 1..Len(committed), n > Done(s),
           ifRequestDuplicate(s, committed[n])
    PROVE  ~InEffect(n)
<1> DEFINE op == committed[n]
           c == op.ClientId
<1>1. Inv
  BY DEF ServiceInv
<1>2. /\ op \in Op /\ op.RequestId \in Nat \ {0} /\ c \in Client /\ Submitted(op)
      /\ n \in Nat /\ Done(s) \in Nat
  BY <1>1, CommittedFacts, DoneFacts
<1>3. op.RequestId <= m_lastRequestId[s][c] /\ m_lastRequestId[s][c] \in Nat
  BY <1>1, <1>2, DoneFacts DEF ifRequestDuplicate
<1> HIDE DEF c
<1>4. PICK j \in 1..Done(s) : /\ committed[j].ClientId = c
                              /\ committed[j].RequestId = m_lastRequestId[s][c]
  BY <1>2, <1>3 DEF ServiceInv, ApplyGroup, LastInv
<1>5. j \in 1..n-1 /\ j \in 1..Len(committed)
  BY <1>2
<1>6. CASE op.RequestId = committed[j].RequestId
  BY <1>4, <1>5, <1>6 DEF InEffect, SameRequest, c
<1>7. CASE op.RequestId # committed[j].RequestId
  <2>1. op.RequestId < committed[j].RequestId
    BY <1>2, <1>3, <1>4, <1>7
  <2> SUFFICES ASSUME op.Operation = "Put" PROVE ~InEffect(n)
    BY DEF InEffect
  <2>2. CommittedBy(op, j - 1)
    BY <1>2, <1>4, <1>5, <2>1 DEF ServiceInv, KnownGroup, CommitOrder, c
  <2>3. PICK i \in 1..j-1 : committed[i] = op
    BY <2>2 DEF CommittedBy
  <2>4. i \in 1..n-1
    BY <1>2, <1>5
  <2> QED
    BY <2>3, <2>4 DEF InEffect, SameRequest
<1> QED
  BY <1>6, <1>7

\* A command that is new to m_lastRequestId was not committed before.
LEMMA NewHasEffect ==
    ASSUME ServiceInv, NEW s \in Server, NEW n \in 1..Len(committed), n = Done(s) + 1,
           committed[n].Operation = "Put", ~ifRequestDuplicate(s, committed[n])
    PROVE  InEffect(n)
<1>1. Inv
  BY DEF ServiceInv
<1>2. Done(s) \in Nat
  BY <1>1, DoneFacts
<1>3. ASSUME NEW j \in 1..n-1, SameRequest(committed[j], committed[n]) PROVE FALSE
  <2>1. j \in 1..Done(s) /\ j \in 1..Len(committed)
    BY <1>2
  <2>2. committed[j] \in Op /\ committed[n] \in Op /\ Known(committed[j]) /\ Known(committed[n])
    BY <1>1, <2>1, CommittedFacts
  <2>3. committed[j] = committed[n]
    BY <1>3, <2>2, OneCommand DEF SameRequest
  <2>4. committed[n].RequestId <= m_lastRequestId[s][committed[n].ClientId]
    BY <2>1, <2>3 DEF ServiceInv, ApplyGroup, PutsInv
  <2> QED
    BY <2>4 DEF ifRequestDuplicate
<1> QED
  BY <1>3 DEF InEffect

\* A command is skipped or executed as it deserves.
LEMMA GetCommandServes ==
    ASSUME ServiceInv, NEW s \in Server, GetCommandFromRaft(s)
    PROVE  ServiceInv'
<1> DEFINE n == lastApplied[s] + 1
           op == committed[n]
           skip == ifRequestDuplicate(s, op) \/ op.Operation = "Get"
<1>1. /\ loop[s].at = "Pop" /\ lastApplied[s] < Len(committed)
      /\ loop' = [loop EXCEPT ![s] = [at |-> IF skip THEN "Send" ELSE "Execute", op |-> op]]
      /\ lastApplied' = [lastApplied EXCEPT ![s] = n]
      /\ UNCHANGED <<clerkVars, dbVars, waitApplyCh, handlers, committed, proposed, budget>>
  BY DEF GetCommandFromRaft
<1>2. Inv' /\ Inv
  BY GetCommandKeeps DEF ServiceInv
<1>3. UNCHANGED <<m_requestId, request, waiting, since, m_skipList, m_lastRequestId>>
  BY <1>1 DEF clerkVars, dbVars
<1>4. /\ lastApplied[s] \in Nat /\ n \in 1..Len(committed) /\ Len(committed) \in Nat
      /\ Done(s) = lastApplied[s] /\ n \in Nat
  BY <1>1, <1>2, DoneFacts, CommittedFacts
<1>5. /\ \A x \in Server : lastApplied'[x] = IF x = s THEN n ELSE lastApplied[x]
      /\ \A x \in Server : x # s => loop'[x] = loop[x]
      /\ loop'[s].at = IF skip THEN "Send" ELSE "Execute"
  BY <1>1, <1>2 DEF Inv, TypeOK, ServerTypes
<1>6. op \in Op /\ op.Operation \in {"Get", "Put"}
  BY <1>2, <1>4, CommittedFacts
<1> HIDE DEF n, op, skip
<1>7. \A x \in Server : x # s => Done(x)' = Done(x)
  BY <1>5 DEF Done
<1>8. Done(s)' = IF skip THEN n ELSE n - 1
  BY <1>4, <1>5 DEF Done
<1>9. Done(s) = n - 1
  BY <1>4 DEF n
<1>10. \A x \in Server : Done(x) \in Nat /\ Done(x)' \in Nat /\ Done(x) <= Done(x)'
  BY <1>2, <1>4, <1>7, <1>8, <1>9, DoneFacts
<1>11. KnownGroup'
  BY <1>1, <1>3, KnownKept
<1>12. LastInv'
  <2>1. ASSUME NEW x \in Server, NEW c \in Client, m_lastRequestId[x][c] # 0
        PROVE  \E j \in 1..Done(x)' : /\ committed[j].ClientId = c
                                      /\ committed[j].RequestId = m_lastRequestId[x][c]
    <3>1. PICK j \in 1..Done(x) : /\ committed[j].ClientId = c
                                  /\ committed[j].RequestId = m_lastRequestId[x][c]
      BY <2>1 DEF ServiceInv, ApplyGroup, LastInv
    <3>2. j \in 1..Done(x)'
      BY <1>10
    <3> QED
      BY <3>1, <3>2
  <2> QED
    BY <1>1, <1>3, <2>1 DEF LastInv
<1>13. PutsInv'
  <2>1. ASSUME NEW x \in Server, NEW j \in 1..Done(x)', committed[j].Operation = "Put"
        PROVE  committed[j].RequestId <= m_lastRequestId[x][committed[j].ClientId]
    <3>1. CASE j \in 1..Done(x)
      BY <2>1, <3>1 DEF ServiceInv, ApplyGroup, PutsInv
    <3>2. CASE j \notin 1..Done(x)
      <4>1. x = s /\ skip /\ j = n
        BY <1>4, <1>7, <1>8, <1>9, <1>10, <3>2
      <4>2. ifRequestDuplicate(s, op)
        BY <2>1, <4>1 DEF skip, op
      <4> QED
        BY <4>1, <4>2 DEF ifRequestDuplicate, op
    <3> QED
      BY <3>1, <3>2
  <2> QED
    BY <1>1, <1>3, <2>1 DEF PutsInv
<1>14. (\A i : InEffect(i)' <=> InEffect(i)) /\ Effects' = Effects
  BY <1>1 DEF InEffect, Effects
<1>15. ExecutedOnce'
  <2>1. ~skip => InEffect(n)
    <3> SUFFICES ASSUME ~skip PROVE InEffect(n)
      OBVIOUS
    <3>1. committed[n].Operation = "Put" /\ ~ifRequestDuplicate(s, committed[n])
      BY <1>6 DEF skip, op
    <3> QED
      BY <1>4, <1>9, <3>1, NewHasEffect
  <2> QED
    BY <1>5, <1>14, <2>1 DEF ServiceInv, ApplyGroup, ExecutedOnce
<1>16. ReplicaAgrees'
  <2>1. ASSUME NEW x \in Server, NEW k \in Key
        PROVE  Store!ValueAfter(Effects, Done(x), k)' = Store!ValueAfter(Effects, Done(x), k)
    <3>1. Store!ValueAfter(Effects, Done(x), k)' = Store!ValueAfter(Effects, Done(x)', k)
      BY <1>14 DEF Store!ValueAfter, Store!Max
    <3>2. CASE Done(x)' = Done(x)
      BY <3>1, <3>2
    <3>3. CASE Done(x)' # Done(x)
      <4>1. x = s /\ skip /\ Done(x)' = Done(x) + 1 /\ Done(x) + 1 = n
        BY <1>4, <1>7, <1>8, <1>9, <3>3
      <4>2. ~InEffect(n)
        <5>1. CASE ifRequestDuplicate(s, op)
          BY <1>4, <1>9, <5>1, DuplicateHasNoEffect DEF op
        <5>2. CASE op.Operation = "Get"
          BY <5>2 DEF InEffect, op
        <5> QED
          BY <4>1, <5>1, <5>2 DEF skip
      <4>3. Effects[Done(x) + 1] = None
        BY <1>4, <4>1, <4>2 DEF Effects
      <4>4. Store!ValueAfter(Effects, Done(x) + 1, k) = Store!ValueAfter(Effects, Done(x), k)
        BY <1>10, <4>3, NextValue
      <4> QED
        BY <3>1, <4>1, <4>4
    <3> QED
      BY <3>2, <3>3
  <2> QED
    BY <1>3, <2>1 DEF ServiceInv, ApplyGroup, ReplicaAgrees
<1>17. FirstInv'
  BY <1>1, <1>14 DEF ServiceInv, FirstInv
<1>18. \A x \in Server : /\ lastApplied[x] \in Nat /\ lastApplied'[x] \in Nat
                         /\ lastApplied[x] <= lastApplied'[x]
  BY <1>2, <1>4, <1>5, DoneFacts DEF n
<1>19. ChannelInv'
  <2>1. ASSUME NEW x \in Server, NEW i \in DOMAIN waitApplyCh[x],
               NEW m \in 1..Len(waitApplyCh[x][i])
        PROVE  CommittedBy(waitApplyCh[x][i][m], lastApplied'[x])
    <3>1. CommittedBy(waitApplyCh[x][i][m], lastApplied[x])
      BY DEF ServiceInv, HandlerGroup, ChannelInv
    <3> QED
      BY <1>18, <3>1, CommittedMore
  <2> QED
    BY <1>1, <2>1 DEF ChannelInv, CommittedBy
<1>20. HandlerInv' /\ AnswerInv'
  <2>1. \A h \in handlers : h.srv \in Server
    BY <1>2, HandlerFacts
  <2> QED
    BY <1>1, <1>3, <1>18, <2>1, HandlersRemain
<1>21. AwaitedInv' /\ SinceInv'
  BY <1>1, <1>3 DEF ServiceInv, HandlerGroup, AwaitedInv, SinceInv
<1> QED
  BY <1>2, <1>11, <1>12, <1>13, <1>15, <1>16, <1>17, <1>19, <1>20, <1>21
  DEF ServiceInv, ApplyGroup, HandlerGroup

\* A command that is executed is the last one of its client that has an effect.
LEMMA ExecutePutServes ==
    ASSUME ServiceInv, NEW s \in Server, ExecutePutOpOnKVDB(s)
    PROVE  ServiceInv'
<1> DEFINE n == lastApplied[s]
           op == committed[n]
           c == op.ClientId
<1>1. loop[s].at = "Execute" /\ loop[s].op = op
  BY DEF ExecutePutOpOnKVDB, ServiceInv, Inv, LoopInv
<1>2. /\ m_skipList' = [m_skipList EXCEPT ![s][op.Key] = op]
      /\ m_lastRequestId' = [m_lastRequestId EXCEPT ![s][c] = op.RequestId]
      /\ loop' = [loop EXCEPT ![s].at = "Send"]
      /\ UNCHANGED <<clerkVars, waitApplyCh, handlers, raftVars, lastApplied, budget>>
  BY <1>1 DEF ExecutePutOpOnKVDB
<1>3. Inv' /\ Inv
  BY ExecutePutKeeps DEF ServiceInv
<1>4. UNCHANGED <<m_requestId, request, waiting, since, committed, proposed>>
  BY <1>2 DEF clerkVars, raftVars
<1>5. n \in 1..Len(committed) /\ n \in Nat /\ Len(committed) \in Nat /\ Done(s) = n - 1
  BY <1>1, <1>3, DoneFacts, CommittedFacts
<1>6. /\ op \in Op /\ c \in Client /\ op.Key \in Key /\ op.RequestId \in Nat \ {0} /\ Submitted(op)
      /\ op # None
  BY <1>3, <1>5, CommittedFacts, OpFacts
<1>7. InEffect(n) /\ op.Operation = "Put"
  BY <1>1 DEF ServiceInv, ApplyGroup, ExecutedOnce, InEffect
<1>8. /\ \A x \in Server, k \in Key :
           m_skipList'[x][k] = IF x = s /\ k = op.Key THEN op ELSE m_skipList[x][k]
      /\ \A x \in Server, y \in Client :
           m_lastRequestId'[x][y] = IF x = s /\ y = c THEN op.RequestId ELSE m_lastRequestId[x][y]
  BY <1>2, <1>3, <1>6 DEF Inv, TypeOK, ServerTypes
<1>9. loop'[s].at = "Send" /\ \A x \in Server : x # s => loop'[x] = loop[x]
  BY <1>2, <1>3 DEF Inv, TypeOK, ServerTypes
<1> HIDE DEF n, op, c
<1>10. \A x \in Server : Done(x)' = IF x = s THEN n ELSE Done(x)
  BY <1>2, <1>5, <1>9 DEF Done, n
<1>11. KnownGroup'
  BY <1>2, <1>4, KnownKept
<1>12. LastInv'
  <2>1. ASSUME NEW x \in Server, NEW y \in Client, m_lastRequestId'[x][y] # 0
        PROVE  \E j \in 1..Done(x)' : /\ committed[j].ClientId = y
                                      /\ committed[j].RequestId = m_lastRequestId'[x][y]
    <3>1. CASE x = s /\ y = c
      <4>1. n \in 1..Done(x)'
        BY <1>5, <1>10, <3>1
      <4> QED
        BY <1>8, <3>1, <4>1 DEF op, c
    <3>2. CASE ~(x = s /\ y = c)
      <4>1. PICK j \in 1..Done(x) : /\ committed[j].ClientId = y
                                    /\ committed[j].RequestId = m_lastRequestId[x][y]
        BY <1>8, <2>1, <3>2 DEF ServiceInv, ApplyGroup, LastInv
      <4>2. j \in 1..Done(x)'
        BY <1>5, <1>10
      <4> QED
        BY <1>8, <3>2, <4>1, <4>2
    <3> QED
      BY <3>1, <3>2
  <2> QED
    BY <1>4, <2>1 DEF LastInv
<1>13. PutsInv'
  <2>1. ASSUME NEW x \in Server, NEW j \in 1..Done(x)', committed[j].Operation = "Put"
        PROVE  committed[j].RequestId <= m_lastRequestId'[x][committed[j].ClientId]
    <3>1. CASE j = n /\ x = s
      BY <1>6, <1>8, <3>1 DEF op, c
    <3>2. CASE ~(j = n /\ x = s)
      <4>1. j \in 1..Done(x) /\ Done(x) \in Nat
        BY <1>3, <1>5, <1>10, <3>2, DoneFacts
      <4>2. j \in 1..Len(committed)
        BY <1>3, <4>1, DoneFacts, CommittedFacts
      <4>3. /\ committed[j] \in Op /\ committed[j].RequestId \in Nat /\ committed[j].ClientId \in Client
        BY <1>3, <4>2, CommittedFacts
      <4>4. CASE x = s /\ committed[j].ClientId = c
        <5>1. j < n
          BY <1>5, <4>1, <4>4
        <5>2. ASSUME op.RequestId < committed[j].RequestId PROVE FALSE
          <6>1. CommittedBy(op, j - 1)
            BY <1>6, <1>7, <4>2, <4>4, <5>2 DEF ServiceInv, KnownGroup, CommitOrder, c
          <6>2. PICK i \in 1..j-1 : committed[i] = op
            BY <6>1 DEF CommittedBy
          <6>3. i \in 1..n-1
            BY <1>5, <4>2, <5>1
          <6> QED
            BY <1>7, <6>2, <6>3 DEF InEffect, SameRequest, op
        <5> QED
          BY <1>6, <1>8, <4>3, <4>4, <5>2
      <4>5. CASE ~(x = s /\ committed[j].ClientId = c)
        BY <1>8, <2>1, <4>1, <4>3, <4>5 DEF ServiceInv, ApplyGroup, PutsInv
      <4> QED
        BY <4>4, <4>5
    <3> QED
      BY <3>1, <3>2
  <2> QED
    BY <1>4, <2>1 DEF PutsInv
<1>14. (\A i : InEffect(i)' <=> InEffect(i)) /\ Effects' = Effects
  BY <1>4 DEF InEffect, Effects
<1>15. ExecutedOnce'
  BY <1>2, <1>9, <1>14 DEF ServiceInv, ApplyGroup, ExecutedOnce
<1>16. ReplicaAgrees'
  <2>1. ASSUME NEW x \in Server, NEW k \in Key
        PROVE  m_skipList'[x][k] = Store!ValueAfter(Effects, Done(x), k)'
    <3>1. Store!ValueAfter(Effects, Done(x), k)' = Store!ValueAfter(Effects, Done(x)', k)
      BY <1>14 DEF Store!ValueAfter, Store!Max
    <3>2. m_skipList[x][k] = Store!ValueAfter(Effects, Done(x), k)
      BY DEF ServiceInv, ApplyGroup, ReplicaAgrees
    <3>3. CASE x # s
      BY <1>8, <1>10, <3>1, <3>2, <3>3
    <3>4. CASE x = s
      <4>1. Done(x) \in Nat /\ Done(x)' = Done(x) + 1 /\ Done(x) + 1 = n
        BY <1>5, <1>10, <3>4
      <4>2. Effects[Done(x) + 1] = op
        BY <1>5, <1>7, <4>1 DEF Effects, op
      <4>3. Store!ValueAfter(Effects, Done(x) + 1, k) =
                IF op.Key = k THEN op ELSE Store!ValueAfter(Effects, Done(x), k)
        BY <1>6, <4>1, <4>2, NextValue
      <4> QED
        BY <1>8, <3>1, <3>2, <3>4, <4>1, <4>3
    <3> QED
      BY <3>3, <3>4
  <2> QED
    BY <2>1 DEF ReplicaAgrees
<1>17. FirstInv'
  BY <1>4, <1>14 DEF ServiceInv, FirstInv
<1>18. ChannelInv'
  BY <1>2, <1>4, SameChannels
<1>19. HandlerInv' /\ AnswerInv'
  <2>1. \A h \in handlers : h.srv \in Server /\ lastApplied[h.srv] \in Nat
    BY <1>3, HandlerFacts, DoneFacts
  <2> QED
    BY <1>2, <1>4, <2>1, HandlersRemain
<1>20. AwaitedInv' /\ SinceInv'
  BY <1>2, <1>4 DEF ServiceInv, HandlerGroup, AwaitedInv, SinceInv
<1> QED
  BY <1>3, <1>11, <1>12, <1>13, <1>15, <1>16, <1>17, <1>18, <1>19, <1>20
  DEF ServiceInv, ApplyGroup, HandlerGroup

\* What is sent to a channel is the command taken last.
LEMMA SendServes ==
    ASSUME ServiceInv, NEW s \in Server, SendMessageToWaitChan(s)
    PROVE  ServiceInv'
<1> DEFINE i == lastApplied[s]
<1>1. /\ loop[s].at = "Send"
      /\ waitApplyCh' = IF i \in DOMAIN waitApplyCh[s]
                        THEN [waitApplyCh EXCEPT ![s][i] = Append(@, loop[s].op)]
                        ELSE waitApplyCh
      /\ loop' = [loop EXCEPT ![s] = Idle]
      /\ UNCHANGED <<clerkVars, dbVars, handlers, raftVars, lastApplied, budget>>
  BY DEF SendMessageToWaitChan
<1>2. Inv' /\ Inv
  BY SendKeeps DEF ServiceInv
<1>3. UNCHANGED <<m_requestId, request, waiting, since, committed, proposed, m_skipList, m_lastRequestId>>
  BY <1>1 DEF clerkVars, raftVars, dbVars
<1>4. loop'[s].at = "Pop" /\ \A x \in Server : x # s => loop'[x] = loop[x]
  BY <1>1, <1>2 DEF Inv, TypeOK, ServerTypes, Idle
<1>5. KnownGroup'
  BY <1>1, <1>3, KnownKept
<1>6. ApplyGroup' /\ FirstInv'
  <2>1. \A x \in Server : loop'[x].at = "Execute" <=> loop[x].at = "Execute"
    BY <1>1, <1>4
  <2> QED
    BY <1>1, <1>3, <2>1, ApplyKept
<1>7. CommittedBy(loop[s].op, i)
  <2>1. loop[s].op = committed[i] /\ i \in 1..i
    BY <1>1, <1>2, DoneFacts DEF Inv, LoopInv
  <2> QED
    BY <2>1 DEF CommittedBy
<1>8. ChannelInv'
  <2>1. ASSUME NEW x \in Server, NEW j \in DOMAIN waitApplyCh'[x],
               NEW m \in 1..Len(waitApplyCh'[x][j])
        PROVE  CommittedBy(waitApplyCh'[x][j][m], lastApplied[x])
    <3>1. j \in DOMAIN waitApplyCh[x] /\ \/ waitApplyCh'[x][j] = waitApplyCh[x][j]
                                         \/ /\ x = s
                                            /\ waitApplyCh'[x][j] = Append(waitApplyCh[x][j], loop[s].op)
      BY <1>1, <1>2 DEF Inv, MapInv
    <3>2. \A l \in 1..Len(waitApplyCh[x][j]) : CommittedBy(waitApplyCh[x][j][l], lastApplied[x])
      BY <3>1 DEF ServiceInv, HandlerGroup, ChannelInv
    <3>3. CASE waitApplyCh'[x][j] = waitApplyCh[x][j]
      BY <3>2, <3>3
    <3>4. CASE x = s /\ waitApplyCh'[x][j] = Append(waitApplyCh[x][j], loop[s].op)
      <4> DEFINE q == waitApplyCh[x][j]
      <4>1. q \in Seq(Op) /\ loop[s].op \in Op
        <5>1. q \in Seq(Op)
          BY <1>2, <3>1 DEF Inv, TypeOK, ChannelTypes
        <5>2. loop[s].op = committed[i] /\ i \in 1..Len(committed)
          BY <1>1, <1>2, DoneFacts DEF Inv, LoopInv
        <5> QED
          BY <1>2, <5>1, <5>2, CommittedFacts
      <4> HIDE DEF q
      <4>2. /\ Append(q, loop[s].op)[Len(q) + 1] = loop[s].op /\ Len(Append(q, loop[s].op)) = Len(q) + 1
            /\ \A l \in 1..Len(q) : Append(q, loop[s].op)[l] = q[l]
            /\ Len(q) \in Nat
        BY <4>1, AppendProperties, LenProperties
      <4>3. waitApplyCh'[x][j] = Append(q, loop[s].op)
        BY <3>4 DEF q
      <4>4. m \in 1..Len(q) \/ m = Len(q) + 1
        BY <4>2, <4>3
      <4>5. CASE m \in 1..Len(q)
        BY <3>2, <4>2, <4>3, <4>5 DEF q
      <4>6. CASE m = Len(q) + 1
        BY <1>7, <3>4, <4>2, <4>3, <4>6
      <4> QED
        BY <4>4, <4>5, <4>6
    <3> QED
      BY <3>1, <3>3, <3>4
  <2> QED
    BY <1>1, <1>3, <2>1 DEF ChannelInv, CommittedBy
<1>9. HandlerInv' /\ AnswerInv'
  <2>1. \A h \in handlers : h.srv \in Server /\ lastApplied[h.srv] \in Nat
    BY <1>2, HandlerFacts, DoneFacts
  <2> QED
    BY <1>1, <1>3, <2>1, HandlersRemain
<1>10. AwaitedInv' /\ SinceInv'
  BY <1>1, <1>3 DEF ServiceInv, HandlerGroup, AwaitedInv, SinceInv
<1> QED
  BY <1>2, <1>5, <1>6, <1>8, <1>9, <1>10 DEF ServiceInv, HandlerGroup

\* A server that starts again has done nothing, and nobody waits for it.
LEMMA RestartServes ==
    ASSUME ServiceInv, NEW s \in Server, Restart(s)
    PROVE  ServiceInv'
<1> DEFINE cut == {h.op.ClientId : h \in {g \in handlers : g.srv = s /\ g.awaited}}
<1>1. /\ m_skipList' = [m_skipList EXCEPT ![s] = [k \in Key |-> None]]
      /\ m_lastRequestId' = [m_lastRequestId EXCEPT ![s] = [c \in Client |-> 0]]
      /\ waitApplyCh' = [waitApplyCh EXCEPT ![s] = <<>>]
      /\ loop' = [loop EXCEPT ![s] = Idle]
      /\ lastApplied' = [lastApplied EXCEPT ![s] = 0]
      /\ handlers' = {h \in handlers : h.srv # s}
      /\ waiting' = [c \in Client |-> waiting[c] /\ c \notin cut]
      /\ UNCHANGED <<m_requestId, m_recentLeaderId, request, returned, since, committed, proposed>>
  BY DEF Restart
<1>2. Inv' /\ Inv
  BY RestartKeeps DEF ServiceInv
<1>3. /\ \A x \in Server : x # s => /\ m_skipList'[x] = m_skipList[x] /\ loop'[x] = loop[x]
                                    /\ m_lastRequestId'[x] = m_lastRequestId[x]
                                    /\ lastApplied'[x] = lastApplied[x]
                                    /\ waitApplyCh'[x] = waitApplyCh[x]
      /\ lastApplied'[s] = 0 /\ loop'[s].at = "Pop" /\ waitApplyCh'[s] = <<>>
      /\ \A k \in Key : m_skipList'[s][k] = None
      /\ \A c \in Client : m_lastRequestId'[s][c] = 0
  BY <1>1, <1>2 DEF Inv, TypeOK, ServerTypes, MapInv, Idle
<1>4. \A x \in Server : Done(x)' = IF x = s THEN 0 ELSE Done(x)
  BY <1>3 DEF Done
<1>5. KnownGroup'
  BY <1>1, KnownKept
<1>6. (\A i : InEffect(i)' <=> InEffect(i)) /\ Effects' = Effects
  BY <1>1 DEF InEffect, Effects
<1>7. FirstInv'
  BY <1>1, <1>6 DEF ServiceInv, FirstInv
<1>8. LastInv'
  BY <1>1, <1>3, <1>4 DEF ServiceInv, ApplyGroup, LastInv
<1>9. PutsInv'
  BY <1>1, <1>3, <1>4 DEF ServiceInv, ApplyGroup, PutsInv
<1>10. ExecutedOnce'
  BY <1>3, <1>6 DEF ServiceInv, ApplyGroup, ExecutedOnce
<1>11. ReplicaAgrees'
  <2>1. ASSUME NEW x \in Server, NEW k \in Key
        PROVE  m_skipList'[x][k] = Store!ValueAfter(Effects, Done(x), k)'
    <3>1. Store!ValueAfter(Effects, Done(x), k)' = Store!ValueAfter(Effects, Done(x)', k)
      BY <1>6 DEF Store!ValueAfter, Store!Max
    <3>2. CASE x = s
      BY <1>3, <1>4, <3>1, <3>2, NoValue
    <3>3. CASE x # s
      BY <1>3, <1>4, <3>1, <3>3 DEF ServiceInv, ApplyGroup, ReplicaAgrees
    <3> QED
      BY <3>2, <3>3
  <2> QED
    BY <2>1 DEF ReplicaAgrees
<1>12. ChannelInv'
  <2>1. ASSUME NEW x \in Server, NEW i \in DOMAIN waitApplyCh'[x], NEW m \in 1..Len(waitApplyCh'[x][i])
        PROVE  CommittedBy(waitApplyCh'[x][i][m], lastApplied'[x])
    <3>1. x # s
      BY <1>3
    <3> QED
      BY <1>3, <3>1 DEF ServiceInv, HandlerGroup, ChannelInv
  <2> QED
    BY <1>1, <2>1 DEF ChannelInv, CommittedBy
<1>13. HandlerInv' /\ AnswerInv'
  <2>1. \A h \in handlers' : h \in handlers /\ h.srv # s
    BY <1>1
  <2>2. \A h \in handlers' : h.srv \in Server /\ lastApplied[h.srv] \in Nat
    BY <1>2, <2>1, HandlerFacts, DoneFacts
  <2>3. \A h \in handlers' : lastApplied'[h.srv] = lastApplied[h.srv]
    BY <1>3, <2>1, <2>2
  <2> QED
    BY <1>1, <2>1, <2>2, <2>3, HandlersRemain
<1>14. AwaitedInv'
  <2>1. \A h \in handlers' : h \in handlers /\ h.srv # s
    BY <1>1
  <2>2. \A h \in handlers' : h.op.ClientId \in Client
    BY <1>2, <2>1, HandlerFacts, OpFacts
  <2>3. ASSUME NEW h \in handlers', h.awaited PROVE h.op.ClientId \notin cut
    BY <2>1, <2>3 DEF ServiceInv, HandlerGroup, AwaitedInv
  <2> HIDE DEF cut
  <2> QED
    BY <1>1, <2>1, <2>2, <2>3 DEF ServiceInv, HandlerGroup, AwaitedInv
<1>15. SinceInv'
  BY <1>1 DEF ServiceInv, HandlerGroup, SinceInv
<1> QED
  BY <1>2, <1>5, <1>7, <1>8, <1>9, <1>10, <1>11, <1>12, <1>13, <1>14, <1>15
  DEF ServiceInv, ApplyGroup, HandlerGroup

-----------------------------------------------------------------------------
(* Raft *)

\* What a commit adds and what it leaves.
LEMMA CommitFacts ==
    ASSUME ServiceInv, Commit
    PROVE  \E new \in Op :
               /\ committed' = Append(committed, new) /\ Submitted(new)
               /\ Len(committed) \in Nat /\ Len(committed)' = Len(committed) + 1
               /\ committed'[Len(committed) + 1] = new
               /\ \A j \in 1..Len(committed) : committed'[j] = committed[j]
               /\ \A op : Submitted(op)' => Submitted(op)
               /\ \A n \in 0..Len(committed) : \A op : CommittedBy(op, n)' <=> CommittedBy(op, n)
               /\ \A j \in 1..Len(committed) :
                    (InEffect(j)' <=> InEffect(j)) /\ Effects'[j] = Effects[j]
<1>1. PICK p \in proposed : /\ p[1] = Len(committed) + 1
                            /\ committed' = Append(committed, p[2])
                            /\ proposed' = {q \in proposed : q[1] # p[1]}
  BY DEF Commit
<1> DEFINE new == p[2]
<1>2. Inv
  BY DEF ServiceInv
<1>3. new \in Op /\ committed \in Seq(Op) /\ Len(committed) \in Nat
  BY <1>2, CommittedFacts DEF Inv, TypeOK, RaftTypes
<1>4. Submitted(new)
  BY <1>1 DEF Submitted
<1> HIDE DEF new
<1>5. committed' = Append(committed, new)
  BY <1>1 DEF new
<1>6. /\ Len(committed)' = Len(committed) + 1 /\ committed'[Len(committed) + 1] = new
      /\ \A j \in 1..Len(committed) : committed'[j] = committed[j]
  <2>1. /\ Len(Append(committed, new)) = Len(committed) + 1
        /\ \A j \in 1..Len(committed) : Append(committed, new)[j] = committed[j]
        /\ Append(committed, new)[Len(committed) + 1] = new
    BY <1>3, AppendProperties
  <2> QED
    BY <1>5, <2>1
<1>7. \A n \in 0..Len(committed) : \A op : CommittedBy(op, n)' <=> CommittedBy(op, n)
  BY <1>3, <1>6 DEF CommittedBy
<1>8. ASSUME NEW op, Submitted(op)' PROVE Submitted(op)
  <2>1. CASE \E q \in proposed' : q[2] = op
    BY <1>1, <2>1 DEF Submitted
  <2>2. CASE \E j \in 1..Len(committed) + 1 : committed'[j] = op
    <3>1. PICK j \in 1..Len(committed) + 1 : committed'[j] = op
      BY <2>2
    <3>2. CASE j \in 1..Len(committed)
      BY <1>6, <3>1, <3>2 DEF Submitted, CommittedBy
    <3>3. CASE j = Len(committed) + 1
      BY <1>4, <1>6, <3>1, <3>3
    <3> QED
      BY <1>3, <3>2, <3>3
  <2> QED
    BY <1>6, <1>8, <2>1, <2>2 DEF Submitted, CommittedBy
<1>9. ASSUME NEW j \in 1..Len(committed)
      PROVE  (InEffect(j)' <=> InEffect(j)) /\ Effects'[j] = Effects[j]
  <2>1. \A i \in 1..j-1 : i \in 1..Len(committed)
    BY <1>3
  <2>2. InEffect(j)' <=> InEffect(j)
    BY <1>6, <2>1 DEF InEffect
  <2>3. j \in 1..Len(committed)'
    BY <1>3, <1>6
  <2>4. Effects'[j] = (IF InEffect(j) THEN committed[j] ELSE None)'
    BY <2>3 DEF Effects
  <2>5. Effects[j] = IF InEffect(j) THEN committed[j] ELSE None
    BY DEF Effects
  <2> QED
    BY <1>6, <2>2, <2>4, <2>5
<1> QED
  BY <1>3, <1>4, <1>5, <1>6, <1>7, <1>8, <1>9

\* A command is committed: the Puts of its client before it already were.
LEMMA CommitServes ==
    ASSUME ServiceInv, Commit
    PROVE  ServiceInv'
<1> DEFINE L == Len(committed)
<1>1. PICK new \in Op :
          /\ committed' = Append(committed, new) /\ Submitted(new)
          /\ L \in Nat /\ Len(committed)' = L + 1
          /\ committed'[L + 1] = new
          /\ \A j \in 1..L : committed'[j] = committed[j]
          /\ \A op : Submitted(op)' => Submitted(op)
          /\ \A n \in 0..L : \A op : CommittedBy(op, n)' <=> CommittedBy(op, n)
          /\ \A j \in 1..L : (InEffect(j)' <=> InEffect(j)) /\ Effects'[j] = Effects[j]
  BY CommitFacts
<1>2. UNCHANGED <<clerkVars, dbVars, waitApplyCh, handlers, lastLogIndex, applyVars, budget>>
  BY DEF Commit
<1>3. UNCHANGED <<m_requestId, request, waiting, since, m_skipList, m_lastRequestId, lastApplied, loop>>
  BY <1>2 DEF clerkVars, dbVars, applyVars
<1>4. Inv' /\ Inv
  BY CommitKeeps DEF ServiceInv
<1> HIDE DEF L
<1>5. ASSUME NEW op, CommittedBy(op, L) PROVE CommittedBy(op, Len(committed))'
  BY <1>1, <1>5 DEF CommittedBy
<1>6. Known(new) /\ new.ClientId \in Client /\ new.RequestId \in Nat
  BY <1>1, OpFacts DEF Known
<1>7. \A op : Known(op)' => Known(op)
  BY <1>1, <1>2, <1>3 DEF Known
<1>8. RequestInv' /\ GetsCurrent' /\ KnownInv' /\ UniqueInv'
  BY <1>2, <1>3, <1>7
  DEF ServiceInv, KnownGroup, RequestInv, GetsCurrent, KnownInv, UniqueInv
<1>9. Settled'
  <2> SUFFICES ASSUME NEW op \in Op, Submitted(op)', op.Operation = "Put",
                      op.RequestId < m_requestId[op.ClientId] \/ request[op.ClientId] = None
               PROVE  CommittedBy(op, Len(committed))'
    BY <1>3 DEF Settled
  <2>1. Submitted(op)
    BY <1>1
  <2>2. CommittedBy(op, L)
    BY <2>1 DEF ServiceInv, KnownGroup, Settled, L
  <2> QED
    BY <1>5, <2>2
<1>10. CommitOrder'
  <2> SUFFICES ASSUME NEW j \in 1..(L + 1), NEW op \in Op, Submitted(op)', op.Operation = "Put",
                      op.ClientId = committed'[j].ClientId, op.RequestId < committed'[j].RequestId
               PROVE  CommittedBy(op, j - 1)'
    BY <1>1 DEF CommitOrder
  <2>1. Submitted(op) /\ op.RequestId \in Nat
    BY <1>1, OpFacts
  <2>2. CommittedBy(op, j - 1)
    <3>1. CASE j \in 1..L
      BY <1>1, <2>1, <3>1 DEF ServiceInv, KnownGroup, CommitOrder, L
    <3>2. CASE j = L + 1
      <4>1. new.RequestId <= m_requestId[new.ClientId] /\ m_requestId[new.ClientId] \in Nat
        BY <1>4, <1>6, ClerkFacts DEF ServiceInv, KnownGroup, KnownInv
      <4>2. op.RequestId < m_requestId[op.ClientId]
        BY <1>1, <1>6, <2>1, <3>2, <4>1
      <4>3. CommittedBy(op, L)
        BY <2>1, <4>2 DEF ServiceInv, KnownGroup, Settled, L
      <4> QED
        BY <1>1, <3>2, <4>3
    <3> QED
      BY <1>1, <3>1, <3>2
  <2>3. j - 1 \in 0..L
    BY <1>1
  <2> QED
    BY <1>1, <2>2, <2>3
<1>11. FirstInv'
  <2> SUFFICES ASSUME NEW j \in 1..(L + 1), committed'[j].Operation = "Put"
               PROVE  \E i \in 1..j : InEffect(i)' /\ committed'[i] = committed'[j]
    BY <1>1 DEF FirstInv
  <2>1. ASSUME NEW m \in 1..L, committed[m] = committed'[j], m <= j
        PROVE  \E i \in 1..j : InEffect(i)' /\ committed'[i] = committed'[j]
    <3>1. PICK i \in 1..m : InEffect(i) /\ committed[i] = committed[m]
      BY <2>1 DEF ServiceInv, FirstInv, L
    <3>2. i \in 1..L /\ i \in 1..j
      BY <1>1, <2>1
    <3> QED
      BY <1>1, <2>1, <3>1, <3>2
  <2>2. CASE j \in 1..L
    BY <1>1, <2>1, <2>2
  <2>3. CASE j = L + 1
    <3>1. CASE InEffect(j)'
      BY <1>1, <2>3, <3>1
    <3>2. CASE ~InEffect(j)'
      <4>1. PICK m \in 1..j-1 : SameRequest(committed'[m], committed'[j])
        BY <3>2 DEF InEffect
      <4>2. m \in 1..L /\ m <= j
        BY <1>1, <2>3
      <4>3. committed[m] \in Op /\ Known(committed[m])
        BY <1>4, <4>2, CommittedFacts DEF L
      <4>4. committed[m].ClientId = new.ClientId /\ committed[m].RequestId = new.RequestId
        BY <1>1, <2>3, <4>1, <4>2 DEF SameRequest
      <4>5. committed[m] = new
        BY <1>6, <4>3, <4>4, OneCommand
      <4> QED
        BY <1>1, <2>1, <2>3, <4>2, <4>5
    <3> QED
      BY <3>1, <3>2
  <2> QED
    BY <1>1, <2>2, <2>3
<1>12. \A x \in Server : Done(x)' = Done(x) /\ Done(x) \in Nat /\ Done(x) <= L /\ lastApplied[x] \in 0..L
  BY <1>3, <1>4, DoneFacts, CommittedFacts DEF Done, L
<1>13. \A x \in Server : \A j \in 1..Done(x) : j \in 1..L
  BY <1>1, <1>12
<1>14. LastInv' /\ PutsInv'
  <2>1. LastInv'
    BY <1>1, <1>3, <1>12, <1>13 DEF ServiceInv, ApplyGroup, LastInv
  <2>2. PutsInv'
    BY <1>1, <1>3, <1>12, <1>13 DEF ServiceInv, ApplyGroup, PutsInv
  <2> QED
    BY <2>1, <2>2
<1>15. ExecutedOnce'
  <2>1. \A x \in Server : loop[x].at = "Execute" => lastApplied[x] \in 1..L
    BY <1>4, DoneFacts DEF L
  <2> QED
    BY <1>1, <1>3, <2>1 DEF ServiceInv, ApplyGroup, ExecutedOnce
<1>16. ASSUME NEW n \in 0..L, NEW k
       PROVE  Store!ValueAfter(Effects', n, k) = Store!ValueAfter(Effects, n, k)
  <2>1. n \in Nat /\ \A j \in 1..n : j \in 1..L
    BY <1>1
  <2>2. \A j \in 1..n : Effects'[j] = Effects[j]
    BY <1>1, <2>1
  <2> QED
    BY <2>1, <2>2, SameValue
<1>17. ReplicaAgrees'
  <2>1. ASSUME NEW x \in Server, NEW k \in Key
        PROVE  m_skipList'[x][k] = Store!ValueAfter(Effects, Done(x), k)'
    <3>1. Store!ValueAfter(Effects, Done(x), k)' = Store!ValueAfter(Effects', Done(x), k)
      <4>1. Done(x)' = Done(x)
        BY <1>12
      <4> QED
        BY <4>1 DEF Store!ValueAfter, Store!Max
    <3>2. Store!ValueAfter(Effects', Done(x), k) = Store!ValueAfter(Effects, Done(x), k)
      BY <1>1, <1>12, <1>16
    <3> QED
      BY <1>3, <3>1, <3>2 DEF ServiceInv, ApplyGroup, ReplicaAgrees
  <2> QED
    BY <2>1 DEF ReplicaAgrees
<1>18. ChannelInv'
  BY <1>1, <1>2, <1>3, <1>12 DEF ServiceInv, HandlerGroup, ChannelInv
<1>19. ASSUME NEW h \in handlers PROVE HandlerOk(h)' /\ AnswerOk(h)'
  <2>1. h.srv \in Server /\ h.op.ClientId \in Client
    BY <1>4, HandlerFacts, OpFacts
  <2>2. HandlerOk(h) /\ AnswerOk(h)
    BY DEF ServiceInv, HandlerGroup, HandlerInv, AnswerInv
  <2>3. HandlerOk(h)'
    <3>1. CommittedBy(h.op, lastApplied[h.srv]) => CommittedBy(h.op, lastApplied[h.srv])'
      BY <1>1, <1>3, <1>12, <2>1
    <3>2. CommittedBy(h.op, L) => CommittedBy(h.op, Len(committed))'
      BY <1>5
    <3> QED
      BY <2>2, <3>1, <3>2 DEF HandlerOk, L
  <2>4. AnswerOk(h)'
    <3> SUFFICES ASSUME h.at = "erase", h.err # "ErrWrongLeader", h.op.Operation = "Get"
                 PROVE  \E n \in since[h.op.ClientId]..(L + 1) :
                            h.value = Store!ValueAfter(Effects, n, h.op.Key)'
      BY <1>1, <1>3, <2>2 DEF AnswerOk
    <3>1. PICK n \in since[h.op.ClientId]..L : h.value = Store!ValueAfter(Effects, n, h.op.Key)
      BY <2>2 DEF AnswerOk, L
    <3>2. since[h.op.ClientId] \in Nat
      BY <1>4, <2>1, ClerkFacts
    <3>3. n \in 0..L /\ n \in since[h.op.ClientId]..(L + 1)
      BY <1>1, <3>2
    <3>4. Store!ValueAfter(Effects, n, h.op.Key)' = Store!ValueAfter(Effects', n, h.op.Key)
      BY DEF Store!ValueAfter, Store!Max
    <3> QED
      BY <1>16, <3>1, <3>3, <3>4
  <2> QED
    BY <2>3, <2>4
<1>20. AwaitedInv'
  BY <1>2, <1>3 DEF ServiceInv, HandlerGroup, AwaitedInv
<1>21. SinceInv'
  <2>1. \A c \in Client : since[c] \in Nat /\ since[c] <= L
    BY <1>4, ClerkFacts DEF ServiceInv, HandlerGroup, SinceInv, L
  <2>2. ASSUME NEW j \in 1..(L + 1), committed'[j].RequestId = m_requestId[committed'[j].ClientId]
        PROVE  since[committed'[j].ClientId] < j
    <3>1. CASE j \in 1..L
      BY <1>1, <2>2, <3>1 DEF ServiceInv, HandlerGroup, SinceInv, L
    <3>2. CASE j = L + 1
      BY <1>1, <1>6, <2>1, <3>2
    <3> QED
      BY <1>1, <3>1, <3>2
  <2> QED
    BY <1>1, <1>3, <2>1, <2>2 DEF SinceInv
<1>22. KnownGroup'
  BY <1>8, <1>9, <1>10 DEF KnownGroup
<1>23. ApplyGroup'
  BY <1>14, <1>15, <1>17 DEF ApplyGroup
<1>24. HandlerGroup'
  BY <1>2, <1>18, <1>19, <1>20, <1>21 DEF HandlerGroup, HandlerInv, AnswerInv
<1> QED
  BY <1>4, <1>11, <1>22, <1>23, <1>24 DEF ServiceInv

-----------------------------------------------------------------------------
(* The invariant *)

\* At first there are no commands.
LEMMA InitServes == Init => ServiceInv
<1> SUFFICES ASSUME Init PROVE ServiceInv
  OBVIOUS
<1>1. Inv
  BY InitInv
<1>2. /\ committed = <<>> /\ Len(committed) = 0 /\ proposed = {} /\ handlers = {}
      /\ \A c \in Client : request[c] = None /\ m_requestId[c] = 0 /\ since[c] = 0
      /\ \A s \in Server : /\ lastApplied[s] = 0 /\ loop[s].at = "Pop" /\ waitApplyCh[s] = <<>>
                           /\ \A k \in Key : m_skipList[s][k] = None
                           /\ \A c \in Client : m_lastRequestId[s][c] = 0
  BY DEF Init, Idle
<1>3. \A s \in Server : Done(s) = 0
  BY <1>2 DEF Done
<1>4. \A op \in Op : ~Known(op) /\ ~Submitted(op)
  BY <1>2, NoneAssumption DEF Known, Submitted, CommittedBy
<1>5. KnownGroup
  BY <1>2, <1>4 DEF KnownGroup, RequestInv, GetsCurrent, KnownInv, UniqueInv, Settled, CommitOrder
<1>6. FirstInv
  BY <1>2 DEF FirstInv
<1>7. ReplicaAgrees
  BY <1>2, <1>3, NoValue DEF ReplicaAgrees
<1>8. LastInv /\ PutsInv /\ ExecutedOnce
  BY <1>2, <1>3 DEF LastInv, PutsInv, ExecutedOnce
<1>9. ChannelInv
  BY <1>2 DEF ChannelInv
<1>10. HandlerInv /\ AnswerInv /\ AwaitedInv
  BY <1>2 DEF HandlerInv, AnswerInv, AwaitedInv
<1>11. SinceInv
  BY <1>2 DEF SinceInv
<1> QED
  BY <1>1, <1>5, <1>6, <1>7, <1>8, <1>9, <1>10, <1>11 DEF ServiceInv, ApplyGroup, HandlerGroup

\* Nothing happens.
LEMMA StutterServes == ServiceInv /\ UNCHANGED vars => ServiceInv'
<1> SUFFICES ASSUME ServiceInv, UNCHANGED vars PROVE ServiceInv'
  OBVIOUS
<1>1. UNCHANGED <<m_requestId, request, waiting, since, dbVars, waitApplyCh, handlers, raftVars, applyVars>>
  BY DEF vars, clerkVars
<1>2. Inv'
  BY NextInv DEF ServiceInv
<1>3. AwaitedInv'
  BY <1>1 DEF ServiceInv, HandlerGroup, AwaitedInv
<1>4. ChannelInv'
  BY <1>1, SameChannels DEF raftVars, applyVars
<1> QED
  BY <1>1, <1>2, <1>3, <1>4, OnlyWaiters

\* Every step keeps the invariant.
LEMMA NextServes ==
    ASSUME ~LateGets
    PROVE  ServiceInv /\ [Next]_vars => ServiceInv'
<1> SUFFICES ASSUME ServiceInv, [Next]_vars PROVE ServiceInv'
  OBVIOUS
<1>1. ASSUME NEW c \in Client,
             Invoke(c) \/ CallFails(c) \/ HandleWrongLeader(c) \/ HandleStart(c)
      PROVE  ServiceInv'
  BY <1>1, InvokeServes, CallFailsServes, HandleWrongLeaderServes, HandleStartServes
<1>2. ASSUME NEW h \in handlers, Handle(h) PROVE ServiceInv'
  BY <1>2, CreateWaitChServes, PopWaitChServes, TimeoutWaitChServes, ExecuteGetServes,
     EraseWaitChServes
  DEF Handle
<1>3. ASSUME NEW s \in Server, ApplyStep(s) \/ Restart(s) PROVE ServiceInv'
  BY <1>3, GetCommandServes, ExecutePutServes, SendServes, RestartServes DEF ApplyStep
<1>4. CASE Commit
  BY <1>4, CommitServes
<1>5. CASE UNCHANGED vars
  BY <1>5, StutterServes
<1> QED
  BY <1>1, <1>2, <1>3, <1>4, <1>5 DEF Next

\* The invariant holds in every state.
THEOREM ServiceInvariant ==
    ASSUME ~LateGets
    PROVE  Spec => []ServiceInv
<1>1. ServiceInv /\ [Next]_vars => ServiceInv'
  BY NextServes
<1> QED
  BY <1>1, InitServes, PTL DEF Spec

\* No server executes a command twice, although Clerks send it again after
\* every lost call and wrong leader, and Raft may commit it several times
\* (GetCommandFromRaft, ifRequestDuplicate).
THEOREM ExecutedOnceInvariant ==
    ASSUME ~LateGets
    PROVE  Spec => []ExecutedOnce
<1>1. ServiceInv => ExecutedOnce
  BY DEF ServiceInv, ApplyGroup
<1> QED
  BY <1>1, ServiceInvariant, PTL

\* Every server's dictionary is what the commands it took from Raft make of it:
\* two servers that took the same commands hold the same data, restarts included.
THEOREM ReplicaAgreesInvariant ==
    ASSUME ~LateGets
    PROVE  Spec => []ReplicaAgrees
<1>1. ServiceInv => ReplicaAgrees
  BY DEF ServiceInv, ApplyGroup
<1> QED
  BY <1>1, ServiceInvariant, PTL

-----------------------------------------------------------------------------
(* The service implements the store *)

\* A request is made.
LEMMA InvokeRefines ==
    ASSUME ServiceInv, NEW c \in Client, Invoke(c)
    PROVE  Store!Invoke(c)
<1>1. /\ request[c] = None
      /\ since' = [since EXCEPT ![c] = Len(committed)]
      /\ returned' = [returned EXCEPT ![c] = None]
      /\ m_requestId' = [m_requestId EXCEPT ![c] = @ + 1]
      /\ UNCHANGED committed
  BY DEF Invoke, raftVars
<1>2. PICK o \in {"Get", "Put"}, k \in Key :
          request' = [request EXCEPT ![c] =
              [Operation |-> o, Key |-> k, ClientId |-> c, RequestId |-> m_requestId[c] + 1]]
  BY DEF Invoke
<1>3. Inv' /\ Inv
  BY InvokeKeeps DEF ServiceInv
<1>4. m_requestId[c] + 1 \in RequestId
  <2>1. m_requestId'[c] \in RequestId \cup {0} /\ m_requestId'[c] = m_requestId[c] + 1
    BY <1>1, <1>3 DEF Inv, TypeOK, ClerkTypes
  <2> QED
    BY <1>3, <2>1, ClerkFacts
<1>5. Len(Effects) = Len(committed) /\ Effects' = Effects
  <2>1. Effects' = Effects
    BY <1>1 DEF Effects, InEffect
  <2>2. Len(committed) \in Nat
    BY <1>3, CommittedFacts
  <2> QED
    BY <2>1, <2>2 DEF Effects
<1> QED
  BY <1>1, <1>2, <1>4, <1>5 DEF Store!Invoke

\* A command is committed: a Put the first time, or nothing new.
LEMMA CommitRefines ==
    ASSUME ServiceInv, Commit
    PROVE  Store!Next
<1> DEFINE L == Len(committed)
<1>1. PICK new \in Op :
          /\ committed' = Append(committed, new) /\ Submitted(new)
          /\ L \in Nat /\ Len(committed)' = L + 1
          /\ committed'[L + 1] = new
          /\ \A j \in 1..L : committed'[j] = committed[j]
          /\ \A op : Submitted(op)' => Submitted(op)
          /\ \A n \in 0..L : \A op : CommittedBy(op, n)' <=> CommittedBy(op, n)
          /\ \A j \in 1..L : (InEffect(j)' <=> InEffect(j)) /\ Effects'[j] = Effects[j]
  BY CommitFacts
<1>2. UNCHANGED <<request, since, returned>>
  BY DEF Commit, clerkVars
<1>3. PICK m \in Nat : m = L + 1
  BY <1>1
<1> DEFINE effect == IF InEffect(m)' THEN new ELSE None
           c == new.ClientId
<1>4. Inv
  BY DEF ServiceInv
<1>5. c \in Client /\ new.RequestId \in Nat /\ Known(new) /\ new # None
  BY <1>1, OpFacts DEF Known
<1>6. Effects' = Append(Effects, effect)
  <2>1. Effects \in Seq(Op \cup {None}) /\ Len(Effects) = L
    <3>1. \A i \in 1..L : committed[i] \in Op
      BY <1>4, CommittedFacts
    <3>2. \A i \in 1..L : (IF InEffect(i) THEN committed[i] ELSE None) \in Op \cup {None}
      BY <3>1
    <3> QED
      BY <1>1, <3>2 DEF Effects
  <2>2. Effects' = [i \in 1..m |-> Effects'[i]]
    BY <1>1, <1>3 DEF Effects
  <2>3. Effects'[m] = effect
    <3>1. m \in 1..Len(committed)' /\ committed'[m] = new
      BY <1>1, <1>3
    <3> QED
      BY <3>1 DEF Effects
  <2>4. effect \in Op \cup {None}
    OBVIOUS
  <2> HIDE DEF effect, L
  <2>5. Append(Effects, effect) = [i \in 1..m |-> IF i = m THEN effect ELSE Effects[i]]
    <3>1. /\ Append(Effects, effect) \in Seq(Op \cup {None}) /\ Len(Append(Effects, effect)) = m
          /\ \A i \in 1..L : Append(Effects, effect)[i] = Effects[i]
          /\ Append(Effects, effect)[m] = effect
      BY <1>1, <1>3, <2>1, <2>4, AppendProperties
    <3>2. Append(Effects, effect) = [i \in 1..m |-> Append(Effects, effect)[i]]
      BY <3>1, LenProperties
    <3>3. \A i \in 1..m : Append(Effects, effect)[i] = IF i = m THEN effect ELSE Effects[i]
      BY <1>1, <1>3, <3>1
    <3> QED
      BY <3>2, <3>3
  <2>6. \A i \in 1..m : Effects'[i] = IF i = m THEN effect ELSE Effects[i]
    BY <1>1, <1>3, <2>3
  <2> QED
    BY <2>2, <2>5, <2>6
<1>7. CASE ~InEffect(m)'
  BY <1>2, <1>6, <1>7 DEF Store!Next, Store!Pass
<1>8. CASE InEffect(m)'
  <2>1. new.Operation = "Put" /\ \A i \in 1..L : committed[i] # new
    <3>1. committed'[m] = new /\ \A i \in 1..L : i \in 1..m-1
      BY <1>1, <1>3
    <3>2. \A i \in 1..L : ~SameRequest(committed[i], new)
      BY <1>1, <1>8, <3>1 DEF InEffect
    <3> QED
      BY <1>8, <3>1, <3>2 DEF InEffect, SameRequest
  <2>2. request[c] # None /\ ~(new.RequestId < m_requestId[c])
    <3>1. ~CommittedBy(new, L)
      BY <2>1 DEF CommittedBy
    <3> QED
      BY <1>1, <2>1, <3>1 DEF ServiceInv, KnownGroup, Settled
  <2>3. new.RequestId <= m_requestId[c] /\ m_requestId[c] \in Nat
    BY <1>4, <1>5, ClerkFacts DEF ServiceInv, KnownGroup, KnownInv
  <2>4. /\ request[c] \in Op /\ Known(request[c])
        /\ request[c].ClientId = c /\ request[c].RequestId = m_requestId[c]
    BY <1>4, <1>5, <2>2, ClerkFacts DEF ServiceInv, KnownGroup, RequestInv, Known
  <2>5. request[c] = new
    BY <1>5, <2>2, <2>3, <2>4, OneCommand
  <2>6. Len(Effects) = L /\ \A i \in 1..L : Effects[i] # new
    BY <1>1, <1>5, <2>1 DEF Effects
  <2>7. Store!TakeEffect(c)
    BY <1>2, <1>6, <1>8, <2>1, <2>2, <2>5, <2>6 DEF Store!TakeEffect
  <2> QED
    BY <1>5, <2>7 DEF Store!Next
<1> QED
  BY <1>7, <1>8

\* A request returns.
LEMMA ReturnRefines ==
    ASSUME ServiceInv, NEW h \in handlers, EraseWaitCh(h), h.awaited, h.err # "ErrWrongLeader"
    PROVE  Store!Next
<1> DEFINE c == h.op.ClientId
<1>1. /\ h.at = "erase" /\ UNCHANGED committed
      /\ request' = [request EXCEPT ![c] = None]
      /\ since' = [since EXCEPT ![c] = 0]
      /\ returned' = [returned EXCEPT ![c] = h.value]
  BY DEF EraseWaitCh, Reply, raftVars
<1>2. Inv
  BY DEF ServiceInv
<1>3. h.op \in Op /\ c \in Client /\ h.op # None /\ h.op.Operation \in {"Get", "Put"}
  BY <1>2, HandlerFacts, OpFacts
<1>4. request[c] = h.op
  BY DEF ServiceInv, HandlerGroup, AwaitedInv
<1>5. Effects' = Effects
  BY <1>1 DEF Effects, InEffect
<1>6. Len(Effects) = Len(committed) /\ Len(committed) \in Nat
  <2>1. Len(committed) \in Nat
    BY <1>2, CommittedFacts
  <2> QED
    BY <2>1 DEF Effects
<1>7. HandlerOk(h) /\ AnswerOk(h)
  BY DEF ServiceInv, HandlerGroup, HandlerInv, AnswerInv
<1>8. CASE h.op.Operation = "Put"
  <2>1. h.value = None /\ CommittedBy(h.op, Len(committed))
    BY <1>1, <1>7, <1>8 DEF HandlerOk, AnswerOk
  <2>2. PICK j \in 1..Len(committed) : committed[j] = h.op
    BY <2>1 DEF CommittedBy
  <2>3. PICK i \in 1..j : InEffect(i) /\ committed[i] = h.op
    BY <1>8, <2>2 DEF ServiceInv, FirstInv
  <2>4. i \in 1..Len(committed)
    BY <1>6
  <2>5. Effects[i] = h.op
    BY <2>3, <2>4 DEF Effects
  <2>6. Store!ReturnPut(c)
    BY <1>1, <1>3, <1>4, <1>5, <1>6, <1>8, <2>1, <2>4, <2>5 DEF Store!ReturnPut, Store!Return
  <2> QED
    BY <1>3, <2>6 DEF Store!Next
<1>9. CASE h.op.Operation = "Get"
  <2>1. PICK n \in since[c]..Len(committed) : h.value = Store!ValueAfter(Effects, n, h.op.Key)
    BY <1>1, <1>7, <1>9 DEF AnswerOk
  <2>2. Store!Return(c, Store!ValueAfter(Effects, n, request[c].Key))
    BY <1>1, <1>4, <1>5, <2>1 DEF Store!Return
  <2>3. Store!ReturnGet(c)
    BY <1>3, <1>4, <1>6, <1>9, <2>2 DEF Store!ReturnGet
  <2> QED
    BY <1>3, <2>3 DEF Store!Next
<1> QED
  BY <1>3, <1>8, <1>9

\* Every other step is invisible to the clients.
LEMMA NextRefines ==
    ASSUME ServiceInv, [Next]_vars
    PROVE  [Store!Next]_Store!storeVars
<1> DEFINE Same == UNCHANGED <<committed, request, since, returned>>
<1>1. ASSUME Same PROVE UNCHANGED Store!storeVars
  <2>1. Effects' = Effects
    BY <1>1 DEF Effects, InEffect
  <2> QED
    BY <1>1, <2>1 DEF Store!storeVars
<1>2. ASSUME NEW c \in Client, Invoke(c) PROVE Store!Next
  BY <1>2, InvokeRefines DEF Store!Next
<1>3. ASSUME NEW c \in Client, CallFails(c) \/ HandleWrongLeader(c) \/ HandleStart(c) PROVE Same
  BY <1>3 DEF CallFails, HandleWrongLeader, HandleStart, Reply, Start, raftVars
<1>4. ASSUME NEW h \in handlers, Handle(h) PROVE Same \/ Store!Next
  <2>1. CASE CreateWaitCh(h) \/ PopWaitCh(h) \/ TimeoutWaitCh(h) \/ ExecuteGetOpOnKVDB(h)
    BY <2>1 DEF CreateWaitCh, PopWaitCh, TimeoutWaitCh, ExecuteGetOpOnKVDB, raftVars, clerkVars
  <2>2. CASE EraseWaitCh(h) /\ h.awaited /\ h.err # "ErrWrongLeader"
    BY <2>2, ReturnRefines
  <2>3. CASE EraseWaitCh(h) /\ ~(h.awaited /\ h.err # "ErrWrongLeader")
    BY <2>3 DEF EraseWaitCh, Reply, raftVars, clerkVars
  <2> QED
    BY <1>4, <2>1, <2>2, <2>3 DEF Handle
<1>5. ASSUME NEW s \in Server, ApplyStep(s) \/ Restart(s) PROVE Same
  BY <1>5 DEF ApplyStep, GetCommandFromRaft, ExecutePutOpOnKVDB, SendMessageToWaitChan, Restart,
              raftVars, clerkVars
<1>6. CASE Commit
  BY <1>6, CommitRefines
<1>7. CASE UNCHANGED vars
  BY <1>1, <1>7 DEF vars, clerkVars, raftVars
<1> HIDE DEF Same
<1> QED
  BY <1>1, <1>2, <1>3, <1>4, <1>5, <1>6, <1>7 DEF Next

\* The service implements KvStore: every Put takes effect exactly once between
\* its call and its return, every Get returns a value of that time, whatever is
\* lost, retried, timed out or restarted (Clerk::Get, Clerk::Put over KvServer).
THEOREM ServiceImplementsStore ==
    ASSUME ~LateGets
    PROVE  Spec => ImplementsStore
<1>1. Init => Store!Init
  <2> SUFFICES ASSUME Init PROVE Store!Init
    OBVIOUS
  <2>1. Effects = <<>>
    BY DEF Init, Effects
  <2> QED
    BY <2>1 DEF Init, Store!Init
<1>2. ServiceInv /\ [Next]_vars => [Store!Next]_Store!storeVars
  BY NextRefines
<1> QED
  BY <1>1, <1>2, ServiceInvariant, PTL DEF Spec, ImplementsStore, Store!Spec
=============================================================================

-------------------------------- MODULE KvStore --------------------------------
(* What the key-value service promises its clients: it behaves like one        *)
(* dictionary on which every Put takes effect exactly once, between its call   *)
(* and its return, and every Get returns the value some moment between its     *)
(* call and its return.                                                        *)
EXTENDS Naturals, Sequences, FiniteSetsExt

CONSTANTS
    Client,     \* the clerks
    Key,        \* the keys they use
    RequestId,  \* the ids of their requests
    None        \* no request, or no value

VARIABLES
    history,    \* moment by moment, the Put that took effect, or None
    request,    \* [Client -> the request under way, or None]
    since,      \* [Client -> the moment it was made]
    returned    \* [Client -> what the last request returned, until the next one]

storeVars == <<history, request, since, returned>>

\* The value of a key after n moments.  The value a Put writes is the Put itself:
\* two Puts never write the same value.
ValueAfter(puts, n, k) ==
    LET writes == {i \in 1..n : puts[i] # None /\ puts[i].Key = k}
    IN  IF writes = {} THEN None ELSE puts[Max(writes)]

Init ==
    /\ history = <<>>
    /\ request = [c \in Client |-> None]
    /\ since = [c \in Client |-> 0]
    /\ returned = [c \in Client |-> None]

Invoke(c) ==
    /\ request[c] = None
    /\ \E op \in {"Get", "Put"}, k \in Key, id \in RequestId :
           request' = [request EXCEPT ![c] = [Operation |-> op, Key |-> k, ClientId |-> c,
                                              RequestId |-> id]]
    /\ since' = [since EXCEPT ![c] = Len(history)]
    /\ returned' = [returned EXCEPT ![c] = None]
    /\ UNCHANGED history

TakeEffect(c) ==
    /\ request[c] # None /\ request[c].Operation = "Put"
    /\ \A i \in 1..Len(history) : history[i] # request[c]
    /\ history' = Append(history, request[c])
    /\ UNCHANGED <<request, since, returned>>

\* A moment in which nothing takes effect.
Pass ==
    /\ history' = Append(history, None)
    /\ UNCHANGED <<request, since, returned>>

Return(c, value) ==
    /\ request' = [request EXCEPT ![c] = None]
    /\ since' = [since EXCEPT ![c] = 0]
    /\ returned' = [returned EXCEPT ![c] = value]
    /\ UNCHANGED history

ReturnPut(c) ==
    /\ request[c] # None /\ request[c].Operation = "Put"
    /\ \E i \in 1..Len(history) : history[i] = request[c]
    /\ Return(c, None)

ReturnGet(c) ==
    /\ request[c] # None /\ request[c].Operation = "Get"
    /\ \E n \in since[c]..Len(history) : Return(c, ValueAfter(history, n, request[c].Key))

Next ==
    \/ \E c \in Client : Invoke(c) \/ TakeEffect(c) \/ ReturnPut(c) \/ ReturnGet(c)
    \/ Pass

Spec == Init /\ [][Next]_storeVars
=============================================================================

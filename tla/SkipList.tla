------------------------------- MODULE SkipList -------------------------------
(* The dictionary of a KvServer: the skip list of skipList/include/skipList.h. *)
(* A node is named by its key, a list is a record of its nodes' forward        *)
(* arrays and values, and of the level and count kept beside them.  KvServer   *)
(* calls every operation under m_mtx, so each one is a step.                   *)
EXTENDS Integers, Sequences, FiniteSets, FiniteSetsExt

CONSTANTS
    Key,        \* keys, numbers in their order
    Value,      \* values; a key may become a value too (load_file)
    MaxLevel,   \* _max_level, 6 in KvServer
    MaxCount,   \* bound: operations in one behaviour
    Header,     \* the header node
    NULL        \* no node, no value

VARIABLES
    list,       \* the skip list
    dict,       \* history: [Key -> value or NULL], what a map would hold that
                \* takes the dumped values when a dump is loaded
    loaded,     \* history: the keys that load_file has inserted
    dump,       \* keyDumpVt_ and valDumpVt_ of the last dump_file
    count       \* operations so far

vars == <<list, dict, loaded, dump, count>>

Node(l) == DOMAIN l.forward
Keys(l) == Node(l) \ {Header}

\* SkipList::SkipList: a header with every level.
EmptyList == [forward |-> [n \in {Header} |-> [i \in 0..MaxLevel |-> NULL]],
              value |-> [n \in {} |-> NULL], level |-> 0, count |-> 0]

\* get_random_level starts at 1 and is capped.
RandomLevel == 1..MaxLevel

\* The nodes that have a pointer on level i.
Reach(l, i) == {n \in Node(l) : i \in DOMAIN l.forward[n]}

\* From node n along level i, while the next key is smaller.
Walk(l, n, i, k) ==
    LET go[m \in Reach(l, i)] ==
            LET next == l.forward[m][i]
            IN  IF next # NULL /\ next < k THEN go[next] ELSE m
    IN  go[n]

\* The array update of insert_element and delete_element: where the search
\* leaves each level, from the highest down.
Update(l, k) ==
    LET at[i \in 0..l.level] == Walk(l, IF i = l.level THEN Header ELSE at[i + 1], i, k)
    IN  at

\* The node behind the search on level 0.
Found(l, k) == l.forward[Update(l, k)[0]][0]

search_element(l, k) == IF Found(l, k) = k THEN l.value[k] ELSE NULL

insert_element(l, k, v, r) ==
    LET update == Update(l, k)
        before(i) == IF i > l.level THEN Header ELSE update[i]
    IN  IF Found(l, k) = k THEN l
        ELSE [forward |-> [n \in Node(l) \cup {k} |->
                              IF n = k THEN [i \in 0..r |-> l.forward[before(i)][i]]
                              ELSE [i \in DOMAIN l.forward[n] |->
                                       IF i <= r /\ n = before(i) THEN k ELSE l.forward[n][i]]],
              value |-> [n \in Keys(l) \cup {k} |-> IF n = k THEN v ELSE l.value[n]],
              level |-> Max({l.level, r}),
              count |-> l.count + 1]

\* Levels that have become empty are given up.
TopLevel(l) == Max({0} \cup {i \in 0..l.level : l.forward[Header][i] # NULL})

\* The levels on which the node is unlinked: up to the first one where the
\* search did not stop right before it.
Unlinked_NotTop(l, k) ==                \* mutant: i < _skip_list_level
    LET update == Update(l, k)
    IN  {i \in 0..l.level - 1 : \A j \in 0..i : l.forward[update[j]][j] = k}

Unlinked(l, k) ==
    LET update == Update(l, k)
    IN  {i \in 0..l.level : \A j \in 0..i : l.forward[update[j]][j] = k}

delete_element(l, k) ==
    LET update == Update(l, k)
        unlinked == Unlinked(l, k)
        cut == [l EXCEPT !.forward =
                   [n \in Node(l) |-> [i \in DOMAIN l.forward[n] |->
                       IF i \in unlinked /\ n = update[i] THEN l.forward[k][i]
                                                                ELSE l.forward[n][i]]]]
    IN  IF Found(l, k) # k THEN l
        ELSE [forward |-> [n \in Node(l) \ {k} |-> cut.forward[n]],
              value |-> [n \in Keys(l) \ {k} |-> l.value[n]],
              level |-> TopLevel(cut),
              count |-> l.count - 1]

\* A key that exists is deleted and inserted again, under a new random level.
insert_set_element(l, k, v, r) ==
    insert_element(IF search_element(l, k) # NULL THEN delete_element(l, k) ELSE l, k, v, r)

\* Keys and values along level 0.
dump_file(l) ==
    LET from[n \in Keys(l) \cup {NULL}] ==
            IF n = NULL THEN <<>> ELSE <<<<n, l.value[n]>>>> \o from[l.forward[n][0]]
    IN  from[l.forward[Header][0]]

\* The keys of the dump are inserted, each with the key as its value
\* (keyDumpVt_ twice); a key the list has keeps its value.
load_file(l, d, levels) ==
    LET after[i \in 0..Len(d)] ==
            IF i = 0 THEN l ELSE insert_element(after[i - 1], d[i][1], d[i][1], levels[i])
    IN  after[Len(d)]

-----------------------------------------------------------------------------

Init ==
    /\ list = EmptyList /\ dump = <<>> /\ count = 0
    /\ dict = [k \in Key |-> NULL] /\ loaded = {}

Counted == count < MaxCount /\ count' = count + 1

\* KvServer's Put and Append.
Set(k, v) ==
    /\ Counted
    /\ \E r \in RandomLevel : list' = insert_set_element(list, k, v, r)
    /\ dict' = [dict EXCEPT ![k] = v] /\ loaded' = loaded \ {k}
    /\ UNCHANGED dump

Insert(k, v) ==
    /\ Counted
    /\ \E r \in RandomLevel : list' = insert_element(list, k, v, r)
    /\ dict' = [dict EXCEPT ![k] = IF @ = NULL THEN v ELSE @]
    /\ UNCHANGED <<loaded, dump>>

Delete(k) ==
    /\ Counted
    /\ list' = delete_element(list, k)
    /\ dict' = [dict EXCEPT ![k] = NULL] /\ loaded' = loaded \ {k}
    /\ UNCHANGED dump

\* MakeSnapShot.
Dump == Counted /\ dump' = dump_file(list) /\ UNCHANGED <<list, dict, loaded>>

\* ReadSnapShotToInstall: into the list as it is, or, on a server that has
\* just started, into an empty one.
Load(fresh) ==
    LET l == IF fresh THEN EmptyList ELSE list
        had == IF fresh THEN [k \in Key |-> NULL] ELSE dict
        new == {i \in 1..Len(dump) : had[dump[i][1]] = NULL}
    IN  /\ Counted /\ dump # <<>>
        /\ \E levels \in [1..Len(dump) -> RandomLevel] : list' = load_file(l, dump, levels)
        /\ dict' = [k \in Key |-> IF \E i \in new : dump[i][1] = k
                                  THEN dump[CHOOSE i \in new : dump[i][1] = k][2]
                                  ELSE had[k]]
        /\ loaded' = (IF fresh THEN {} ELSE loaded) \cup {dump[i][1] : i \in new}
        /\ UNCHANGED dump

Next ==
    \/ \E k \in Key, v \in Value : Set(k, v) \/ Insert(k, v)
    \/ \E k \in Key : Delete(k)
    \/ Dump
    \/ \E fresh \in BOOLEAN : Load(fresh)

Spec == Init /\ [][Next]_vars

-----------------------------------------------------------------------------

\* The fields have their types (class Node, class SkipList).
TypeOK ==
    /\ Header \in Node(list) /\ Keys(list) \subseteq Key
    /\ \A n \in Node(list) : \E r \in 0..MaxLevel : list.forward[n] \in [0..r -> Keys(list) \cup {NULL}]
    /\ list.value \in [Keys(list) -> Value \cup Key]
    /\ list.level \in 0..MaxLevel /\ list.count \in Nat
    /\ dict \in [Key -> Value \cup Key \cup {NULL}] /\ loaded \subseteq Key
    /\ dump \in Seq(Key \X (Value \cup Key))
    /\ count \in 0..MaxCount

\* On every level a node points to the next larger key that reaches this
\* level, no pointer leads to a deleted node, no level in use is empty, and a
\* search finds exactly the keys that are in, each with the value last given to
\* it, whatever was inserted, replaced, deleted and loaded under whatever random
\* levels (insert_element, delete_element, search_element, size).  Of a key that
\* load_file inserted it says that it is found, not with which value: that is
\* RestoredValues.
ListAgrees ==
    /\ \A n \in Node(list) : \A i \in DOMAIN list.forward[n] :
           LET behind == {k \in Keys(list) : i \in DOMAIN list.forward[k] /\ (n # Header => k > n)}
           IN  list.forward[n][i] = IF behind = {} THEN NULL ELSE Min(behind)
    /\ list.level = TopLevel(list)
    /\ list.count = Cardinality(Keys(list))
    /\ \A k \in Key :
           IF k \in loaded THEN search_element(list, k) # NULL /\ dict[k] # NULL
                           ELSE search_element(list, k) = dict[k]

\* Data agree before a dump and after loading it (note/raft.md:44): a key that
\* load_file inserted is found with the value dump_file wrote for it.
RestoredValues == \A k \in loaded : search_element(list, k) = dict[k]
=============================================================================

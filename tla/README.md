# rsylar: TLA+ models, model checking and proofs

rsylar is a C++ server framework (fibers, an epoll scheduler, hooks, sockets,
HTTP), an RPC layer on top of it, and a replicated key-value store built with
Raft on top of that. This directory models the parts whose correctness depends
on the order of events or on many cases at once, checks them with TLC on small
instances, and proves their main invariants and a refinement with TLAPS for every instance.

## Inventory

| Part | State | Operations | What makes it correct |
|---|---|---|---|
| `raft/raftCore/raft.cpp` Raft peer | term, vote, role, log, snapshot index, commit and applied index, nextIndex/matchIndex, counters shared by the fibers of a round | handlers `RequestVote`, `AppendEntries`, `InstallSnapshot`; tickers; caller fibers `sendRequestVote`, `sendAppendEntries`, `leaderSendSnapShot`; `Start`, `Snapshot` | one winner per term, logs agree, committed entries stay, votes and log on disk before anyone sees them, no assertion ends the process, entries get applied |
| `Persister.cpp` | two files and their size | `Save`, `SaveRaftState`, `ReadSnapshot`, `ReadRaftState`, constructor | a restart finds what was saved |
| `raftRpcUtil.cpp` | one mutex per peer | one blocking call per RPC, `try_lock` or `yield` | a call is made once, or reported as failed |
| `kvServer.cpp` | skip list, last request id per client, wait channel per raft index | RPCs `Get`, `PutAppend`; apply loop; snapshots | every request executed once, answered after it was applied |
| `raftClerk` | leader guess, request id | retry until OK | at most once per request id |
| `util.h` LockQueue | queue, condition variable | `Push`, `Pop`, `timeOutPop` | no lost wake-up |
| `skipList.h` | levels of sorted nodes | insert, set, search, delete, dump, load | is a sorted map at every level |
| `rpc/` | connection per channel | framing, dispatch | one answer per request |
| `sylar/fiber.cc`, `scheduler.cc` | fiber states, task queue, counters of active and idle threads | `schedule`, `run`, `stop`, `switchTo` | a fiber runs on one thread at a time, every task runs, stop ends |
| `sylar/timer.cc` | ordered set of timers, `m_tickled` | add, cancel, refresh, reset, expire | a timer fires once per period, an idle thread never sleeps past the first timer |
| `sylar/iomanager.cc` | event contexts per descriptor, pending count, epoll set | add, delete, cancel, idle loop | a waiting fiber is woken exactly once |
| `sylar/hook.cc`, `fd_manager.cc` | descriptor table, timeouts | hooked system calls | a blocking call parks the fiber and returns |
| `sylar/bytearray.cc`, `streams/socket_stream.cc` | list of blocks, position, size, current block | typed reads and writes, buffers for `readv`/`writev`, files | what is written is read back, whatever the block boundaries |
| `sylar/uri.rl` | one automaton, one mark | `Uri::Create` | the parts are the parts of the text |
| `sylar/http/parser11`, `http_parser.cc` | two automata, marks into the current piece | `execute` per read, callbacks | the parts are the parts of the head, however it is split; the body is framed as the head says |
| `sylar/http` | messages, servlets, connection pool | `recvRequest`, `recvResponse`, dispatch | one answer per request |
| `socket`, `tcp_server`, `config`, `log`, ... | descriptors, text | wrappers, formatting | sequential; formats |

How they interact: a client's `Clerk` calls `KvServer::PutAppend`, which calls
`Raft::Start` and blocks on the wait channel of the index. Raft's tickers and
caller fibers run on an `IOManager`; each RPC is a scheduled fiber that blocks in
a hooked socket call. Committed entries go through `applyChan` to the apply loop
of `KvServer`, which answers the wait channel and, when the raft state file is
large, calls `Raft::Snapshot`. The hard behaviours are the interleavings of
those fibers and threads, calls that fail, are late or overtake one another,
elections and role changes between sending a call and reading its answer,
restarts, and timeouts that race with the event they time.

The hazards found while reading are listed, each at its line, in
`PROJECT.json` under `hazards`, with the properties aimed at them.

## Modules

* `Raft.tla` - the Raft peer and the files it persists to.
* `MCRaft.tla` - bounds, views and symmetry for TLC, and a claim of the code that
  TLC refutes. `MCRaftScript.tla` - a guided search for one long counterexample.
* `RaftProofs.tla` - type correctness, contiguous logs, elections, what is on disk, agreement of logs.
  `RaftCommitProofs.tla` - assertions and commitment, without snapshots.
* `KvStore.tla` - what the key-value service promises. `KvServer.tla` - `Clerk` and `KvServer` on top of
  Raft's promise, and the refinement of `KvStore`. `MCKvServer.tla` - bounds. `KvServerProofs.tla` - types,
  wait channels, commands executed once, and the refinement.
* `IOManager.tla` - fibers that block in hooked calls: `do_io`, event contexts, the idle
  loops and the run loops of several threads. `MCIOManager.tla` - symmetry for TLC.
  `IOManagerProofs.tla` - every fiber is in one place.
* `Scheduler.tla` - tasks, idle threads, timers, wake-ups and stop. `MCScheduler.tla` - the
  thread pools. `SchedulerProofs.tla` - timers, counters, stop and wake-ups.
* `Uri.tla`, `HttpRequestParser.tla`, `HttpResponseParser.tla` - the three Ragel automata with their
  actions; `MCParsers.tla` - one of them reads one text. `ParserProofs.tla` (`Uri` and requests),
  `ResponseProofs.tla` - what each returns, for every text and every way it is cut into pieces.
* `ByteArray.tla`, `SkipList.tla` - data structures; `MCStructures.tla` - one of them in a
  behaviour. `StructureProofs.tla` - the skip list is a map, the blocks of a ByteArray are its bytes.

### Raft

Every handler holds `m_mtx` from beginning to end, so a handler is one action; a
handler with several outcomes is a disjunction of actions, one per outcome, with
the guards of its early returns (`AppendEntries` is `AppendEntriesStale`, `TooNew`,
`BelowSnapshot`, `Match` or `Mismatch`). A caller fiber releases the lock during
the call, so it is two actions: the one that sends (the ticker that schedules the
fiber; `leaderSendSnapShot` for snapshots, which takes the lock anew) and the one
that handles the answer. Requests and answers are records in sets
(`rvArgs`, `rvReply`, ...): delivery in any order, `CallFails` removes one, which
is what the caller sees as `ok == false` or, for a fiber that loses `try_lock`
and is never resumed, as nothing at all. The caller's own arguments, which it reads
again after the call, travel in the answer record (`election`, `upto`,
`lastterm`, `argsterm`).

State and code: variables have the names of the members. `votedNum[s][t]` is the
set of voters behind the shared counter `*votedNum` of the election of term t
(the code only looks at the number); `appendNums[s][r]` is the counter of
heartbeat round r; `snapTask` the scheduled `leaderSendSnapShot` fibers;
`raftState` and `snapshotFile` what the Persister wrote; `exited` a process that
a failing `myAssert` ended. `ballots`, `elected` and `proposed` are history
variables: no action reads them.

Abstractions: timers may fire at any time (the random timeouts and the times of
the last reset are left out); a snapshot's content is whole, its first word, or
empty, which is what `ifs >> snapshot` and a truncating `open` tell apart; the push
into `applyChan` is left to the key-value server; identical `InstallSnapshot`
requests of one sender count as one message. `Snapshot` is called with an index
the state machine has applied, as `KvServer` does.

`Restart` (only in `SpecRestart`) ends a process and starts it again: the
Persister's constructor truncates both files before `readPersist` looks at them,
so the new process starts empty.

### IOManager

Threads and fibers are two kinds of processes: `doing[t]` says where thread t is in
`Scheduler::run` or `IOManager::idle`, `pc[f]` where fiber f is in `do_io`. A fiber's step
is taken by the thread that runs it (`Runs`). A step is what happens under one lock
or between two accesses to shared state: `addEvent`, `cancelEvent`, `cancelAll` and the
handling of one result of `epoll_wait` are one step each, under the FdContext's lock; taking
a task, resuming the fiber and writing `HOLD` after it yielded are three, since
another thread may queue the fiber in between. The timeout callback is a task of its
own: it marks `timer_info`, then cancels the event, whoever waits for it by then.

`events` and `context` are the FdContext, `m_fibers` the task queue, `timer[f]` the timer of
f's call. The kernel is modelled from how the code uses it (external in the map):
`ready` is what a system call would not block on, `registered` the epoll set, with
mask `events`, and `listed` its ready list. Edge-triggered epoll puts a descriptor
on the list when something arrives or when `epoll_ctl` finds it ready, and
`epoll_wait` takes it off; a closed descriptor leaves the set, and its number may
come back (`Opens`) while an old fiber is still in its context.

Abstractions: time is left out, so a timer may expire as soon as it is added; tasks are
callbacks (nothing in the repository schedules a fiber that it built itself), so
`Fiber::yield` leaves the state at `EXEC`; a timeout callback that is still queued when its
`do_io` returns finds `timer_info` gone: it stays in the queue (`ExpiredTask`), and the thread that
takes it does nothing; `FdMgr::del` happens with the
system call `close`. A failing assertion ends the process (`aborted`).

### KvStore and KvServer

`KvStore` is the promise: a sequence of moments (`history`), in each of which at most one Put takes effect,
and the pending requests. A Put takes effect once, between its call and its answer; a
Get returns the value its key had at some moment between call and answer. `KvServer` is the code: a `Clerk` sends its request to one
server after another until one answers OK (`TryNext`, `CallFails` before or after the server got it);
a handler calls `Raft::Start` (`HandleStart`), creates the wait channel of its index in a second
step (`CreateWaitCh`), waits with a timeout (`PopWaitCh`, `TimeoutWaitCh`), answers and erases the channel
(`TimeoutWaitCh` is the look at `m_lastRequestId` some time after the timeout: a command may have been pushed in between);
the apply loop takes the next committed command, executes it unless `ifRequestDuplicate`, and
pushes it to the channel of its index, if there is one (`SendMessageToWaitChan`). `Get` is executed by the
handler, as in the code, not by the loop.

Raft is its promise here (external in the map): one growing sequence of committed commands
that each server takes in order; any server may believe to lead at any time, indices of
proposals that were not committed are given out again. The value a Put writes is
named after the request, so a replica's content tells which requests were executed. The
refinement (`ImplementsStore`) makes every committed command a moment (`Effects`): a Put takes effect when it is
committed for the first time, a Get and a repeated Put let the moment pass. A Get's value must be that of a
moment since the request was made (`since`, the number of commands committed by then): what a server
has applied may lag behind, but not behind the Get's own command. A restart empties a server, which then applies the log again.
`LateGets = FALSE` keeps a client from making its next request while a Get it gave up still runs: see
`DuplicateCommand`. Put handlers that a client gave up run on in either case. Snapshots are not in this module.

### Scheduler

`at[t]` is where a thread is and `after[t]` what it goes on with, so that one action `tickle` serves
every call of `IOManager::tickle`, and the two steps of `IOManager::stopping` (`getNextTimer`, then the
look at the tasks) serve `idle` and both calls in `stop`. A step is what happens under one lock. `Main`
is the creator: it schedules and sets timers, then calls `stop`, and with `use_caller` runs tasks
from then on. A task is a thread at `exec`: it may use the same operations, yields READY
(`Yield`, and `Reschedule` in a step of its own because the fiber is counted neither as active nor as
queued in between) or ends. Tasks are named by the thread they are pinned to only.

The pipe is edge-triggered: a byte makes it reported to one waiter, and reading it empty takes
back a report nobody received yet. Time is relative: `left` of a timer, `sleep` of a waiter. It
passes while every thread sleeps or runs a task; steps under locks take no time.
Equal times are ordered by address in the set, so `AtFront` allows both. The event side of
`idle`, `m_pendingEventCount` included, is in `IOManager.tla`; a return of `epoll_wait` on EINTR is left out.

### Parsers

The text is not stored. A step reads one character of any class the automaton tells
apart and moves the automaton as the generated switch does; marks and saved fields are
ranges of positions. Beside them, `split` (in `HttpResponseParser`, `head` and `line`) is a reading of the same
text by the RFC's grammar, which no action reads. `NextRead` ends a piece anywhere: `execute` moves on
with its marks reset, and what lies before it is gone. A number is the range of digits that `atoi` or `strtol` reads it
from (`Digits`): the two know no length, so when a read ended right behind the digits they skip
blanks and line breaks and read what follows, which the model only says to be unknown. `content_length` is what `m_headers` holds under
that name; the model assumes that no header but the three has a name that ends in one of theirs.

What they show of the code: fields are cut out correctly when a message arrives in one
read. When a read ends inside a token, only the rest of it is kept; a header whose
value is split is dropped, and one whose name is split is stored under the rest of the name: `getContentLength`, which
frames the body (http_connection.cc:113), then finds nothing, although the automaton's own `content_len` has the length; a split
status code keeps the last digits; `query_start` is not reset and may lie behind the end of the query, which then
throws; a version of which nothing is left compares equal to HTTP/1.1. An
empty value of one of the three framing headers of a response lets the spaces swallow the line
break. `Uri::Create` throws on an empty port, where uri.h:29 promises nullptr; the user
name of `user:123@h` is lost, the userinfo being `123`; a path is saved only after an authority.
The grammar writes `(0 - 31)` for a range, which is the difference of two characters:
control characters but NUL are accepted in tokens; the automata follow the code.

The three automata are C++ that Ragel generates. They are 70% of the source lines the map names
(about 8,750 of 12,400); of the hand-written code the largest mapped parts are `raft.cpp`, `bytearray.cc`,
`kvServer.cpp` and `iomanager.cc`.

### ByteArray and SkipList

`ByteArray` keeps the blocks with `m_cur`, `m_position`, `m_size` and `m_capacity` as the code does, and beside them the
bytes as one sequence (`flat`) and the values written (`items`). Bytes and widths are
parameters. `writeToFile` writes a wrong length when the position is not at a block's beginning and the
rest is long, so `BuffersAgree` says of the file only what is written from a block's beginning; an empty string at the
end of the last block is read through a null pointer.

`SkipList` is the forward arrays, with every level `get_random_level` may return, against a map
(`dict`) that takes the dumped values when a dump is loaded. `load_file` inserts the key as the value (skipList.h:288)
where the key is absent; `loaded` is the set of these keys. `ListAgrees` says of them that they are
found, `RestoredValues` that they are found with the dumped value, which the run `Restore` refutes.

## Runs

All runs: `tlc -workers 2 -config <run>.cfg <module>`.

| Run | Instance | Checks |
|---|---|---|
| `Leaders` | 3 servers, terms to 2, logs to 1, snapshots to 1; 4 calls under way while there are only votes, then 2 | `TypeOK`, `ElectionSafety`, `ElectInv`, `VoteIsFinal`, `LogContiguous`, `LogInv`, `StatePersisted` |
| `Replication` | 3 servers, 2 commands, terms to 2, logs to 2, 2 calls | `EntriesAgree`, `LeaderAppendOnly`, `CommittedOnMajority`, `NoAssertFails` |
| `Progress` | 2 servers, logs to 2, calls fail at will | `LeaderEntriesApplied` under fairness |
| `LeaderCompleteness` | 3 servers, terms to 4, logs to 3, scripted candidates | violates `LeaderCompleteness` |
| `Wakeups` | 2 threads, 2 fibers (one with a timeout), 1 socket, 2 calls each, 1 close | `TypeOK`, `WokenOnce`, `RunsOnce`, `PendingCounted`, `NoMissedEvent` |
| `TimedCall` | 2 threads, 1 fiber with a timeout, 1 call, no close | violates `TimedCallReturns` under fairness |
| `KvStore` | 2 clients, 2 servers, 1 key, several budgets of requests, indices, failed calls and restarts | `TypeOK`, `ChannelOwned`, `ReplicaAgrees`, `ExecutedOnce`, refinement `ImplementsStore` |
| `DuplicateCommand` | the same, with Gets that run on after their client gave up | violates `ExecutedOnce` |
| `Scheduler` | creator alone, with 1 worker, 2 workers alone; 2 timers, 2 operations | `TypeOK`, `TimerKept`, `WakesInTime`, `NothingLeftBehind`, and `StopReturns` under fairness |
| `Parsers` | every text up to a length per part of the grammar, in up to 2 reads | `TypeOK`, `UriPartsAgree`, `UriAuthorityAgrees`, `RequestLineAgrees`, `RequestHeaderAgrees`, `StatusLineAgrees`, `ResponseHeaderAgrees`, `FramingAgrees` |
| `Structures` | blocks of 1 to 3 bytes of 4 bits, 4 operations; 3 keys, 2 levels, 5 operations | `TypeOK`, `CurAgrees`, `RoundTrip`, `BuffersAgree`, `ListAgrees` |
| `Restore` | the same | violates `RestoredValues` |

Bounds. `MaxTerm` stops elections, `MaxLog` stops `Start`, `MaxRound` limits the
heartbeat rounds of one leader under way, `MaxSnapshotIndex` the snapshots,
`MaxRestart` the restarts; `FewCalls` does not explore states with more than
`MaxCalls` calls under way. Two terms give two leaders, their overlapping calls
and a deposed leader that still sends; three servers are the smallest cluster
with a majority that excludes one; two entries are the smallest log with a
current-term entry on top of an older one. The bounds make the model stop, so
deadlock is not checked. The proofs below do not depend on them.

`Leaders` has three phases (`Phases` in `MCRaft`): `2 * MaxCalls` calls while there are only votes and no heartbeat,
`MaxCalls` once heartbeats are sent, and from the first proposed command on only states in which the voters of each term
voted for one candidate. So split votes and their late answers are explored before there are entries, and entries and
snapshots after elections without a split. With one entry nothing follows a snapshot in the log: that the
rest is cut at the right place is what the theorem `LogsContiguous` adds. In `Replication` a leader has one round under way;
`CommitsAreOnMajority` is about several.
`OneApplies` leaves out states of `Replication` in which two servers have applied entries: without snapshots only
`applierTicker` of the same server reads `m_lastApplied`, so no property can tell.

`Wakeups`: one descriptor with both events is where fibers meet; two fibers suffice for a
reader and a writer, for two that want the same event, and for one that cancels or
closes under another; two threads give every race between handling an event, the
timeout and running the fiber; two calls let a stale timeout meet the next call. It
may stop in a failed assertion (iomanager.cc:432: a result for two events, one of which a
timeout has cancelled meanwhile), so deadlock is not checked.

`KvStore`: a behaviour has one budget, so that a failed call, a restart and a second request are
not all spent together; two servers give a change of leader and a retry elsewhere, one
key makes requests meet. `Scheduler`: two operations are a task and a timer, two timers of which
one moves to the front, or a timer that is set and cancelled, refreshed or reset; a
delay above and one below `MaxTimeout`; `MaxLate` lets a task run past a timer. `Structures`: blocks
shorter and longer than a value, values whose last varint group is cut off as those of
32 and 64 bits are, the smallest number; three keys are a middle node with two neighbours.
`Parsers`: the bounds in `MCParsers` leave out classes that a part of the grammar does not tell apart.
All four stop when their operations are used up.

Views. `LiveState` leaves out what no later step reads (history variables, the
raft state file, vote counters of earlier terms, arrays of servers that are not
leader). Leaving out older vote counters is sound because an answer that grants
a vote carries the term of its election, which `VotesGiven` in `ElectInv` states.
`HistoryState` adds what `LogInv` and `StatePersisted` mention, `PhaseState` all vote counters and elections
until a command is proposed. Servers and commands are
interchangeable, hence the symmetry; with a view TLC picks the representative by
the whole state, so the number of states varies a little between executions.

Fairness (`LiveSpec`). Ticker fibers run for ever, so an enabled heartbeat or
apply turn is eventually taken (weak fairness). A call may fail, but when calls
to a peer are made again and again they are not all lost (strong fairness of the
handler and of the answer, per peer): that is TCP between live processes. No
fairness is assumed of elections, so the property only speaks of a leader that
stays leader. In `IOManager.tla`, `LiveSpec` lets every thread go on, and a timer
that idle threads look at again and again expires at last, because time passes.
In `Scheduler.tla`, threads go on, tasks end, the creator calls `stop` (the destructor does) and time
passes, however often threads wake each other in between (strong fairness of `Tick`).

What the violations show:

* `LeaderCompleteness`: on a conflict the follower overwrites the conflicting entry and
  keeps the rest of its log. In the run `w` adds three entries in term 1 that nobody else gets, `x` one in term 2, and
  `l` leads term 3, hands its entries to `w` and commits: the log of `w` then has the terms 2, 3, 1. Its last
  entry is the stale one of term 1, so `w` looks older than it is and grants its vote in term 4 to `x`, whose log is the
  shortest, a single entry of term 2. `x` leads without the entry committed in term 3.
* `Restore`: a list with one pair is dumped and loaded into an empty list. The key comes back with itself as its
  value; `valDumpVt_`, which was dumped and read, is not used (note/raft.md:34, 44 ask that the data agree).
* `TimedCall`: `do_io` adds the timer before the event. If the thread is held up there
  for the length of the timeout, the callback finds nothing to cancel; the
  fiber then waits for the event alone, for ever if the peer is silent.
* `DuplicateCommand`: a client's Get fails at the client but its handler still waits; the client
  goes on to a Put, which is committed twice because of a retry. The late Get sets
  `m_lastRequestId` back between the two, and the Put is executed twice.

Limits of what holds, met while choosing the properties and reproducible with TLC on the same
modules:

* With snapshots `NoAssertFails` fails: a follower's answer is lost, the follower takes a snapshot,
  the leader resends with a `prevlogindex` below it. The branch for that case
  (raft.cpp:68) has its `return` commented out, falls through to `matchLog` and exits.
* With restarts (`SpecRestart`) `ElectionSafety` fails: a server votes, restarts with empty files and
  votes again in the same term.
* `stop` may leave a timer behind when there are workers: an idle thread asks for timers before
  the timer is set, and for tasks after the task that set it has ended (or after the creator
  called `stop`), and leaves; the thread that ran the task left its idle fiber
  earlier. So `NothingLeftBehind` speaks of timers only for the creator alone.
* A delay of 2^31 ms or more becomes negative in `(int)next_timeout` (iomanager.cc:369) and
  `epoll_wait` then waits without limit; `Scheduler` assumes shorter delays.

## Proofs

`tlapm RaftProofs.tla`, `tlapm RaftCommitProofs.tla`, `tlapm SchedulerProofs.tla`, `tlapm IOManagerProofs.tla`,
`tlapm KvServerProofs.tla`, `tlapm ParserProofs.tla`, `tlapm ResponseProofs.tla`, `tlapm StructureProofs.tla`.

### Raft

The assumptions are those of `Raft.tla`: a finite, non-empty set of servers,
`None` is not a server, the bounds are natural numbers. The theorems are about
`Spec` (no restarts) and hold for every set of servers and commands and every bound.

* `TypeCorrect`, `WellTyped`, `LogsContiguous`. Types alone are not inductive: that
  `getLogTermFromLogIndex` returns a term needs the index to be in the log, and
  that depends on logs being contiguous, in memory, in calls and in the
  arguments an answer refers to. `TypeInv` adds that.
* `VotesCounted`, `OneWinnerPerTerm`, `VotesAreFinal`. `ElectionSafety` needs the
  bookkeeping of votes (`ElectInv`): a ballot is the vote its voter still has, or the
  voter has moved on (`VotesRecorded`); an answer that grants a vote, and
  a counted vote, has a ballot of the election's term (`VotesGiven`); calls and
  answers are of terms their senders reached (`TermsReached`); per election and voter
  there is at most one of request, answer and counted vote (`CallsUnique`,
  `CountedOnce`), which is why a late answer does not elect a candidate twice.
  Two winners of one term would then have majorities that share a voter with two
  ballots (proved from the cardinality theorems for finite sets).
* `VotesAndLogOnDisk`: each step that gives a vote or changes a log ends in
  `persist()` or `Save()`. A step down on an AppendEntries answer does not
  persist; it gives no vote, which is why the property still holds.
* `LeadersOnlyAppend`, `EntriesAreProposed`, `EntriesAlwaysAgree`. `EntriesAgree` is inductive
  with `LogInv`: entries are created by `Start` only, a leader holds every index
  proposed in its term, and a term has one leader.
* `NoAssertEverFails`, with the hypothesis `MaxSnapshotIndex = 0`: `KvServer` takes no snapshot, as it
  does with `m_maxRaftState = -1` (`kvServer.cpp:206`). The hypothesis is needed: with snapshots the
  property fails (Limits). `AssertInv` says that the commit index, a leader's `m_nextIndex` and
  `m_matchIndex`, and what calls and answers name lie in the log they are used for; a refusal
  never goes back to 0, because index 0 has term 0 everywhere. "Leader twice in one
  term" is excluded by `CountedOnce`: the votes that won are not counted again, and two majorities meet.
* `CountsAreSound`, `CommitsAreOnMajority`, with the same hypothesis. `CommittedOnMajority` needs to
  know that what the leader counts is what its followers hold (`CommitInv`). `HasEntry(d, i, t)`: server `d` has an
  entry of term `t` at `i`, or is past `t`; it stays so, because calls of term `t` come from the winner
  of `t` and carry the entries it still has (`HasEntryStable`). On top of it: a call starts where its
  receiver has everything of the term, an answer of success ends where it has (`SentInv`), `m_matchIndex`
  and `m_nextIndex - 1` point to such places (`AckedInv`), the calls of a round go to each peer once
  and end at the same index (`RoundCalls`), so `appendNums` is at most the number of servers that
  hold what the round sent and are no longer waited for (`CountInv`).

### Scheduler

* `TimersKept`: `TimerKept` is inductive as it stands, for any threads, timers,
  delays and number of operations. It needs no assumption on the constants.

The others assume a finite set of workers, pools in which somebody runs the tasks, and bounds that are natural
numbers. No step of the proofs cites `DelayAssumption` (delays below 2^31 ms, see Limits): it is what lets the
model leave out the cast to `int`.

* `SchedulerTypes`: the counters are in range because each is the number of threads at certain places
  (`Counted`). For that one has to know where a thread returns from a tickle or from `stopping()`
  (`Frames`), and who may be in `run`, in `idle` or in `stop` (`Roles`). `Where(t)` is the place a call was made from.
* `StopLeavesNothing`: while a task is queued, a thread that looks for tasks is left (`TasksSeen`): an idle fiber
  ends only after `stopping()` saw an empty queue and no active thread, and what is scheduled later comes from
  a thread that goes on looking. Callbacks are in nobody's hands outside `Post` (`LocalInv`). `AloneInv` is the claim about timers:
  without workers nobody sets a timer between `getNextTimer` and the end of the idle fiber.
* `TimersWake`: `WakesInTime` speaks of the moment when all sleep; `WakeInv` says what holds on the way there. As soon as
  a thread has called `getNextTimer` (`Sleepy`), every timer is waited for by a thread whose time is not longer
  (`Covers`), or noticed (`Noticed`): a byte is in the pipe, a thread is about to write it, or one will call `getNextTimer`
  before it sleeps. `m_tickled`, which suppresses the tickle of a further front timer, is set only when
  the first one is noticed; this is why `getNextTimer` has to reset it.

`TypeInv` and `WakeInv` were checked by TLC before they were proved.

### IOManager

For every number of threads, fibers, descriptors and calls (threads, fibers and descriptors are finite sets, there is a thread, `None` is no fiber).

* `WokenOnceInvariant`, `RunsOnceInvariant`: the invariant (`Inv`) follows a fiber that has given up the processor.
  It is in one place, and there once: an event context, the queue, or the hands of a thread that took it off
  the queue (`OnePlace`, `ContextOnce`, `QueuedOnce`, `HandsOnce`). The steps move it from one place to the next.
  It may already be queued while its thread has not yet written `HOLD`; `AloneOnThread` and the states of
  `ThreadInv` say why nobody resumes it before. Neither property is inductive without the places of the
  other fibers, since one timeout may cancel the event of another fiber.
* `PendingCountedInvariant`: `m_pendingEventCount` is the number of pairs of descriptor and event that are waited
  for (`Counted`); a cancelled or triggered event is counted down by whoever empties the
  context, `ContextInv` says that only one does.
* `NoMissedEventInvariant`: a registered descriptor that is ready and waited for is on epoll's list, or its
  result is in the hands of a thread. That it is registered is a condition: a fiber that registers again between
  `close()`'s cancel and the system call has its registration dropped by the kernel (hook.cc:372) and is not resumed.
* `TypeInvariant`: with it, no `SYLAR_ASSERT` on a fiber's state or on an empty context fails
  (`NeverAborts`); the one of iomanager.cc:432 may.

### KvServer

The assumptions are those of `KvServer.tla`: there is a server, `None` is no command, budgets are records of
natural numbers. The sets of clients and keys are arbitrary.

* `TypeInvariant`, `ChannelOwnedInvariant`: a wait channel exists exactly from `CreateWaitCh` to the erase of the one
  handler that has its index. It needs that `Start` never hands out an index twice at a server
  (`IndexInv`); a restart forgets the indices and the handlers together.
* `ExecutedOnceInvariant`, `ReplicaAgreesInvariant`: `ifRequestDuplicate` compares with the client's last id only,
  so it is right only if commands of a client are committed in the order of their ids, but for
  repetitions. `KnownGroup` states that: a request has one command (`UniqueInv`), a Put is committed before its client goes on
  (`Settled`), so before any later request of that client (`CommitOrder`). `ApplyGroup` relates
  `m_lastRequestId` to what the server has done.
* `ServiceImplementsStore`: the refinement, every step of `KvServer` is a step of `KvStore` or a stutter. It needs besides that a channel
  holds commands the server has taken (`ChannelInv`), that an answer is that of the one request its client waits for (`AwaitedInv`),
  and that what a Get read is the value of a moment since its call (`AnswerInv`, `SinceInv`).

The last two have the hypothesis `~LateGets`: no client makes a request while a Get it gave up still runs. The code does
not ensure it, a Clerk goes on whatever happens to the handlers it left, and `DuplicateCommand` shows that the
properties fail without it; the theorems say that this is the only way. `ServiceInv` was checked by TLC first,
on a smaller instance of `KvStore`.

### Parsers

The assumption is `BoundsAssumption` of `MCParsers.tla`: texts have lengths that are natural numbers and are made of the
parsers' classes, the words of the response's grammar have lengths, each longer than what it shares with
another word, and at least one piece is read. Lengths, classes and the number of pieces are arbitrary. The theorems are about
`Spec` of `MCParsers.tla`, in which one parser reads one text.

A parser's result depends on `mark`, which all parts of a text share, and on when the automaton saves what lies behind it.
So each of the three inductive invariants (`UriInv`, `ReqInv`, `RspInv`) says region by region of the automaton
what `mark` points at, which fields are cut already and which delimiters were read. None of the properties is inductive
without that: they speak of the end of the text only.

* `UriParts`, `UriAuthority`: while the authority is read a user name is in `host` and a password in `port`
  (`AtUserHost`, `AtUserPort`), until "@" or the authority's end decides; `AuthorityCut` is what is true then. Where the userinfo
  starts depends on whether a digit follows the first colon (`userdigit`), because the port's mark then replaces the authority's.
* `RequestLine`, `RequestHeader`: pieces come in. `http_parser_execute` sets `mark`, `field_start` and `field_len` to 0 for each, so what
  they point at is the later of where the part began and where the piece began (`MarkAt`, `Later`), and what was cut out of an
  earlier piece stays as it was (`PastKept`). The properties name the piece that holds a position as the greatest of
  those that start before it. That there is one, for any set of pieces, is proved from
  the well-foundedness of the natural numbers (`LastPieceNat`).
* `ResponseStatusLine`, `ResponseHeader`: besides these, `NameRead` says that `field_len` is the length of the name
  as long as the piece of the colon lasts, and 0 from then on: this is how a header is lost. `RspWords` (no word is read
  beyond its length) is what `TypeOK` asks for.
* `ResponseFraming`: `chunked` is late by one character behind a carriage return, and nothing but the end of the head comes in
  between (`FrameAt`). The stored length needs a second invariant (`LenInv`): the Content-Length lines read so far end in
  order, before the line that is being read, and the header stored is the last of those that lie in one piece from name to
  end. A line's name lies in the piece of its end exactly when `field_len` is still the length of the whole name
  (`WholeName`), which ties what `setHeader` is given to where the reads ended.
* `ParsersStayInside` collects what the three invariants say about offsets.

TLC checked each of these invariants on the bounds of `Parsers.cfg` or smaller ones before it was proved.

### SkipList

For any set of keys that are natural numbers, any values and any number of levels (`BoundsAssumption` of `MCStructures.tla`; neither the
header nor `None` is a key or a value).

* `SkipListAgrees`: the invariant (`ListInv`) says that the list is sound (`Sound`) and holds what the dictionary says, but for the value of a key that was loaded (`SameBut`). `ListAgrees`
  lacks two facts an operation needs: the levels of a node are `0..r`, so that the search may go down on any
  node, and no node is above `_skip_list_level`, so that a search from there misses none (`Levels`). The loops of the code
  are recursive functions. What a search computes is said without the loop: on level i it ends at the last node before the key
  (`Ends`), which exists and is unique (`EndsExists`, `EndsUnique`); `WalkEnds` and `UpdateIs` show that the loops get there.
  `dump_file` and `load_file` are followed by a least (or greatest) counterexample, from the well-foundedness of the natural numbers
  (`DumpIs`, `LoadHolds`). `delete_element` gives up unlinking at the first level where the search did not stop right before the node;
  `UnlinkedIs` shows that these are exactly the levels above the node's own.

### ByteArray

For any block sizes, bits of a group and bytes of a value (none of them zero), any values that fit their width and any strings of bytes
(`BoundsAssumption` of `MCStructures.tla`). A string is assumed shorter than `2 ^ Width`: a longer one has its length cut when it is
written (bytearray.cc writes it as a fixed or variable length number), and is not read back. `PowersAssumption` is arithmetic: the few
laws of `^` the proofs use, of which the prover knows none. They hold for every such constant; TLC evaluates them for those of the run.

* `ByteArrayCur`, `StructuresTyped`: the invariant (`BytesInv`) says that the block list stores `flat` (`Stores`): the fields are arranged as
  `CurAgrees` says, and the byte at position p, found in block `p \div base + 1` at offset `p % base`, is the one `flat` has there,
  unless nobody wrote it. `CurAgrees` alone is not enough: what a read does depends on the length the
  bytes before it encode, so the invariant of the position needs the bytes to be bytes. One lemma per operation says what it does to the array
  (`AddCapacityIs`, `WriteIs`, `ReadIs`, `SetPositionIs`, `ClearIs`, `ReceiveIs`, `ReadFromFileIs`); a write in several calls is one write
  of all bytes (`OverOver`, `WriteTwice`).
* `ByteArrayRoundTrip`: the stronger invariant (`ItemsInv`) adds that every value not overwritten still has its bytes in place,
  in the byte order it was written in (`Stored`). Decoding is the inverse of encoding: `FixedBack` for the digits of fixed-length values,
  `RoundBack` and `ReadUintBack` for the groups of a varint (after i rounds the loop has the lowest i groups, and the rest of the number is
  ahead), `ZigzagBack` and `SignedBack` for signs, `ReadStringBack` for a length and what follows it.
* `ByteArrayBuffers` follows from `BytesInv`: the iovecs are consecutive pieces (`CutIs`, `PiecesIs`), all blocks joined are the
  cells in order (`BlocksJoined`), and the loop of `writeToFile` advances by whole blocks when it starts at one (`FileStepIs`).

`Varint`, `FlattenSeq` and the loops are recursive functions. That such a function exists and has the value its definition says is
shown for each (`VarintIs`, `Flattened`) by the least argument up to which there is none; what it computes, again by a least
counterexample. No theorem with an operator as its parameter is needed.

### Only model-checked

`StopReturns`, `TimedCallReturns` and `LeaderEntriesApplied`: liveness and fairness are out of the prover's reach. Every
invariant and action property of a passing run is proved, with the differences of assumptions the sections above name.
`CommittedOnMajority` with snapshots is neither checked nor proved.
Leader completeness is not a property of this code.

## Plan

1. Raft and its proofs (done); commitment with snapshots.
2. `IOManager` with `Hook` and its proofs (done); `connect_with_timeout`.
3. `KvServer` with `Clerk`, the refinement of `KvStore` and its proof (done); snapshots in `applyChan`.
4. `Scheduler` and `TimerManager` and its proofs (done).
5. Parsers, `SkipList` and `ByteArray` and their proofs (done); `Persister` with crash points inside `Save`,
   `HttpConnectionPool`.

## Not modelled

* `config`, `log`, `env`, `daemon`, `address`, `util`, `mutex`, `thread`, `socket`, `tcp_server`: sequential text processing,
  pure I/O, wrappers of system calls.
* `http` beyond the heads of messages: bodies read by length or chunk, message objects, servlets,
  `HttpConnectionPool`.
* `rpc/`: one blocking call per request, of which Raft and `KvServer` use the result.
* `FdManager`'s table, `contextResize`, `connect_with_timeout`, exceptions in fibers, `switchTo`.
* Snapshots between `Raft` and `KvServer`; crash points inside `Persister::Save`.
* `libco`: vendored assembly.

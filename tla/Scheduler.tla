------------------------------ MODULE Scheduler ------------------------------
(* How an IOManager starts, waits, wakes and stops: Scheduler::run and stop,  *)
(* IOManager::tickle, stopping and idle, and the TimerManager they share.      *)
(* IOManager.tla models the descriptors these threads also wait for.           *)
(*                                                                             *)
(* The clock is relative: a timer keeps the milliseconds left to it, a sleeper *)
(* those left of its epoll_wait.  Locks, list operations and system calls take *)
(* no time; tasks and sleeping do.                                             *)
EXTENDS Integers, Sequences, FiniteSets, FiniteSetsExt

CONSTANTS
    Worker,      \* threads that run tasks
    Pools,       \* use_caller and the threads start() creates, as pairs
    Main,        \* the thread that creates the scheduler and stops it
    Anyone,      \* thread = -1
    Timer,       \* timer objects
    Delay,       \* milliseconds a timer is set to
    MaxTimeout,  \* MAX_TIMEOUT, 1000 in the code
    MaxOps,      \* bound: tasks and timer operations in one behaviour
    MaxLate,     \* bound: how late a timer gets while a task goes on
    None

ASSUME ThreadAssumption ==
    /\ IsFiniteSet(Worker)
    /\ Main \notin Worker /\ Anyone \notin Worker \cup {Main}

\* Somebody runs the tasks.
ASSUME PoolAssumption ==
    Pools \subseteq (BOOLEAN \X SUBSET Worker) \ {<<FALSE, {}>>}

ASSUME BoundAssumption ==
    /\ MaxTimeout \in Nat \ {0} /\ MaxOps \in Nat /\ MaxLate \in Nat
    /\ Delay \subseteq Nat \ {0} /\ None \notin Int

\* A delay of 2^31 milliseconds or more turns negative where idle() casts it
\* to int, and epoll_wait would then wait for ever.
ASSUME DelayAssumption == \A ms \in Delay : ms <= 2147483647

VARIABLES
    m_threads,            \* the worker threads
    m_rootFiber,          \* use_caller: Main runs tasks too, from stop() on
    at,                   \* where each thread is
    after,                \* and what it goes on with, the next one first
    m_fibers,             \* the tasks, each the thread it is for
    m_activeThreadCount,
    m_idleThreadCount,
    m_stopping,           \* and m_autoStop, which only stop() sets too
    idleTerm,             \* threads whose idle fiber has ended
    next_timeout,         \* what each thread got from getNextTimer
    sleep,                \* what is left of each thread's epoll_wait
    cbs,                  \* callbacks each thread took from expired timers
    m_tickled,
    pipe,                 \* epoll reports the pipe to the next who waits
    m_timers,             \* the timers of the set: what is left, m_ms, m_recurring
    m_cb,                 \* the timers that still have their callback
    ops                   \* operations left

threads == <<m_threads, m_rootFiber>>
tasks == <<m_fibers, m_activeThreadCount>>
timers == <<m_tickled, m_timers, m_cb>>
local == <<idleTerm, next_timeout, sleep, cbs>>
vars == <<threads, at, after, tasks, m_idleThreadCount, m_stopping, local, pipe, timers, ops>>

Thread == Worker \cup {Main}

Goto(t, pc) == at' = [at EXCEPT ![t] = pc] /\ UNCHANGED after

\* The thread goes on with pc, and afterwards with rest.
Call(t, pc, rest) == at' = [at EXCEPT ![t] = pc] /\ after' = [after EXCEPT ![t] = rest]

\* The thread returns to what it was doing.
Return(t) == Call(t, Head(after[t]), Tail(after[t]))

\* if(need_tickle) tickle(), and then pc.
TickleIf(need, t, pc) == IF need THEN Call(t, "tickle", <<pc>> \o after[t]) ELSE Goto(t, pc)

\* IOManager::IOManager has called start().
Init ==
    /\ \E pool \in Pools : m_rootFiber = pool[1] /\ m_threads = pool[2]
    /\ at = [t \in Thread |-> IF t = Main THEN "main" ELSE IF t \in m_threads THEN "scan" ELSE "done"]
    /\ after = [t \in Thread |-> <<>>]
    /\ m_fibers = <<>> /\ m_activeThreadCount = 0 /\ m_idleThreadCount = 0
    /\ m_stopping = FALSE
    /\ idleTerm = {}
    /\ next_timeout = [t \in Thread |-> None] /\ sleep = [t \in Thread |-> None]
    /\ cbs = [t \in Thread |-> 0]
    /\ m_tickled = FALSE /\ pipe = FALSE
    /\ m_timers = [i \in {} |-> 0] /\ m_cb = {}
    /\ ops = MaxOps

-----------------------------------------------------------------------------
(* What a task, and Main before it stops the scheduler, may do. *)

Operates(t) == at[t] \in {"main", "exec"} /\ ops > 0 /\ ops' = ops - 1

\* scheduleNoLock
Push(n, pin) == m_fibers' = m_fibers \o [i \in 1..n |-> pin]

\* schedule(): only the creator names a thread, and one that has not ended.
Schedule(t, pin) ==
    /\ Operates(t)
    /\ at[t] = "main" \/ pin = Anyone
    /\ pin \in m_threads \cup {Anyone} \cup (IF m_rootFiber THEN {Main} ELSE {})
    /\ Push(1, pin)
    /\ TickleIf(m_fibers = <<>>, t, at[t])
    /\ UNCHANGED <<threads, m_activeThreadCount, m_idleThreadCount, m_stopping, local, pipe, timers>>

\* The timer of addTimer is a new object.
NewTimer == CHOOSE i \in Timer \ m_cb : TRUE

\* Equal times are ordered by address: either may be the first.
AtFront(i, left) ==
    LET others == {m_timers[j].left : j \in DOMAIN m_timers \ {i}}
    IN  {b \in BOOLEAN : /\ (\E n \in others : n < left) => ~b
                         /\ (\A n \in others : n > left) => b}

With(i, timer) == [j \in DOMAIN m_timers \cup {i} |-> IF j = i THEN timer ELSE m_timers[j]]

\* TimerManager::addTimer(val, lock)
Insert(t, i, timer) ==
    \E front \in AtFront(i, timer.left) :
        LET at_front == front /\ ~m_tickled
        IN  /\ m_timers' = With(i, timer)
            /\ m_tickled' = (m_tickled \/ at_front)
            /\ TickleIf(at_front, t, at[t])

addTimer(t, ms, recurring) ==
    /\ Operates(t)
    /\ Timer \ m_cb # {}
    /\ m_cb' = m_cb \cup {NewTimer}
    /\ Insert(t, NewTimer, [left |-> ms, m_ms |-> ms, m_recurring |-> recurring])
    /\ UNCHANGED <<threads, tasks, m_idleThreadCount, m_stopping, local, pipe>>

\* Timer::cancel
cancel_NoErase(t, i) ==
    /\ Operates(t)
    /\ i \in m_cb
    /\ m_cb' = m_cb \ {i}
    /\ UNCHANGED <<threads, at, after, tasks, m_idleThreadCount, m_stopping, local, pipe,
                   m_tickled, m_timers>>

cancel(t, i) ==
    /\ Operates(t)
    /\ i \in m_cb
    /\ m_cb' = m_cb \ {i}
    /\ m_timers' = [j \in DOMAIN m_timers \ {i} |-> m_timers[j]]
    /\ UNCHANGED <<threads, at, after, tasks, m_idleThreadCount, m_stopping, local, pipe, m_tickled>>

\* Timer::refresh
refresh(t, i) ==
    /\ Operates(t)
    /\ i \in m_cb \cap DOMAIN m_timers
    /\ m_timers' = [m_timers EXCEPT ![i].left = m_timers[i].m_ms]
    /\ UNCHANGED <<threads, at, after, tasks, m_idleThreadCount, m_stopping, local, pipe,
                   m_tickled, m_cb>>

\* Timer::reset
reset(t, i, ms, from_now) ==
    /\ Operates(t)
    /\ i \in m_cb \cap DOMAIN m_timers
    /\ ms # m_timers[i].m_ms \/ from_now
    /\ Insert(t, i, [m_timers[i] EXCEPT
                        !.left = IF from_now THEN ms ELSE @ - m_timers[i].m_ms + ms,
                        !.m_ms = ms])
    /\ UNCHANGED <<threads, tasks, m_idleThreadCount, m_stopping, local, pipe, m_cb>>

Operation(t) ==
    \/ \E pin \in Thread \cup {Anyone} : Schedule(t, pin)
    \/ \E ms \in Delay, b \in BOOLEAN : addTimer(t, ms, b)
    \/ \E i \in Timer : cancel(t, i) \/ refresh(t, i)
    \/ \E i \in Timer, ms \in Delay, b \in BOOLEAN : reset(t, i, ms, b)

-----------------------------------------------------------------------------
(* Scheduler::run *)

\* The tasks thread t may take.
ForMe(t) == {i \in DOMAIN m_fibers : m_fibers[i] \in {Anyone, t}}

\* The search for a task, under m_mutex; a task left behind is tickled for.
Scan(t) ==
    /\ at[t] = "scan"
    /\ IF ForMe(t) # {}
       THEN LET it == Min(ForMe(t))
            IN  /\ m_fibers' = SubSeq(m_fibers, 1, it - 1) \o SubSeq(m_fibers, it + 1, Len(m_fibers))
                /\ m_activeThreadCount' = m_activeThreadCount + 1
                /\ TickleIf(it > 1 \/ it < Len(m_fibers), t, "exec")
       ELSE /\ TickleIf(m_fibers # <<>>, t, "notask")
            /\ UNCHANGED tasks
    /\ UNCHANGED <<threads, m_idleThreadCount, m_stopping, local, pipe, timers, ops>>

\* IOManager::tickle
tickle(t) ==
    /\ at[t] = "tickle"
    /\ pipe' = (pipe \/ m_idleThreadCount > 0)
    /\ Return(t)
    /\ UNCHANGED <<threads, tasks, m_idleThreadCount, m_stopping, local, timers, ops>>

\* The task returns, or yields.
Finish(t) ==
    /\ at[t] = "exec"
    /\ m_activeThreadCount' = m_activeThreadCount - 1
    /\ Goto(t, "scan")
    /\ UNCHANGED <<threads, m_fibers, m_idleThreadCount, m_stopping, local, pipe, timers, ops>>

\* A fiber that yields READY is scheduled again, once it no longer counts as active.
Yield(t) ==
    /\ at[t] = "exec"
    /\ ops > 0 /\ ops' = ops - 1
    /\ m_activeThreadCount' = m_activeThreadCount - 1
    /\ Goto(t, "ready")
    /\ UNCHANGED <<threads, m_fibers, m_idleThreadCount, m_stopping, local, pipe, timers>>

Reschedule(t) ==
    /\ at[t] = "ready"
    /\ Push(1, Anyone)
    /\ TickleIf(m_fibers = <<>>, t, "scan")
    /\ UNCHANGED <<threads, m_activeThreadCount, m_idleThreadCount, m_stopping, local, pipe, timers, ops>>

\* No task: the idle fiber, or the end of run() once that has ended.
Idle(t) ==
    /\ at[t] = "notask"
    /\ IF t \in idleTerm
       THEN /\ Goto(t, IF t = Main THEN "join" ELSE "done")
            /\ UNCHANGED m_idleThreadCount
       ELSE /\ Call(t, "next", <<"idle">>)
            /\ m_idleThreadCount' = m_idleThreadCount + 1
    /\ UNCHANGED <<threads, tasks, m_stopping, local, pipe, timers, ops>>

\* The idle fiber has yielded.
Back_StillIdle(t) ==
    /\ at[t] = "back"
    /\ Goto(t, "scan")
    /\ UNCHANGED <<threads, tasks, m_idleThreadCount, m_stopping, local, pipe, timers, ops>>

Back(t) ==
    /\ at[t] = "back"
    /\ m_idleThreadCount' = m_idleThreadCount - 1
    /\ Goto(t, "scan")
    /\ UNCHANGED <<threads, tasks, m_stopping, local, pipe, timers, ops>>

-----------------------------------------------------------------------------
(* IOManager::stopping, which idle() and stop() call, and IOManager::idle *)

Earliest == Min({m_timers[i].left : i \in DOMAIN m_timers})

getNextTimer_NoReset(t) ==
    /\ at[t] = "next"
    /\ next_timeout' = [next_timeout EXCEPT ![t] =
                            IF DOMAIN m_timers = {} THEN None ELSE Max({0, Earliest})]
    /\ Goto(t, "stopping")
    /\ UNCHANGED <<threads, tasks, m_idleThreadCount, m_stopping, idleTerm, sleep, cbs, pipe,
                   timers, ops>>

getNextTimer(t) ==
    /\ at[t] = "next"
    /\ m_tickled' = FALSE
    /\ next_timeout' = [next_timeout EXCEPT ![t] =
                            IF DOMAIN m_timers = {} THEN None ELSE Max({0, Earliest})]
    /\ Goto(t, "stopping")
    /\ UNCHANGED <<threads, tasks, m_idleThreadCount, m_stopping, idleTerm, sleep, cbs, pipe,
                   m_timers, m_cb, ops>>

\* stopping(timeout) after getNextTimer: no timer then, nothing to do now.
Stopping_AnyTimer(t) == m_stopping /\ m_fibers = <<>> /\ m_activeThreadCount = 0

Stopping(t) ==
    /\ next_timeout[t] = None
    /\ m_stopping /\ m_fibers = <<>> /\ m_activeThreadCount = 0

\* What stop() does once it goes on: a tickle per thread, then the root fiber.
StopCalls ==
    [i \in 1..(Cardinality(m_threads) + IF m_rootFiber THEN 1 ELSE 0) |-> "tickle"]
        \o (IF m_rootFiber THEN <<"next", "root">> ELSE <<"join">>)

Asked(t, caller) == at[t] = "stopping" /\ Head(after[t]) = caller

\* idle() ends, or waits for the next timer, at most MAX_TIMEOUT.
IdleEnds(t) ==
    /\ Asked(t, "idle") /\ Stopping(t)
    /\ idleTerm' = idleTerm \cup {t}
    /\ m_idleThreadCount' = m_idleThreadCount - 1
    /\ next_timeout' = [next_timeout EXCEPT ![t] = None]
    /\ Call(t, "scan", <<>>)
    /\ UNCHANGED <<threads, tasks, m_stopping, sleep, cbs, pipe, timers, ops>>

Wait(t) ==
    /\ Asked(t, "idle") /\ ~Stopping(t)
    /\ sleep' = [sleep EXCEPT ![t] = IF next_timeout[t] = None THEN MaxTimeout
                                     ELSE Min({MaxTimeout, next_timeout[t]})]
    /\ next_timeout' = [next_timeout EXCEPT ![t] = None]
    /\ Call(t, "wait", <<>>)
    /\ UNCHANGED <<threads, tasks, m_idleThreadCount, m_stopping, idleTerm, cbs, pipe, timers, ops>>

\* stop() returns early, goes on, or runs the root fiber before it joins.
StopAnswered(t) ==
    /\ \/ Asked(t, "early") /\ Stopping(t) /\ Call(t, "stopped", <<>>)
       \/ Asked(t, "early") /\ ~Stopping(t) /\ Call(t, Head(StopCalls), Tail(StopCalls))
       \/ Asked(t, "root") /\ Call(t, IF Stopping(t) THEN "join" ELSE "scan", <<>>)
    /\ next_timeout' = [next_timeout EXCEPT ![t] = None]
    /\ UNCHANGED <<threads, tasks, m_idleThreadCount, m_stopping, idleTerm, sleep, cbs, pipe,
                   timers, ops>>

\* epoll_wait returns: the pipe, which is edge triggered, or the time-out.
Wake_NoTimeout(t) ==
    /\ at[t] = "wait"
    /\ pipe /\ pipe' = FALSE
    /\ sleep' = [sleep EXCEPT ![t] = None]
    /\ Call(t, "expire", <<"drain", "back">>)
    /\ UNCHANGED <<threads, tasks, m_idleThreadCount, m_stopping, idleTerm, next_timeout, cbs,
                   timers, ops>>

Wake(t) ==
    /\ at[t] = "wait"
    /\ sleep' = [sleep EXCEPT ![t] = None]
    /\ \/ pipe /\ pipe' = FALSE /\ Call(t, "expire", <<"drain", "back">>)
       \/ sleep[t] = 0 /\ Call(t, "expire", <<"back">>) /\ UNCHANGED pipe
    /\ UNCHANGED <<threads, tasks, m_idleThreadCount, m_stopping, idleTerm, next_timeout, cbs,
                   timers, ops>>

\* TimerManager::listExpiredCb
listExpiredCb(t) ==
    /\ at[t] = "expire"
    /\ LET expired == {i \in DOMAIN m_timers : m_timers[i].left <= 0}
           gone == {i \in expired : ~m_timers[i].m_recurring}
       IN  /\ m_timers' = [i \in DOMAIN m_timers \ gone |->
                              [m_timers[i] EXCEPT !.left = IF i \in expired THEN m_timers[i].m_ms ELSE @]]
           /\ m_cb' = m_cb \ gone
           /\ cbs' = [cbs EXCEPT ![t] = Cardinality(expired)]
           /\ IF expired = {} THEN Return(t) ELSE Goto(t, "post")
    /\ UNCHANGED <<threads, tasks, m_idleThreadCount, m_stopping, idleTerm, next_timeout, sleep,
                   pipe, m_tickled, ops>>

\* schedule(cbs.begin(), cbs.end())
Post(t) ==
    /\ at[t] = "post"
    /\ Push(cbs[t], Anyone)
    /\ cbs' = [cbs EXCEPT ![t] = 0]
    /\ IF m_fibers = <<>> THEN Goto(t, "tickle") ELSE Return(t)
    /\ UNCHANGED <<threads, m_activeThreadCount, m_idleThreadCount, m_stopping, idleTerm,
                   next_timeout, sleep, pipe, timers, ops>>

\* The pipe is read empty; what was written meanwhile is no longer reported.
Drain(t) ==
    /\ at[t] = "drain"
    /\ pipe' = FALSE
    /\ Return(t)
    /\ UNCHANGED <<threads, tasks, m_idleThreadCount, m_stopping, local, timers, ops>>

-----------------------------------------------------------------------------
(* Scheduler::stop *)

stop ==
    /\ at[Main] = "main"
    /\ m_stopping' = TRUE
    /\ IF m_rootFiber /\ m_threads = {} THEN Call(Main, "next", <<"early">>)
       ELSE Call(Main, Head(StopCalls), Tail(StopCalls))
    /\ UNCHANGED <<threads, tasks, m_idleThreadCount, local, pipe, timers, ops>>

\* i->join() on every worker.
Join ==
    /\ at[Main] = "join"
    /\ \A w \in m_threads : at[w] = "done"
    /\ Goto(Main, "stopped")
    /\ UNCHANGED <<threads, tasks, m_idleThreadCount, m_stopping, local, pipe, timers, ops>>

-----------------------------------------------------------------------------
\* External: a millisecond passes, while every thread sleeps, runs a task or
\* has ended.  A task, or Main before stop(), does not go on past MaxLate.
Tick ==
    /\ \A t \in Thread : at[t] \in {"main", "exec", "wait", "join", "done"}
    /\ \E t \in Thread : at[t] \in {"main", "exec", "wait"}
    /\ \A t \in Thread : at[t] = "wait" => sleep[t] > 0
    /\ (\E t \in Thread : at[t] \in {"main", "exec"}) =>
            \A i \in DOMAIN m_timers : m_timers[i].left > -MaxLate
    /\ m_timers' = [i \in DOMAIN m_timers |-> [m_timers[i] EXCEPT !.left = @ - 1]]
    /\ sleep' = [t \in Thread |-> IF sleep[t] = None THEN None ELSE sleep[t] - 1]
    /\ UNCHANGED <<threads, at, after, tasks, m_idleThreadCount, m_stopping, idleTerm,
                   next_timeout, cbs, pipe, m_tickled, m_cb, ops>>

Step(t) ==
    \/ Scan(t) \/ tickle(t) \/ Finish(t) \/ Reschedule(t) \/ Idle(t) \/ Back(t)
    \/ getNextTimer(t) \/ IdleEnds(t) \/ Wait(t) \/ StopAnswered(t)
    \/ Wake(t) \/ listExpiredCb(t) \/ Post(t) \/ Drain(t)

Next ==
    \/ \E t \in Thread : Step(t) \/ Yield(t) \/ Operation(t)
    \/ stop \/ Join \/ Tick

Spec == Init /\ [][Next]_vars

\* Threads go on, tasks end, the creator stops the scheduler and waits for it,
\* and time passes.
LiveSpec ==
    /\ Spec
    /\ \A t \in Thread : WF_vars(Step(t))
    /\ WF_vars(stop) /\ WF_vars(Join)
    /\ SF_vars(Tick)

-----------------------------------------------------------------------------
\* The variables have their types; the two thread counts, size_t in the code,
\* never go below zero.
TypeOK ==
    /\ m_threads \subseteq Worker /\ m_rootFiber \in BOOLEAN /\ m_stopping \in BOOLEAN
    /\ at \in [Thread -> {"main", "scan", "tickle", "exec", "ready", "notask", "next", "stopping",
                          "wait", "expire", "post", "drain", "back", "join", "done", "stopped"}]
    /\ \A t \in Thread : Len(after[t]) <= Cardinality(Worker) + 3
    /\ m_fibers \in Seq(Thread \cup {Anyone})
    /\ m_activeThreadCount \in 0..Cardinality(Thread)
    /\ m_idleThreadCount \in 0..Cardinality(Thread)
    /\ idleTerm \subseteq Thread
    /\ \A t \in Thread : next_timeout[t] = None \/ next_timeout[t] \in Nat
    /\ \A t \in Thread : sleep[t] = None \/ sleep[t] \in 0..MaxTimeout
    /\ m_tickled \in BOOLEAN /\ pipe \in BOOLEAN
    /\ m_timers \in [DOMAIN m_timers -> [left : Int, m_ms : Delay, m_recurring : BOOLEAN]]
    /\ DOMAIN m_timers \subseteq Timer /\ m_cb \subseteq Timer
    /\ ops \in 0..MaxOps

\* A timer has its callback exactly while it is in the set: Timer::cancel
\* erases what find() returns without a look at end() (timer.cc:45).
TimerKept == m_cb = DOMAIN m_timers

Asleep(t) == at[t] \in {"wait", "done", "join"} \/ (t = Main /\ at[t] = "main")

\* When nobody is awake, no timer is overlooked: the pipe wakes someone, or a
\* sleeper's epoll_wait ends no later than the earliest timer or MAX_TIMEOUT
\* allows.  m_tickled (timer.cc:175) suppresses only needless wake-ups.
WakesInTime ==
    (/\ \A t \in Thread : Asleep(t)
     /\ \E t \in Thread : at[t] = "wait"
     /\ DOMAIN m_timers # {})
    => \/ pipe
       \/ \E t \in Thread : at[t] = "wait" /\ sleep[t] <= Max({0, Earliest})

\* stop() returns only when every task and every callback taken from a timer
\* has run, although threads end one by one and callbacks are out of both
\* the timers and the tasks for a while (iomanager.cc:383).  A timer may be
\* left behind when there are workers: getNextTimer and the look at the tasks
\* are two steps (iomanager.cc:336), and the timer may be set in between.
NothingLeftBehind ==
    at[Main] = "stopped" =>
        /\ m_fibers = <<>> /\ m_activeThreadCount = 0 /\ m_idleThreadCount = 0
        /\ \A t \in Thread : cbs[t] = 0
        /\ m_threads = {} => DOMAIN m_timers = {}

\* stop() returns, however its wake-ups are spread over the threads, unless a
\* recurring timer is never cancelled (scheduler.cc:137).
StopReturns == m_stopping ~> (at[Main] = "stopped" \/ \E i \in DOMAIN m_timers : m_timers[i].m_recurring)

=============================================================================

--------------------------- MODULE SchedulerProofs ---------------------------
(* For any number of threads, timers and operations:                           *)
(*   - a timer is in the set exactly while it has its callback, as Timer::cancel *)
(*     relies on when it erases the result of find() without a look at end();   *)
(*   - the two thread counts are those of the threads that are active and idle; *)
(*   - stop() leaves no task and no callback behind;                             *)
(*   - no timer is overlooked while everybody sleeps.                           *)
EXTENDS Scheduler, TLAPS, FiniteSetTheorems, WellFoundedInduction

-----------------------------------------------------------------------------
(* Where threads are *)

Place == {"main", "scan", "tickle", "exec", "ready", "notask", "next", "stopping", "wait", "expire",
          "post", "drain", "back", "join", "done", "stopped", "idle", "early", "root"}

\* Nothing is left to return to.
Plain == {"main", "scan", "exec", "ready", "notask", "wait", "back", "join", "done", "stopped"}

\* What stop() has still to do after a tickle.
StopLeft(s) ==
    LET n == Len(s) IN
    /\ n <= Cardinality(Worker) + 2
    /\ IF m_rootFiber
       THEN n >= 2 /\ s[n - 1] = "next" /\ s[n] = "root" /\ \A i \in 1..(n - 2) : s[i] = "tickle"
       ELSE n >= 1 /\ s[n] = "join" /\ \A i \in 1..(n - 1) : s[i] = "tickle"

\* What a thread has to return to, wherever it is.
Frame(t) ==
    LET s == after[t] IN
    \/ at[t] \in Plain /\ Len(s) = 0
    \/ at[t] \in {"next", "stopping"} /\ Len(s) = 1 /\ s[1] = "idle"
    \/ t = Main /\ m_rootFiber /\ at[t] \in {"next", "stopping"} /\ Len(s) = 1 /\ s[1] \in {"early", "root"}
    \/ at[t] = "tickle" /\ Len(s) = 1 /\ s[1] \in {"main", "exec", "notask", "scan"}
    \/ at[t] \in {"tickle", "expire", "post", "drain"} /\ Len(s) = 1 /\ s[1] = "back"
    \/ at[t] \in {"tickle", "expire", "post"} /\ Len(s) = 2 /\ s[1] = "drain" /\ s[2] = "back"
    \/ t = Main /\ at[t] = "tickle" /\ StopLeft(s)

Frames == at \in [Thread -> Place] /\ after \in [Thread -> Seq(Place)] /\ \A t \in Thread : Frame(t)

\* The part of run(), idle() or stop() a thread is in.
Where(t) ==
    LET pc == IF at[t] = "tickle" THEN after[t][1] ELSE at[t] IN
    IF at[t] \in {"next", "stopping"} /\ after[t][1] = "idle" THEN "idle"
    ELSE IF pc \in {"wait", "expire", "post", "drain", "back"} THEN "idle"
    ELSE IF pc \in {"tickle", "next", "stopping"} THEN "stop"
    ELSE IF at[t] = "tickle" /\ pc = "join" THEN "stop"
    ELSE pc

Loop == {"scan", "exec", "ready", "notask", "idle"}

\* Somebody runs the tasks.
Pool == m_threads \subseteq Worker /\ m_rootFiber \in BOOLEAN /\ (m_threads # {} \/ m_rootFiber)

\* Workers run until they end, Main when it is the root fiber; the idle fiber of
\* a thread ends after stop() only.
Roles ==
    /\ \A w \in Worker : Where(w) = "done" \/ (w \in m_threads /\ Where(w) \in Loop)
    /\ \A w \in m_threads : Where(w) = "done" => w \in idleTerm
    /\ Where(Main) \in {"main", "stop", "join", "stopped"} \/ (m_rootFiber /\ Where(Main) \in Loop)
    /\ m_stopping <=> Where(Main) # "main"
    /\ Where(Main) = "stop" /\ after[Main][1] = "early" => m_threads = {}
    /\ Where(Main) = "stopped" => \A w \in Worker : Where(w) = "done"
    /\ idleTerm \subseteq Thread /\ (idleTerm # {} => m_stopping)
    /\ \A t \in idleTerm : Where(t) \in {"scan", "exec", "ready", "notask", "done", "join", "stopped"}

In(place) == {t \in Thread : Where(t) = place}

\* The two counters.
Counted ==
    /\ m_activeThreadCount = Cardinality(In("exec"))
    /\ m_idleThreadCount = Cardinality(In("idle"))

\* A thread that looks for no more tasks.
Over(t) == Where(t) \in {"join", "stopped", "done"} \/ (t \in idleTerm /\ Where(t) = "notask")
Runs(t) == t \in m_threads \/ (t = Main /\ m_rootFiber)

\* Once an idle fiber has ended no task is for one thread, and there is somebody
\* to look for the tasks there are.
TasksSeen ==
    /\ idleTerm # {} => \A i \in 1..Len(m_fibers) : m_fibers[i] = Anyone
    /\ m_fibers # <<>> => \E t \in Thread : Runs(t) /\ ~Over(t)

\* The creator alone: what it has seen of the timers is still so.
AloneInv ==
    m_threads = {} =>
        /\ at[Main] = "stopping" /\ next_timeout[Main] = None => DOMAIN m_timers = {}
        /\ Main \in idleTerm \/ Where(Main) \in {"join", "stopped"} =>
              /\ DOMAIN m_timers = {} /\ m_fibers = <<>>
              /\ Where(Main) \in {"scan", "notask", "join", "stopped"}

\* Callbacks are on their way in Post only, a sleeper has its time.
LocalInv ==
    /\ cbs \in [Thread -> Nat] /\ next_timeout \in [Thread -> Nat \cup {None}]
    /\ sleep \in [Thread -> (0..MaxTimeout) \cup {None}]
    /\ \A t \in Thread : cbs[t] # 0 => at[t] = "post"
    /\ \A t \in Thread : at[t] = "wait" <=> sleep[t] # None

TimerTypes ==
    /\ m_timers \in [DOMAIN m_timers -> [left : Int, m_ms : Delay, m_recurring : BOOLEAN]]
    /\ IsFiniteSet(DOMAIN m_timers) /\ DOMAIN m_timers \subseteq Timer /\ m_cb \subseteq Timer
    /\ \A i \in DOMAIN m_timers : m_timers[i].left <= m_timers[i].m_ms

-----------------------------------------------------------------------------
(* Who sees the timers *)

\* A thread that will call getNextTimer from idle().
Looks(t) ==
    /\ t \notin idleTerm
    /\ \/ Where(t) \in {"scan", "exec", "ready", "notask"}
       \/ Where(t) = "idle" /\ at[t] \notin {"wait", "stopping"}

\* A thread that has called it, and sleeps or is about to.
Sleepy(t) == Where(t) = "idle" /\ at[t] \in {"wait", "stopping"}

\* A wait of n milliseconds is not too long.
Soon(n) == \A i \in DOMAIN m_timers : n <= 0 \/ n <= m_timers[i].left
Covers(t) ==
    /\ Sleepy(t)
    /\ \/ at[t] = "wait" /\ Soon(sleep[t])
       \/ at[t] = "stopping" /\ next_timeout[t] # None /\ Soon(next_timeout[t])

\* Somebody will look, or be woken and then look.
Noticed == pipe \/ \E t \in Thread : Looks(t) \/ at[t] = "tickle"

\* While threads sleep: a front timer that asked for a tickle is noticed, and
\* every timer is noticed or waited for.
WakeInv ==
    (\E t \in Thread : Sleepy(t)) =>
        /\ m_tickled => Noticed
        /\ DOMAIN m_timers # {} => Noticed \/ \E t \in Thread : Covers(t)

-----------------------------------------------------------------------------

\* TimerManager::addTimer(val, lock) puts one timer in the set.
LEMMA InsertAdds ==
    ASSUME NEW t, NEW i, NEW timer, Insert(t, i, timer)
    PROVE  DOMAIN m_timers' = DOMAIN m_timers \cup {i}
BY DEF Insert, With

\* What a task does to its timers: set, cancel, refresh, reset.
LEMMA OperationKeeps ==
    ASSUME TimerKept, NEW t \in Thread, Operation(t)
    PROVE  TimerKept'
<1>1. CASE \E pin \in Thread \cup {Anyone} : Schedule(t, pin)
    BY <1>1 DEF TimerKept, Schedule, timers
<1>2. CASE \E ms \in Delay, b \in BOOLEAN : addTimer(t, ms, b)
    <2>1. PICK ms \in Delay, b \in BOOLEAN : addTimer(t, ms, b)
        BY <1>2
    <2>2. DOMAIN m_timers' = DOMAIN m_timers \cup {NewTimer}
        BY <2>1, InsertAdds DEF addTimer
    <2> QED
        BY <2>1, <2>2 DEF TimerKept, addTimer
<1>3. CASE \E i \in Timer : cancel(t, i)
    BY <1>3 DEF TimerKept, cancel
<1>4. CASE \E i \in Timer : refresh(t, i)
    BY <1>4 DEF TimerKept, refresh
<1>5. CASE \E i \in Timer, ms \in Delay, b \in BOOLEAN : reset(t, i, ms, b)
    <2>1. PICK i \in Timer, ms \in Delay, b \in BOOLEAN : reset(t, i, ms, b)
        BY <1>5
    <2>2. DOMAIN m_timers' = DOMAIN m_timers \cup {i}
        BY <2>1, InsertAdds DEF reset
    <2> QED
        BY <2>1, <2>2 DEF TimerKept, reset
<1> QED
    BY <1>1, <1>2, <1>3, <1>4, <1>5 DEF Operation

\* The loop of run() and idle(): only listExpiredCb touches the set.
LEMMA StepKeeps ==
    ASSUME TimerKept, NEW t \in Thread, Step(t)
    PROVE  TimerKept'
<1>1. CASE listExpiredCb(t)
    BY <1>1 DEF TimerKept, listExpiredCb
<1>2. CASE getNextTimer(t)
    BY <1>2 DEF TimerKept, getNextTimer
<1>3. CASE Scan(t) \/ tickle(t) \/ Finish(t) \/ Reschedule(t) \/ Idle(t) \/ Back(t)
    BY <1>3 DEF TimerKept, timers, Scan, tickle, Finish, Reschedule, Idle, Back
<1>4. CASE IdleEnds(t) \/ Wait(t) \/ StopAnswered(t) \/ Wake(t) \/ Post(t) \/ Drain(t)
    BY <1>4 DEF TimerKept, timers, IdleEnds, Wait, StopAnswered, Wake, Post, Drain
<1> QED
    BY <1>1, <1>2, <1>3, <1>4 DEF Step

\* Every reachable state keeps callbacks and set together (timer.cc:45).
THEOREM TimersKept == Spec => []TimerKept
<1>1. Init => TimerKept
    BY DEF Init, TimerKept
<1>2. TimerKept /\ [Next]_vars => TimerKept'
    <2> SUFFICES ASSUME TimerKept, [Next]_vars PROVE TimerKept'
        OBVIOUS
    <2>1. CASE \E t \in Thread : Step(t)
        BY <2>1, StepKeeps
    <2>2. CASE \E t \in Thread : Operation(t)
        BY <2>2, OperationKeeps
    <2>3. CASE \E t \in Thread : Yield(t)
        BY <2>3 DEF TimerKept, Yield, timers
    <2>4. CASE stop \/ Join
        BY <2>4 DEF TimerKept, stop, Join, timers
    <2>5. CASE Tick
        BY <2>5 DEF TimerKept, Tick
    <2>6. CASE UNCHANGED vars
        BY <2>6 DEF TimerKept, vars, timers
    <2> QED
        BY <2>1, <2>2, <2>3, <2>4, <2>5, <2>6 DEF Next
<1> QED
    BY <1>1, <1>2, PTL DEF Spec

-----------------------------------------------------------------------------
(* Minima *)

\* A set of natural numbers has a smallest one.
LEMMA NatMin ==
    ASSUME NEW S \in SUBSET Nat, S # {}
    PROVE  \E x \in S : \A y \in S : x <= y
<1> DEFINE R == OpToRel(<, Nat)
<1>1. IsWellFoundedOn(R, Nat)
    BY NatLessThanWellFounded
<1> HIDE DEF R
<1>2. PICK x \in S : \A y \in S : ~(<<y, x>> \in R)
    BY <1>1, WFMin
<1>3. \A y \in S : <<y, x>> \in R <=> y < x
    BY DEF R, OpToRel
<1>4. \A y \in S : ~(y < x)
    BY <1>2, <1>3
<1> QED
    BY <1>4

\* So has a set of integers that is bounded below: Min finds it.
LEMMA IntMin ==
    ASSUME NEW S \in SUBSET Int, S # {}, NEW b \in Int, \A x \in S : b <= x
    PROVE  Min(S) \in S /\ \A y \in S : Min(S) <= y
<1>1. PICK x \in {n \in Nat : b + n \in S} : \A y \in {n \in Nat : b + n \in S} : x <= y
    <2>1. {n \in Nat : b + n \in S} \in SUBSET Nat
        OBVIOUS
    <2>2. PICK z \in S : TRUE
        OBVIOUS
    <2>3. z - b \in Nat /\ b + (z - b) = z
        OBVIOUS
    <2> QED
        BY <2>1, <2>3, NatMin
<1>2. \A y \in S : y - b \in Nat /\ b + (y - b) = y
    OBVIOUS
<1>3. b + x \in S /\ \A y \in S : b + x <= y
    BY <1>1, <1>2
<1> QED
    BY <1>3 DEF Min

\* The larger of 0 and n.
LEMMA MaxZero ==
    ASSUME NEW n \in Int
    PROVE  Max({0, n}) = IF n > 0 THEN n ELSE 0
<1>1. CASE n > 0
    <2>1. \A x \in {0, n} : (\A y \in {0, n} : x >= y) <=> x = n
        BY <1>1
    <2> QED
        BY <1>1, <2>1 DEF Max
<1>2. CASE ~(n > 0)
    <2>1. \A x \in {0, n} : (\A y \in {0, n} : x >= y) <=> x = 0
        BY <1>2
    <2> QED
        BY <1>2, <2>1 DEF Max
<1> QED
    BY <1>1, <1>2

-----------------------------------------------------------------------------
(* Frames *)

\* Only thread t goes on.
Touches(t) ==
    /\ at' \in [Thread -> Place] /\ after' \in [Thread -> Seq(Place)]
    /\ \A u \in Thread \ {t} : at'[u] = at[u] /\ after'[u] = after[u]

\* Goto moves one thread.
LEMMA GotoTouches ==
    ASSUME Frames, NEW t \in Thread, NEW pc \in Place, Goto(t, pc)
    PROVE  Touches(t) /\ at'[t] = pc /\ after'[t] = after[t]
BY DEF Frames, Goto, Touches

\* So does Call, with something to return to.
LEMMA CallTouches ==
    ASSUME Frames, NEW t \in Thread, NEW pc \in Place, NEW rest \in Seq(Place), Call(t, pc, rest)
    PROVE  Touches(t) /\ at'[t] = pc /\ after'[t] = rest
BY DEF Frames, Call, Touches

\* And Return, to the first of what is left.
LEMMA ReturnTouches ==
    ASSUME Frames, NEW t \in Thread, Len(after[t]) >= 1, Return(t)
    PROVE  /\ Touches(t) /\ at'[t] = after[t][1]
           /\ Len(after'[t]) = Len(after[t]) - 1
           /\ \A i \in 1..(Len(after[t]) - 1) : after'[t][i] = after[t][i + 1]
<1> DEFINE s == after[t]
<1>1. s \in Seq(Place)
    BY DEF Frames
<1> HIDE DEF s
<1>2. /\ Head(s) = s[1] /\ Head(s) \in Place /\ Tail(s) \in Seq(Place)
      /\ Len(Tail(s)) = Len(s) - 1
      /\ \A i \in 1..(Len(s) - 1) : Tail(s)[i] = s[i + 1]
    <2>1. s # <<>> /\ Len(s) \in Nat /\ Len(s) >= 1
        BY <1>1 DEF s
    <2> QED
        BY <1>1, <2>1
<1>3. Call(t, Head(s), Tail(s))
    BY DEF Return, s
<1>4. Touches(t) /\ at'[t] = Head(s) /\ after'[t] = Tail(s)
    BY <1>2, <1>3, CallTouches
<1> QED
    BY <1>2, <1>4 DEF s

\* if(need_tickle) tickle()
LEMMA TickleIfTouches ==
    ASSUME Frames, NEW t \in Thread, NEW pc \in Place, NEW need \in BOOLEAN, Len(after[t]) = 0,
           TickleIf(need, t, pc)
    PROVE  /\ Touches(t)
           /\ \/ ~need /\ at'[t] = pc /\ Len(after'[t]) = 0
              \/ need /\ at'[t] = "tickle" /\ Len(after'[t]) = 1 /\ after'[t][1] = pc
<1>1. CASE need
    <2>1. after[t] \in Seq(Place) /\ <<pc>> \in Seq(Place) /\ "tickle" \in Place
        BY DEF Frames, Place
    <2>2. /\ <<pc>> \o after[t] \in Seq(Place) /\ Len(<<pc>> \o after[t]) = 1
          /\ (<<pc>> \o after[t])[1] = pc
        BY <2>1
    <2>3. Call(t, "tickle", <<pc>> \o after[t])
        BY <1>1 DEF TickleIf
    <2>4. Touches(t) /\ at'[t] = "tickle" /\ after'[t] = <<pc>> \o after[t]
        BY <2>1, <2>2, <2>3, CallTouches
    <2> QED
        BY <1>1, <2>2, <2>4
<1>2. CASE ~need
    <2>1. Goto(t, pc)
        BY <1>2 DEF TickleIf
    <2> QED
        BY <1>2, <2>1, GotoTouches
<1> QED
    BY <1>1, <1>2

\* Thread t is in part p now, and the others are where they were.
Moved(t, p) ==
    /\ Frames' /\ Touches(t)
    /\ Where(t)' = p
    /\ \A u \in Thread \ {t} : Where(u)' = Where(u)

\* A thread that has what its place needs is in its part; the others stay in theirs.
LEMMA Lands ==
    ASSUME Frames, NEW t \in Thread, UNCHANGED threads, Touches(t), Frame(t)', NEW p, Where(t)' = p
    PROVE  Moved(t, p)
<1>1. ASSUME NEW u \in Thread \ {t} PROVE Frame(u)' /\ Where(u)' = Where(u)
    <2>1. at'[u] = at[u] /\ after'[u] = after[u] /\ Frame(u) /\ m_rootFiber' = m_rootFiber
        BY <1>1 DEF Frames, Touches, threads
    <2>2. Frame(u)'
        BY <2>1 DEF Frame, StopLeft
    <2>3. Where(u)' = Where(u)
        BY <2>1 DEF Where
    <2> QED
        BY <2>2, <2>3
<1>2. Frames'
    BY <1>1 DEF Frames, Touches
<1> QED
    BY <1>1, <1>2 DEF Moved

\* A thread with nothing to return to, before and after a step.
LEMMA PlainAt ==
    ASSUME Frames, NEW t \in Thread, at[t] \in Plain
    PROVE  Len(after[t]) = 0 /\ Where(t) = IF at[t] \in {"wait", "back"} THEN "idle" ELSE at[t]
<1>1. Frame(t)
    BY DEF Frames
<1>2. Len(after[t]) = 0
    BY <1>1 DEF Frame, Plain
<1>3. Where(t) = IF at[t] \in {"wait", "back"} THEN "idle" ELSE at[t]
    BY DEF Where, Plain
<1> QED
    BY <1>2, <1>3

\* A thread that gets to a place with nothing to return to.
LEMMA LandsPlain ==
    ASSUME Frames, NEW t \in Thread, UNCHANGED threads, Touches(t), NEW pc \in Plain,
           at'[t] = pc, Len(after'[t]) = 0
    PROVE  Moved(t, IF pc \in {"wait", "back"} THEN "idle" ELSE pc)
<1>1. Frame(t)'
    BY DEF Frame
<1>2. Where(t)' = IF pc \in {"wait", "back"} THEN "idle" ELSE pc
    BY DEF Where, Plain
<1> QED
    BY <1>1, <1>2, Lands

\* A thread that has a tickle to do first.
LEMMA LandsTickle ==
    ASSUME Frames, NEW t \in Thread, UNCHANGED threads, Touches(t),
           NEW pc \in {"main", "exec", "notask", "scan"},
           at'[t] = "tickle", Len(after'[t]) = 1, after'[t][1] = pc
    PROVE  Moved(t, pc)
<1>1. Frame(t)'
    BY DEF Frame
<1>2. Where(t)' = pc
    BY DEF Where
<1> QED
    BY <1>1, <1>2, Lands

\* if(need_tickle) tickle(): the thread counts as where it will return to.
LEMMA TickleIfLands ==
    ASSUME Frames, NEW t \in Thread, UNCHANGED threads, at[t] \in Plain,
           NEW pc \in {"main", "exec", "notask", "scan"}, NEW need \in BOOLEAN,
           TickleIf(need, t, pc)
    PROVE  Moved(t, pc) /\ (need => at'[t] = "tickle") /\ (~need => at'[t] = pc)
<1>1. pc \in Place /\ pc \in Plain
    BY DEF Place, Plain
<1>2. Len(after[t]) = 0
    BY PlainAt
<1>3. /\ Touches(t)
      /\ \/ ~need /\ at'[t] = pc /\ Len(after'[t]) = 0
         \/ need /\ at'[t] = "tickle" /\ Len(after'[t]) = 1 /\ after'[t][1] = pc
    BY <1>1, <1>2, TickleIfTouches
<1>4. CASE ~need
    <2>1. Moved(t, IF pc \in {"wait", "back"} THEN "idle" ELSE pc)
        BY <1>1, <1>3, <1>4, LandsPlain
    <2> QED
        BY <1>3, <1>4, <2>1
<1>5. CASE need
    BY <1>3, <1>5, LandsTickle
<1> QED
    BY <1>4, <1>5

\* Goto, between places with nothing to return to.
LEMMA GotoLands ==
    ASSUME Frames, NEW t \in Thread, UNCHANGED threads, at[t] \in Plain, NEW pc \in Plain,
           Goto(t, pc)
    PROVE  Moved(t, IF pc \in {"wait", "back"} THEN "idle" ELSE pc) /\ at'[t] = pc
<1>1. pc \in Place /\ Len(after[t]) = 0
    BY PlainAt DEF Place, Plain
<1>2. Touches(t) /\ at'[t] = pc /\ after'[t] = after[t]
    BY <1>1, GotoTouches
<1> QED
    BY <1>1, <1>2, LandsPlain

\* Call, to a place with nothing to return to.
LEMMA CallLands ==
    ASSUME Frames, NEW t \in Thread, UNCHANGED threads, NEW pc \in Plain, Call(t, pc, <<>>)
    PROVE  Moved(t, IF pc \in {"wait", "back"} THEN "idle" ELSE pc) /\ at'[t] = pc
<1>1. pc \in Place /\ <<>> \in Seq(Place) /\ Len(<<>>) = 0
    BY DEF Place, Plain
<1>2. Touches(t) /\ at'[t] = pc /\ after'[t] = <<>>
    BY <1>1, CallTouches
<1> QED
    BY <1>1, <1>2, LandsPlain

-----------------------------------------------------------------------------
(* Where each step leads *)

\* Scheduler::run
LEMMA ScanMoves ==
    ASSUME Frames, NEW t \in Thread, Scan(t)
    PROVE  Where(t) = "scan" /\ Moved(t, IF ForMe(t) # {} THEN "exec" ELSE "notask")
<1>1. at[t] = "scan" /\ at[t] \in Plain /\ UNCHANGED threads
    BY DEF Scan, Plain
<1>2. Where(t) = "scan"
    BY <1>1, PlainAt
<1>3. CASE ForMe(t) # {}
    <2> DEFINE it == Min(ForMe(t))
               need == it > 1 \/ it < Len(m_fibers)
    <2>1. TickleIf(need, t, "exec")
        BY <1>3 DEF Scan
    <2>2. need \in BOOLEAN
        OBVIOUS
    <2> HIDE DEF need
    <2>3. Moved(t, "exec")
        BY <1>1, <2>1, <2>2, TickleIfLands
    <2> QED
        BY <1>2, <1>3, <2>3
<1>4. CASE ForMe(t) = {}
    <2>1. TickleIf(m_fibers # <<>>, t, "notask")
        BY <1>4 DEF Scan
    <2>2. Moved(t, "notask")
        BY <1>1, <2>1, TickleIfLands
    <2> QED
        BY <1>2, <1>4, <2>2
<1> QED
    BY <1>3, <1>4

\* A task ends.
LEMMA FinishMoves ==
    ASSUME Frames, NEW t \in Thread, Finish(t)
    PROVE  Where(t) = "exec" /\ Moved(t, "scan")
<1>1. at[t] = "exec" /\ at[t] \in Plain /\ UNCHANGED threads /\ Goto(t, "scan") /\ "scan" \in Plain
    BY DEF Finish, Plain
<1>2. Moved(t, IF "scan" \in {"wait", "back"} THEN "idle" ELSE "scan")
    BY <1>1, GotoLands
<1> QED
    BY <1>1, <1>2, PlainAt

\* A task yields READY.
LEMMA YieldMoves ==
    ASSUME Frames, NEW t \in Thread, Yield(t)
    PROVE  Where(t) = "exec" /\ Moved(t, "ready")
<1>1. at[t] = "exec" /\ at[t] \in Plain /\ UNCHANGED threads /\ Goto(t, "ready") /\ "ready" \in Plain
    BY DEF Yield, Plain
<1>2. Moved(t, IF "ready" \in {"wait", "back"} THEN "idle" ELSE "ready")
    BY <1>1, GotoLands
<1> QED
    BY <1>1, <1>2, PlainAt

\* And is scheduled again.
LEMMA RescheduleMoves ==
    ASSUME Frames, NEW t \in Thread, Reschedule(t)
    PROVE  Where(t) = "ready" /\ Moved(t, "scan")
<1>1. at[t] = "ready" /\ at[t] \in Plain /\ UNCHANGED threads /\ TickleIf(m_fibers = <<>>, t, "scan")
    BY DEF Reschedule, Plain
<1>2. Moved(t, "scan")
    BY <1>1, TickleIfLands
<1> QED
    BY <1>1, <1>2, PlainAt

\* The idle fiber yields to run().
LEMMA BackMoves ==
    ASSUME Frames, NEW t \in Thread, Back(t)
    PROVE  Where(t) = "idle" /\ at[t] = "back" /\ Moved(t, "scan")
<1>1. at[t] = "back" /\ at[t] \in Plain /\ UNCHANGED threads /\ Goto(t, "scan") /\ "scan" \in Plain
    BY DEF Back, Plain
<1>2. Moved(t, IF "scan" \in {"wait", "back"} THEN "idle" ELSE "scan")
    BY <1>1, GotoLands
<1> QED
    BY <1>1, <1>2, PlainAt

\* run() has no task: it ends or enters idle().
LEMMA IdleMoves ==
    ASSUME Frames, NEW t \in Thread, Idle(t)
    PROVE  /\ Where(t) = "notask"
           /\ t \in idleTerm => Moved(t, IF t = Main THEN "join" ELSE "done")
           /\ t \notin idleTerm => Moved(t, "idle") /\ at'[t] = "next"
<1>1. at[t] = "notask" /\ at[t] \in Plain /\ UNCHANGED threads
    BY DEF Idle, Plain
<1>2. Where(t) = "notask"
    BY <1>1, PlainAt
<1>3. ASSUME t \in idleTerm PROVE Moved(t, IF t = Main THEN "join" ELSE "done")
    <2>1. /\ Goto(t, IF t = Main THEN "join" ELSE "done")
          /\ (IF t = Main THEN "join" ELSE "done") \in Plain
        BY <1>3 DEF Idle, Plain
    <2>2. ASSUME NEW pc \in {"join", "done"}, pc = IF t = Main THEN "join" ELSE "done"
          PROVE  Moved(t, pc)
        <3>1. Goto(t, pc) /\ pc \in Plain
            BY <2>1, <2>2
        <3>2. Moved(t, IF pc \in {"wait", "back"} THEN "idle" ELSE pc)
            BY <1>1, <3>1, GotoLands
        <3> QED
            BY <3>2
    <2> QED
        BY <2>2
<1>4. ASSUME t \notin idleTerm PROVE Moved(t, "idle") /\ at'[t] = "next"
    <2>1. Call(t, "next", <<"idle">>)
        BY <1>4 DEF Idle
    <2>2. "next" \in Place /\ <<"idle">> \in Seq(Place) /\ Len(<<"idle">>) = 1 /\ <<"idle">>[1] = "idle"
        BY DEF Place
    <2>3. Touches(t) /\ at'[t] = "next" /\ after'[t] = <<"idle">>
        BY <2>1, <2>2, CallTouches
    <2>4. Len(after'[t]) = 1 /\ after'[t][1] = "idle"
        BY <2>2, <2>3
    <2>5. Frame(t)'
        BY <2>3, <2>4 DEF Frame
    <2>6. Where(t)' = "idle"
        BY <2>3, <2>4 DEF Where
    <2> QED
        BY <1>1, <2>3, <2>5, <2>6, Lands
<1> QED
    BY <1>2, <1>3, <1>4

\* What a task does leaves the thread where it is.
LEMMA StaysMoved ==
    ASSUME Frames, NEW t \in Thread, UNCHANGED <<threads, at, after>>, NEW p, p = Where(t)
    PROVE  Moved(t, p)
<1>1. Touches(t)
    BY DEF Frames, Touches
<1>2. Frame(t)' /\ Where(t)' = Where(t)
    BY DEF Frames, Frame, StopLeft, Where, threads
<1> QED
    BY <1>1, <1>2, Lands

\* A timer operation leaves its thread where it is.
LEMMA InsertMoves ==
    ASSUME Frames, NEW t \in Thread, NEW i, NEW timer, Insert(t, i, timer), UNCHANGED threads,
           NEW pc \in {"main", "exec"}, at[t] = pc
    PROVE  Moved(t, pc)
<1>1. PICK front \in AtFront(i, timer.left) : TickleIf(front /\ ~m_tickled, t, pc)
    BY DEF Insert
<1>2. (front /\ ~m_tickled) \in BOOLEAN
    BY DEF AtFront
<1>3. at[t] \in Plain
    BY DEF Plain
<1> QED
    BY <1>1, <1>2, <1>3, TickleIfLands

\* So do all operations.
LEMMA OperationMoves ==
    ASSUME Frames, NEW t \in Thread, Operation(t)
    PROVE  at[t] \in {"main", "exec"} /\ Where(t) = at[t] /\ Moved(t, at[t])
<1>1. at[t] \in {"main", "exec"} /\ at[t] \in Plain /\ UNCHANGED threads
    BY DEF Operation, Operates, Plain, Schedule, addTimer, cancel, refresh, reset
<1>2. Where(t) = at[t]
    BY <1>1, PlainAt
<1>3. ASSUME NEW pc \in {"main", "exec"}, at[t] = pc PROVE Moved(t, pc)
    <2>1. CASE \E pin \in Thread \cup {Anyone} : Schedule(t, pin)
        <3>1. TickleIf(m_fibers = <<>>, t, pc)
            BY <1>3, <2>1 DEF Schedule
        <3> QED
            BY <1>1, <1>3, <3>1, TickleIfLands
    <2>2. CASE \E ms \in Delay, b \in BOOLEAN : addTimer(t, ms, b)
        BY <1>1, <1>3, <2>2, InsertMoves DEF addTimer
    <2>3. CASE \E i \in Timer : cancel(t, i) \/ refresh(t, i)
        <3>1. UNCHANGED <<threads, at, after>>
            BY <2>3 DEF cancel, refresh
        <3> QED
            BY <1>2, <1>3, <3>1, StaysMoved
    <2>4. CASE \E i \in Timer, ms \in Delay, b \in BOOLEAN : reset(t, i, ms, b)
        BY <1>1, <1>3, <2>4, InsertMoves DEF reset
    <2> QED
        BY <2>1, <2>2, <2>3, <2>4 DEF Operation
<1> QED
    BY <1>1, <1>2, <1>3

\* There are finitely many threads.
LEMMA WorkersCounted ==
    IsFiniteSet(Worker) /\ Cardinality(Worker) \in Nat /\ Main \notin Worker
<1>1. IsFiniteSet(Worker) /\ Main \notin Worker
    BY ThreadAssumption
<1>2. Cardinality(Worker) \in Nat
    BY <1>1, FS_CardinalityType
<1> QED
    BY <1>1, <1>2

\* A tickle returns.
LEMMA tickleMoves ==
    ASSUME Frames, Pool, NEW t \in Thread, tickle(t)
    PROVE  /\ at[t] = "tickle" /\ at'[t] \notin {"wait", "stopping", "post"}
           /\ \/ Where(t) \in {"main", "exec", "notask", "scan", "idle"} /\ Moved(t, Where(t))
              \/ t = Main /\ Where(t) = "stop" /\ Moved(t, "stop") /\ after'[t][1] # "early"
              \/ t = Main /\ Where(t) = "stop" /\ ~m_rootFiber /\ Moved(t, "join")
<1> DEFINE s == after[t]
           r == after'[t]
<1>1. at[t] = "tickle" /\ Return(t) /\ UNCHANGED threads /\ m_rootFiber' = m_rootFiber
    BY DEF tickle, threads
<1>2. Frame(t) /\ s \in Seq(Place) /\ Len(s) \in Nat
    BY DEF Frames
<1>3. Len(s) >= 1
    BY <1>1, <1>2 DEF Frame, Plain, StopLeft
<1>4. /\ Touches(t) /\ at'[t] = s[1]
      /\ Len(r) = Len(s) - 1
      /\ \A i \in 1..(Len(s) - 1) : r[i] = s[i + 1]
    BY <1>1, <1>3, ReturnTouches
<1> HIDE DEF s, r
<1>5. CASE Len(s) = 1 /\ s[1] \in {"main", "exec", "notask", "scan"}
    <2>1. Frame(t)' /\ Where(t) = s[1] /\ Where(t)' = s[1]
        BY <1>1, <1>4, <1>5 DEF Frame, Where, Plain, s, r
    <2>2. ASSUME NEW p, p = Where(t) PROVE Moved(t, p)
        BY <1>1, <1>4, <2>1, <2>2, Lands
    <2> QED
        BY <1>1, <1>4, <1>5, <2>1, <2>2
<1>6. CASE Len(s) = 1 /\ s[1] = "back"
    <2>1. Frame(t)' /\ Where(t) = "idle" /\ Where(t)' = "idle"
        BY <1>1, <1>4, <1>6 DEF Frame, Where, Plain, s, r
    <2>2. Moved(t, "idle")
        BY <1>1, <1>4, <2>1, Lands
    <2> QED
        BY <1>1, <1>4, <1>6, <2>1, <2>2
<1>7. CASE Len(s) = 2 /\ s[1] = "drain" /\ s[2] = "back"
    <2>1. Len(r) = 1 /\ r[1] = "back"
        BY <1>4, <1>7
    <2>2. Frame(t)' /\ Where(t) = "idle" /\ Where(t)' = "idle"
        BY <1>1, <1>4, <1>7, <2>1 DEF Frame, Where, s, r
    <2>3. Moved(t, "idle")
        BY <1>1, <1>4, <2>2, Lands
    <2> QED
        BY <1>1, <1>4, <1>7, <2>2, <2>3
<1>8. CASE t = Main /\ StopLeft(s) /\ m_rootFiber
    <2>1. /\ Len(s) >= 2 /\ s[Len(s) - 1] = "next" /\ s[Len(s)] = "root"
          /\ \A i \in 1..(Len(s) - 2) : s[i] = "tickle"
          /\ Len(s) <= Cardinality(Worker) + 2
        BY <1>8 DEF StopLeft
    <2>2. Cardinality(Worker) \in Nat
        BY WorkersCounted
    <2>3. CASE Len(s) = 2
        <3>1. s[1] = "next" /\ Len(r) = 1 /\ r[1] = "root"
            BY <1>4, <2>1, <2>3
        <3>2. Frame(t)' /\ Where(t) = "stop" /\ Where(t)' = "stop"
            BY <1>1, <1>4, <1>8, <3>1 DEF Frame, Where, s, r
        <3>3. Moved(t, "stop")
            BY <1>1, <1>4, <3>2, Lands
        <3> QED
            BY <1>1, <1>4, <1>8, <3>1, <3>2, <3>3 DEF r
    <2>4. CASE Len(s) > 2
        <3>1. s[1] = "tickle"
            BY <1>2, <2>1, <2>4
        <3>2. /\ Len(r) >= 2 /\ r[Len(r) - 1] = "next" /\ r[Len(r)] = "root"
              /\ \A i \in 1..(Len(r) - 2) : r[i] = "tickle"
              /\ Len(r) <= Cardinality(Worker) + 2
            BY <1>2, <1>4, <2>1, <2>2, <2>4
        <3>3. r[1] \in {"tickle", "next"}
            BY <1>2, <1>4, <2>4, <3>2
        <3>4. Frame(t)'
            BY <1>1, <1>4, <1>8, <3>1, <3>2 DEF Frame, StopLeft, r
        <3>5. Where(t) = "stop" /\ Where(t)' = "stop"
            BY <1>1, <1>4, <3>1, <3>3 DEF Where, s, r
        <3>6. Moved(t, "stop")
            BY <1>1, <1>4, <3>4, <3>5, Lands
        <3> QED
            BY <1>1, <1>4, <1>8, <3>1, <3>3, <3>5, <3>6 DEF r
    <2>5. Len(s) = 2 \/ Len(s) > 2
        <3>1. Len(s) \in Nat
            BY <1>2
        <3>2. Len(s) >= 2
            BY <2>1
        <3> QED
            BY <3>1, <3>2
    <2> QED
        BY <2>3, <2>4, <2>5
<1>9. CASE t = Main /\ StopLeft(s) /\ ~m_rootFiber
    <2>1. /\ Len(s) >= 1 /\ s[Len(s)] = "join"
          /\ \A i \in 1..(Len(s) - 1) : s[i] = "tickle"
          /\ Len(s) <= Cardinality(Worker) + 2
        BY <1>9 DEF StopLeft
    <2>2. Cardinality(Worker) \in Nat
        BY WorkersCounted
    <2>3. CASE Len(s) = 1
        <3>1. s[1] = "join" /\ Len(r) = 0
            BY <1>4, <2>1, <2>3
        <3>2. Frame(t)' /\ Where(t) = "stop" /\ Where(t)' = "join"
            BY <1>1, <1>4, <1>9, <3>1 DEF Frame, Where, Plain, s, r
        <3>3. Moved(t, "join")
            BY <1>1, <1>4, <3>2, Lands
        <3> QED
            BY <1>1, <1>4, <1>9, <3>1, <3>2, <3>3
    <2>4. CASE Len(s) > 1
        <3>1. s[1] = "tickle"
            BY <1>2, <2>1, <2>4
        <3>2. /\ Len(r) >= 1 /\ r[Len(r)] = "join"
              /\ \A i \in 1..(Len(r) - 1) : r[i] = "tickle"
              /\ Len(r) <= Cardinality(Worker) + 2
            BY <1>2, <1>4, <2>1, <2>2, <2>4
        <3>3. r[1] \in {"tickle", "join"}
            BY <1>2, <1>4, <2>4, <3>2
        <3>4. Frame(t)'
            BY <1>1, <1>4, <1>9, <3>1, <3>2 DEF Frame, StopLeft, r
        <3>5. Where(t) = "stop" /\ Where(t)' = "stop"
            BY <1>1, <1>4, <3>1, <3>3 DEF Where, s, r
        <3>6. Moved(t, "stop")
            BY <1>1, <1>4, <3>4, <3>5, Lands
        <3> QED
            BY <1>1, <1>4, <1>9, <3>1, <3>3, <3>5, <3>6 DEF r
    <2>5. Len(s) = 1 \/ Len(s) > 1
        <3>1. Len(s) \in Nat
            BY <1>2
        <3>2. Len(s) >= 1
            BY <2>1
        <3> QED
            BY <3>1, <3>2
    <2> QED
        BY <2>3, <2>4, <2>5
<1> QED
    BY <1>1, <1>2, <1>5, <1>6, <1>7, <1>8, <1>9 DEF Frame, Plain, s

\* IOManager::stopping, asked by idle() or by stop().
LEMMA getNextTimerMoves ==
    ASSUME Frames, NEW t \in Thread, getNextTimer(t)
    PROVE  /\ at[t] = "next" /\ at'[t] = "stopping" /\ after'[t] = after[t]
           /\ \/ Where(t) = "idle" /\ Moved(t, "idle")
              \/ t = Main /\ m_rootFiber /\ Where(t) = "stop" /\ Moved(t, "stop")
<1>1. at[t] = "next" /\ Goto(t, "stopping") /\ UNCHANGED threads /\ m_rootFiber' = m_rootFiber
    BY DEF getNextTimer, threads
<1>2. Touches(t) /\ at'[t] = "stopping" /\ after'[t] = after[t]
    <2>1. "stopping" \in Place
        BY DEF Place
    <2> QED
        BY <1>1, <2>1, GotoTouches
<1>3. Frame(t)
    BY DEF Frames
<1>4. CASE Len(after[t]) = 1 /\ after[t][1] = "idle"
    <2>1. Frame(t)' /\ Where(t) = "idle" /\ Where(t)' = "idle"
        BY <1>1, <1>2, <1>4 DEF Frame, Where
    <2>2. Moved(t, "idle")
        BY <1>1, <1>2, <2>1, Lands
    <2> QED
        BY <1>1, <1>2, <2>1, <2>2
<1>5. CASE t = Main /\ m_rootFiber /\ Len(after[t]) = 1 /\ after[t][1] \in {"early", "root"}
    <2>1. Frame(t)' /\ Where(t) = "stop" /\ Where(t)' = "stop"
        BY <1>1, <1>2, <1>5 DEF Frame, Where
    <2>2. Moved(t, "stop")
        BY <1>1, <1>2, <2>1, Lands
    <2> QED
        BY <1>1, <1>2, <1>5, <2>1, <2>2
<1> QED
    BY <1>1, <1>3, <1>4, <1>5 DEF Frame, Plain

\* Who asked.
LEMMA AskedWhere ==
    ASSUME Frames, NEW t \in Thread, NEW c, Asked(t, c)
    PROVE  /\ at[t] = "stopping" /\ after[t][1] = c
           /\ c \in {"idle", "early", "root"}
           /\ c = "idle" => Where(t) = "idle"
           /\ c # "idle" => t = Main /\ m_rootFiber /\ Where(t) = "stop"
<1>1. at[t] = "stopping" /\ Head(after[t]) = c /\ after[t] \in Seq(Place) /\ Frame(t)
    BY DEF Asked, Frames
<1>2. Len(after[t]) = 1
    BY <1>1 DEF Frame, Plain
<1>3. after[t][1] = c
    BY <1>1, <1>2
<1>4. \/ after[t][1] = "idle"
      \/ t = Main /\ m_rootFiber /\ after[t][1] \in {"early", "root"}
    BY <1>1 DEF Frame, Plain
<1>5. c = "idle" => Where(t) = "idle"
    BY <1>1, <1>3 DEF Where
<1>6. c # "idle" => Where(t) = "stop"
    BY <1>1, <1>3 DEF Where
<1> QED
    BY <1>1, <1>3, <1>4, <1>5, <1>6

\* idle() ends, and run() goes on.
LEMMA IdleEndsMoves ==
    ASSUME Frames, NEW t \in Thread, IdleEnds(t)
    PROVE  Where(t) = "idle" /\ at[t] = "stopping" /\ Moved(t, "scan") /\ at'[t] = "scan"
<1>1. Asked(t, "idle") /\ Call(t, "scan", <<>>) /\ UNCHANGED threads
    BY DEF IdleEnds
<1>2. Moved(t, IF "scan" \in {"wait", "back"} THEN "idle" ELSE "scan") /\ at'[t] = "scan"
    BY <1>1, CallLands DEF Plain
<1> QED
    BY <1>1, <1>2, AskedWhere

\* idle() goes to sleep.
LEMMA WaitMoves ==
    ASSUME Frames, NEW t \in Thread, Wait(t)
    PROVE  Where(t) = "idle" /\ at[t] = "stopping" /\ Moved(t, "idle") /\ at'[t] = "wait"
<1>1. Asked(t, "idle") /\ Call(t, "wait", <<>>) /\ UNCHANGED threads
    BY DEF Wait
<1>2. Moved(t, IF "wait" \in {"wait", "back"} THEN "idle" ELSE "wait") /\ at'[t] = "wait"
    BY <1>1, CallLands DEF Plain
<1> QED
    BY <1>1, <1>2, AskedWhere

\* epoll_wait has returned: a thread of idle() goes on in idle().
LEMMA IdleLands ==
    ASSUME Frames, NEW t \in Thread, UNCHANGED threads, Touches(t),
           \/ at'[t] = "back" /\ Len(after'[t]) = 0
           \/ at'[t] \in {"tickle", "expire", "post", "drain"} /\ Len(after'[t]) = 1 /\ after'[t][1] = "back"
           \/ /\ at'[t] \in {"tickle", "expire", "post"} /\ Len(after'[t]) = 2
              /\ after'[t][1] = "drain" /\ after'[t][2] = "back"
    PROVE  Moved(t, "idle")
<1>1. Frame(t)'
    BY DEF Frame, Plain
<1>2. Where(t)' = "idle"
    BY DEF Where
<1> QED
    BY <1>1, <1>2, Lands

\* Places of idle() after epoll_wait: what is left to do there.
LEMMA IdleLeft ==
    ASSUME Frames, NEW t \in Thread, at[t] \in {"expire", "post", "drain"}
    PROVE  /\ Where(t) = "idle" /\ after[t] \in Seq(Place)
           /\ \/ Len(after[t]) = 1 /\ after[t][1] = "back"
              \/ at[t] # "drain" /\ Len(after[t]) = 2 /\ after[t][1] = "drain" /\ after[t][2] = "back"
<1>1. Frame(t) /\ after[t] \in Seq(Place)
    BY DEF Frames
<1>2. \/ Len(after[t]) = 1 /\ after[t][1] = "back"
      \/ at[t] # "drain" /\ Len(after[t]) = 2 /\ after[t][1] = "drain" /\ after[t][2] = "back"
    BY <1>1 DEF Frame, Plain
<1>3. Where(t) = "idle"
    BY DEF Where
<1> QED
    BY <1>1, <1>2, <1>3

\* A return inside idle() leads to the drain of the pipe or to the yield.
LEMMA IdleReturns ==
    ASSUME Frames, NEW t \in Thread, UNCHANGED threads, at[t] \in {"expire", "post", "drain"},
           Return(t)
    PROVE  /\ Moved(t, "idle") /\ at'[t] \in {"drain", "back"}
           /\ at[t] = "drain" => at'[t] = "back"
<1>1. /\ after[t] \in Seq(Place)
      /\ \/ Len(after[t]) = 1 /\ after[t][1] = "back"
         \/ at[t] # "drain" /\ Len(after[t]) = 2 /\ after[t][1] = "drain" /\ after[t][2] = "back"
    BY IdleLeft
<1>2. /\ Touches(t) /\ at'[t] = after[t][1] /\ Len(after'[t]) = Len(after[t]) - 1
      /\ \A i \in 1..(Len(after[t]) - 1) : after'[t][i] = after[t][i + 1]
    BY <1>1, ReturnTouches
<1>3. \/ at'[t] = "back" /\ Len(after'[t]) = 0
      \/ at'[t] = "drain" /\ Len(after'[t]) = 1 /\ after'[t][1] = "back" /\ at[t] # "drain"
    BY <1>1, <1>2
<1>4. Moved(t, "idle")
    BY <1>2, <1>3, IdleLands
<1> QED
    BY <1>3, <1>4

\* A step to the post or the tickle stays inside idle().
LEMMA IdleGoes ==
    ASSUME Frames, NEW t \in Thread, UNCHANGED threads, at[t] \in {"expire", "post"},
           NEW pc \in {"post", "tickle"}, Goto(t, pc)
    PROVE  Moved(t, "idle") /\ at'[t] = pc
<1>1. \/ Len(after[t]) = 1 /\ after[t][1] = "back"
      \/ Len(after[t]) = 2 /\ after[t][1] = "drain" /\ after[t][2] = "back"
    BY IdleLeft
<1>2. Touches(t) /\ at'[t] = pc /\ after'[t] = after[t]
    <2>1. pc \in Place
        BY DEF Place
    <2> QED
        BY <2>1, GotoTouches
<1>3. Moved(t, "idle")
    BY <1>1, <1>2, IdleLands
<1> QED
    BY <1>2, <1>3

\* epoll_wait returns inside idle().
LEMMA WakeMoves ==
    ASSUME Frames, NEW t \in Thread, Wake(t)
    PROVE  Where(t) = "idle" /\ at[t] = "wait" /\ Moved(t, "idle") /\ at'[t] = "expire"
<1>1. at[t] = "wait" /\ at[t] \in Plain /\ UNCHANGED threads
    BY DEF Wake, Plain
<1>2. Where(t) = "idle"
    BY <1>1, PlainAt
<1>3. "expire" \in Place /\ <<"back">> \in Seq(Place) /\ <<"drain", "back">> \in Seq(Place)
    BY DEF Place
<1>4. CASE Call(t, "expire", <<"drain", "back">>)
    <2>1. Touches(t) /\ at'[t] = "expire" /\ after'[t] = <<"drain", "back">>
        BY <1>3, <1>4, CallTouches
    <2>2. Len(after'[t]) = 2 /\ after'[t][1] = "drain" /\ after'[t][2] = "back"
        BY <2>1
    <2>3. Moved(t, "idle")
        BY <1>1, <2>1, <2>2, IdleLands
    <2> QED
        BY <1>1, <1>2, <2>1, <2>3
<1>5. CASE Call(t, "expire", <<"back">>)
    <2>1. Touches(t) /\ at'[t] = "expire" /\ after'[t] = <<"back">>
        BY <1>3, <1>5, CallTouches
    <2>2. Len(after'[t]) = 1 /\ after'[t][1] = "back"
        BY <2>1
    <2>3. Moved(t, "idle")
        BY <1>1, <2>1, <2>2, IdleLands
    <2> QED
        BY <1>1, <1>2, <2>1, <2>3
<1> QED
    BY <1>4, <1>5 DEF Wake

\* With expired timers their callbacks are posted next.
LEMMA listExpiredCbMoves ==
    ASSUME Frames, NEW t \in Thread, listExpiredCb(t)
    PROVE  /\ Where(t) = "idle" /\ at[t] = "expire" /\ Moved(t, "idle") /\ at'[t] \in {"post", "drain", "back"}
           /\ {i \in DOMAIN m_timers : m_timers[i].left <= 0} # {} => at'[t] = "post"
<1> DEFINE expired == {i \in DOMAIN m_timers : m_timers[i].left <= 0}
<1>1. /\ at[t] = "expire" /\ UNCHANGED threads
      /\ IF expired = {} THEN Return(t) ELSE Goto(t, "post")
    BY DEF listExpiredCb
<1> HIDE DEF expired
<1>2. Where(t) = "idle"
    BY <1>1, IdleLeft
<1>3. CASE expired = {}
    BY <1>1, <1>2, <1>3, IdleReturns DEF expired
<1>4. CASE expired # {}
    BY <1>1, <1>2, <1>4, IdleGoes DEF expired
<1> QED
    BY <1>3, <1>4

\* Posting into an empty list is followed by a tickle.
LEMMA PostMoves ==
    ASSUME Frames, NEW t \in Thread, Post(t)
    PROVE  /\ Where(t) = "idle" /\ at[t] = "post" /\ Moved(t, "idle") /\ at'[t] \in {"tickle", "drain", "back"}
           /\ m_fibers = <<>> => at'[t] = "tickle"
<1>1. at[t] = "post" /\ UNCHANGED threads /\ IF m_fibers = <<>> THEN Goto(t, "tickle") ELSE Return(t)
    BY DEF Post
<1>2. Where(t) = "idle"
    BY <1>1, IdleLeft
<1>3. CASE m_fibers = <<>>
    BY <1>1, <1>2, <1>3, IdleGoes
<1>4. CASE m_fibers # <<>>
    BY <1>1, <1>2, <1>4, IdleReturns
<1> QED
    BY <1>3, <1>4

\* The pipe is read, then idle() yields.
LEMMA DrainMoves ==
    ASSUME Frames, NEW t \in Thread, Drain(t)
    PROVE  Where(t) = "idle" /\ at[t] = "drain" /\ Moved(t, "idle") /\ at'[t] = "back"
<1>1. at[t] = "drain" /\ UNCHANGED threads /\ Return(t)
    BY DEF Drain
<1> QED
    BY <1>1, IdleLeft, IdleReturns

\* What stop() does once it goes on: first a tickle.
LEMMA StopCallsLeft ==
    ASSUME Pool
    PROVE  /\ Head(StopCalls) = "tickle" /\ Tail(StopCalls) \in Seq(Place) /\ StopLeft(Tail(StopCalls))
           /\ Tail(StopCalls)[1] \in {"tickle", "next", "join"}
<1> DEFINE n == Cardinality(m_threads) + IF m_rootFiber THEN 1 ELSE 0
           a == [i \in 1..n |-> "tickle"]
           c == Cardinality(m_threads)
           w == Cardinality(Worker)
<1>1. c \in Nat /\ c <= w /\ w \in Nat /\ (m_threads # {} => c # 0)
    <2>1. IsFiniteSet(Worker) /\ m_threads \subseteq Worker
        BY WorkersCounted DEF Pool
    <2>2. IsFiniteSet(m_threads) /\ c <= w
        BY <2>1, FS_Subset
    <2>3. c \in Nat /\ w \in Nat
        BY <2>1, <2>2, FS_CardinalityType
    <2>4. m_threads # {} => c # 0
        BY <2>2, FS_EmptySet
    <2> QED
        BY <2>2, <2>3, <2>4
<1> HIDE DEF c, w
<1>2. /\ n \in Nat /\ n >= 1
      /\ m_rootFiber => n <= w + 1
      /\ ~m_rootFiber => n <= w
    <2>1. n = c + IF m_rootFiber THEN 1 ELSE 0
        BY DEF c
    <2> HIDE DEF n
    <2> QED
        BY <1>1, <2>1 DEF Pool
<1> HIDE DEF n
<1>3. a \in Seq(Place) /\ Len(a) = n /\ \A i \in 1..n : a[i] = "tickle"
    <2>1. "tickle" \in Place
        BY DEF Place
    <2> QED
        BY <1>2, <2>1
<1> HIDE DEF a
<1>4. CASE m_rootFiber
    <2> DEFINE s == a \o <<"next", "root">>
               r == Tail(s)
    <2>1. StopCalls = s
        BY <1>4 DEF StopCalls, n, a
    <2>2. <<"next", "root">> \in Seq(Place)
        BY DEF Place
    <2>3. /\ s \in Seq(Place) /\ Len(s) = n + 2 /\ s[n + 1] = "next" /\ s[n + 2] = "root"
          /\ \A i \in 1..n : s[i] = "tickle"
        BY <1>2, <1>3, <2>2
    <2> HIDE DEF s
    <2>4. s # <<>> /\ Len(s) \in Nat
        BY <1>2, <2>3
    <2>5. /\ Head(s) = s[1] /\ r \in Seq(Place) /\ Len(r) = Len(s) - 1
          /\ \A i \in 1..(Len(s) - 1) : r[i] = s[i + 1]
        BY <2>3, <2>4
    <2> HIDE DEF r
    <2>6. /\ Head(s) = "tickle" /\ Len(r) = n + 1 /\ r[n] = "next" /\ r[n + 1] = "root"
          /\ \A i \in 1..(n - 1) : r[i] = "tickle"
        BY <1>2, <2>3, <2>5
    <2>7. /\ Len(r) <= w + 2 /\ Len(r) >= 2 /\ r[Len(r) - 1] = "next" /\ r[Len(r)] = "root"
          /\ \A i \in 1..(Len(r) - 2) : r[i] = "tickle"
        BY <1>1, <1>2, <1>4, <2>6
    <2>8. StopLeft(r)
        BY <1>4, <2>7 DEF StopLeft, w
    <2>9. r[1] \in {"tickle", "next"}
        BY <1>2, <2>6
    <2> QED
        BY <2>1, <2>5, <2>6, <2>8, <2>9 DEF r
<1>5. CASE ~m_rootFiber
    <2> DEFINE s == a \o <<"join">>
               r == Tail(s)
    <2>1. StopCalls = s
        BY <1>5 DEF StopCalls, n, a
    <2>2. <<"join">> \in Seq(Place)
        BY DEF Place
    <2>3. /\ s \in Seq(Place) /\ Len(s) = n + 1 /\ s[n + 1] = "join"
          /\ \A i \in 1..n : s[i] = "tickle"
        BY <1>2, <1>3, <2>2
    <2> HIDE DEF s
    <2>4. s # <<>> /\ Len(s) \in Nat
        BY <1>2, <2>3
    <2>5. /\ Head(s) = s[1] /\ r \in Seq(Place) /\ Len(r) = Len(s) - 1
          /\ \A i \in 1..(Len(s) - 1) : r[i] = s[i + 1]
        BY <2>3, <2>4
    <2> HIDE DEF r
    <2>6. /\ Head(s) = "tickle" /\ Len(r) = n /\ r[n] = "join"
          /\ \A i \in 1..(n - 1) : r[i] = "tickle"
        BY <1>2, <2>3, <2>5
    <2>7. /\ Len(r) <= w + 2 /\ Len(r) >= 1 /\ r[Len(r)] = "join"
          /\ \A i \in 1..(Len(r) - 1) : r[i] = "tickle"
        BY <1>1, <1>2, <1>5, <2>6
    <2>8. StopLeft(r)
        BY <1>5, <2>7 DEF StopLeft, w
    <2>9. r[1] \in {"tickle", "join"}
        BY <1>2, <2>6
    <2> QED
        BY <2>1, <2>5, <2>6, <2>8, <2>9 DEF r
<1> QED
    BY <1>4, <1>5

\* stop() goes on to its tickles.
LEMMA StopGoesOn ==
    ASSUME Frames, Pool, UNCHANGED threads, Call(Main, Head(StopCalls), Tail(StopCalls))
    PROVE  Moved(Main, "stop") /\ at'[Main] = "tickle" /\ after'[Main][1] # "early"
<1> DEFINE r == Tail(StopCalls)
<1>1. Call(Main, "tickle", r) /\ "tickle" \in Place /\ Main \in Thread
    BY StopCallsLeft DEF Place, Thread
<1>2. r \in Seq(Place) /\ StopLeft(r) /\ r[1] \in {"tickle", "next", "join"}
    BY StopCallsLeft
<1> HIDE DEF r
<1>3. Touches(Main) /\ at'[Main] = "tickle" /\ after'[Main] = r /\ m_rootFiber' = m_rootFiber
    BY <1>1, <1>2, CallTouches DEF threads
<1>4. Frame(Main)'
    BY <1>2, <1>3 DEF Frame, StopLeft
<1>5. Where(Main)' = "stop"
    BY <1>2, <1>3 DEF Where
<1> QED
    BY <1>1, <1>2, <1>3, <1>4, <1>5, Lands

\* stop() has asked stopping(): it returns, tickles, joins or runs the root fiber.
LEMMA StopAnsweredMoves ==
    ASSUME Frames, Pool, NEW t \in Thread, StopAnswered(t)
    PROVE  /\ t = Main /\ m_rootFiber /\ Where(t) = "stop" /\ at[t] = "stopping"
           /\ \/ after[t][1] = "early" /\ Stopping(t) /\ Moved(t, "stopped") /\ at'[t] = "stopped"
              \/ Moved(t, "stop") /\ at'[t] = "tickle" /\ after'[t][1] # "early"
              \/ Stopping(t) /\ Moved(t, "join") /\ at'[t] = "join"
              \/ Moved(t, "scan") /\ at'[t] = "scan"
<1>1. UNCHANGED threads
    BY DEF StopAnswered
<1>2. CASE Asked(t, "early") /\ Stopping(t) /\ Call(t, "stopped", <<>>)
    <2>1. Moved(t, IF "stopped" \in {"wait", "back"} THEN "idle" ELSE "stopped") /\ at'[t] = "stopped"
        BY <1>1, <1>2, CallLands DEF Plain
    <2> QED
        BY <1>2, <2>1, AskedWhere
<1>3. CASE Asked(t, "early") /\ ~Stopping(t) /\ Call(t, Head(StopCalls), Tail(StopCalls))
    <2>1. t = Main /\ m_rootFiber /\ Where(t) = "stop" /\ at[t] = "stopping"
        BY <1>3, AskedWhere
    <2>2. Moved(Main, "stop") /\ at'[Main] = "tickle" /\ after'[Main][1] # "early"
        BY <1>1, <1>3, <2>1, StopGoesOn
    <2> QED
        BY <2>1, <2>2
<1>4. CASE Asked(t, "root") /\ Stopping(t) /\ Call(t, "join", <<>>)
    <2>1. Moved(t, IF "join" \in {"wait", "back"} THEN "idle" ELSE "join") /\ at'[t] = "join"
        BY <1>1, <1>4, CallLands DEF Plain
    <2> QED
        BY <1>4, <2>1, AskedWhere
<1>5. CASE Asked(t, "root") /\ Call(t, "scan", <<>>)
    <2>1. Moved(t, IF "scan" \in {"wait", "back"} THEN "idle" ELSE "scan") /\ at'[t] = "scan"
        BY <1>1, <1>5, CallLands DEF Plain
    <2> QED
        BY <1>5, <2>1, AskedWhere
<1> QED
    BY <1>2, <1>3, <1>4, <1>5 DEF StopAnswered

\* stop() is called.
LEMMA stopMoves ==
    ASSUME Frames, Pool, stop
    PROVE  /\ Where(Main) = "main" /\ at[Main] = "main" /\ Moved(Main, "stop")
           /\ at'[Main] \in {"tickle", "next"}
           /\ after'[Main][1] = "early" => m_threads = {}
<1>1. at[Main] = "main" /\ Main \in Thread /\ at[Main] \in Plain /\ UNCHANGED threads
      /\ m_rootFiber' = m_rootFiber
    BY DEF stop, Thread, Plain, threads
<1>2. Where(Main) = "main"
    BY <1>1, PlainAt
<1>3. CASE m_rootFiber /\ m_threads = {}
    <2>1. Call(Main, "next", <<"early">>)
        BY <1>3 DEF stop
    <2>2. "next" \in Place /\ <<"early">> \in Seq(Place) /\ Len(<<"early">>) = 1 /\ <<"early">>[1] = "early"
        BY DEF Place
    <2>3. Touches(Main) /\ at'[Main] = "next" /\ after'[Main] = <<"early">>
        BY <1>1, <2>1, <2>2, CallTouches
    <2>4. Len(after'[Main]) = 1 /\ after'[Main][1] = "early"
        BY <2>2, <2>3
    <2>5. Frame(Main)'
        BY <1>1, <1>3, <2>3, <2>4 DEF Frame
    <2>6. Where(Main)' = "stop"
        BY <2>3, <2>4 DEF Where
    <2>7. Moved(Main, "stop")
        BY <1>1, <2>3, <2>5, <2>6, Lands
    <2> QED
        BY <1>1, <1>2, <1>3, <2>3, <2>7
<1>4. CASE ~(m_rootFiber /\ m_threads = {})
    <2>1. Call(Main, Head(StopCalls), Tail(StopCalls))
        BY <1>4 DEF stop
    <2>2. Moved(Main, "stop") /\ at'[Main] = "tickle" /\ after'[Main][1] # "early"
        BY <1>1, <2>1, StopGoesOn
    <2> QED
        BY <1>1, <1>2, <2>2
<1> QED
    BY <1>3, <1>4

\* stop() returns.
LEMMA JoinMoves ==
    ASSUME Frames, Join
    PROVE  Where(Main) = "join" /\ at[Main] = "join" /\ Moved(Main, "stopped") /\ at'[Main] = "stopped"
<1>1. at[Main] = "join" /\ Main \in Thread /\ at[Main] \in Plain /\ UNCHANGED threads
      /\ Goto(Main, "stopped") /\ "stopped" \in Plain
    BY DEF Join, Thread, Plain
<1>2. Moved(Main, IF "stopped" \in {"wait", "back"} THEN "idle" ELSE "stopped") /\ at'[Main] = "stopped"
    BY <1>1, GotoLands
<1> QED
    BY <1>1, <1>2, PlainAt

-----------------------------------------------------------------------------
(* Roles and counts *)

\* A move that is right for the role of the thread.
Fits(t, p) ==
    /\ idleTerm \subseteq idleTerm' /\ idleTerm' \subseteq idleTerm \cup {t}
    /\ idleTerm' # {} => m_stopping'
    /\ t \in idleTerm' => p \in {"scan", "exec", "ready", "notask", "done", "join", "stopped"}
    /\ t \in Worker =>
          /\ Where(t) # "done" /\ p \in Loop \cup {"done"}
          /\ m_stopping' <=> m_stopping
          /\ p = "done" => t \in idleTerm'
    /\ t = Main =>
          /\ Where(t) # "stopped"
          /\ p \in {"main", "stop", "join", "stopped"} \/ (m_rootFiber /\ p \in Loop)
          /\ m_stopping' <=> p # "main"
          /\ p = "stop" /\ after'[t][1] = "early" => m_threads = {}
          /\ p = "stopped" => \A w \in Worker : Where(w) = "done"

\* A move that fits keeps every thread in its role.
LEMMA RolesKept ==
    ASSUME Pool, Roles, NEW t \in Thread, NEW p, UNCHANGED threads, Moved(t, p), Fits(t, p)
    PROVE  Roles'
<1>1. Where(t)' = p /\ \A u \in Thread \ {t} : Where(u)' = Where(u) /\ after'[u] = after[u]
    BY DEF Moved, Touches
<1>2. m_threads' = m_threads /\ m_rootFiber' = m_rootFiber /\ Thread = Worker \cup {Main} /\ Main \notin Worker
    BY WorkersCounted DEF threads, Thread
<1>3. (\A w \in Worker : Where(w) = "done" \/ (w \in m_threads /\ Where(w) \in Loop))'
    BY <1>1, <1>2 DEF Roles, Fits, Loop
<1>4. (\A w \in m_threads : Where(w) = "done" => w \in idleTerm)'
    <2> SUFFICES ASSUME NEW w \in m_threads, Where(w)' = "done" PROVE w \in idleTerm'
        BY <1>2
    <2>1. w \in Thread
        BY DEF Pool, Thread
    <2>2. CASE w = t
        BY <1>1, <1>2, <2>2 DEF Fits, Loop
    <2>3. CASE w # t
        BY <1>1, <2>1, <2>3 DEF Fits, Roles
    <2> QED
        BY <2>2, <2>3
<1>5. (\A u \in idleTerm :
          Where(u) \in {"scan", "exec", "ready", "notask", "done", "join", "stopped"})'
    BY <1>1 DEF Roles, Fits
<1>6. (Where(Main) = "stopped" => \A w \in Worker : Where(w) = "done")'
    BY <1>1, <1>2 DEF Roles, Fits
<1>7. (m_stopping <=> Where(Main) # "main")'
    BY <1>1, <1>2 DEF Roles, Fits
<1>8. (Where(Main) = "stop" /\ after[Main][1] = "early" => m_threads = {})'
    BY <1>1, <1>2 DEF Roles, Fits
<1>9. (Where(Main) \in {"main", "stop", "join", "stopped"} \/ (m_rootFiber /\ Where(Main) \in Loop))'
    BY <1>1, <1>2 DEF Roles, Fits
<1>10. (idleTerm \subseteq Thread /\ (idleTerm # {} => m_stopping))'
    BY DEF Roles, Fits
<1> QED
    BY <1>3, <1>4, <1>5, <1>6, <1>7, <1>8, <1>9, <1>10 DEF Roles

\* The number of threads in a part, after one has moved.
LEMMA InMoves ==
    ASSUME NEW t \in Thread, NEW p, Moved(t, p), NEW q
    PROVE  /\ Cardinality(In(q)) \in Nat
           /\ p = q /\ Where(t) # q => Cardinality(In(q)') = Cardinality(In(q)) + 1
           /\ p # q /\ Where(t) = q => Cardinality(In(q)') = Cardinality(In(q)) - 1
           /\ (p = q <=> Where(t) = q) => Cardinality(In(q)') = Cardinality(In(q))
<1>1. IsFiniteSet(Thread)
    BY WorkersCounted, FS_AddElement DEF Thread
<1>2. IsFiniteSet(In(q)) /\ Cardinality(In(q)) \in Nat
    <2>1. In(q) \subseteq Thread
        BY DEF In
    <2>2. IsFiniteSet(In(q))
        BY <1>1, <2>1, FS_Subset
    <2> QED
        BY <2>2, FS_CardinalityType
<1>3. t \in In(q) <=> Where(t) = q
    BY DEF In
<1>4. p = q => In(q)' = In(q) \cup {t}
    BY DEF In, Moved
<1>5. p # q => In(q)' = In(q) \ {t}
    BY DEF In, Moved
<1>6. t \notin In(q) => Cardinality(In(q) \cup {t}) = Cardinality(In(q)) + 1
    BY <1>2, FS_AddElement
<1>7. t \in In(q) => Cardinality(In(q) \ {t}) = Cardinality(In(q)) - 1
    BY <1>2, FS_RemoveElement
<1>8. (t \in In(q) => In(q) \cup {t} = In(q)) /\ (t \notin In(q) => In(q) \ {t} = In(q))
    OBVIOUS
<1> HIDE DEF In
<1> QED
    BY <1>2, <1>3, <1>4, <1>5, <1>6, <1>7, <1>8

\* What a move does to the two counters.
Counts(t, p) ==
    /\ m_activeThreadCount' = IF p = "exec" /\ Where(t) # "exec" THEN m_activeThreadCount + 1
                              ELSE IF p # "exec" /\ Where(t) = "exec" THEN m_activeThreadCount - 1
                              ELSE m_activeThreadCount
    /\ m_idleThreadCount' = IF p = "idle" /\ Where(t) # "idle" THEN m_idleThreadCount + 1
                            ELSE IF p # "idle" /\ Where(t) = "idle" THEN m_idleThreadCount - 1
                            ELSE m_idleThreadCount

\* The counters follow the moves.
LEMMA CountedKept ==
    ASSUME Counted, NEW t \in Thread, NEW p, Moved(t, p), Counts(t, p)
    PROVE  Counted'
<1>1. m_activeThreadCount' = Cardinality(In("exec")')
    BY InMoves DEF Counted, Counts
<1>2. m_idleThreadCount' = Cardinality(In("idle")')
    BY InMoves DEF Counted, Counts
<1> QED
    BY <1>1, <1>2 DEF Counted

-----------------------------------------------------------------------------
(* Every step moves one thread as its role allows *)

Core == Pool /\ Frames /\ Roles /\ Counted

Shift(t, p) == UNCHANGED threads /\ Moved(t, p) /\ Fits(t, p) /\ Counts(t, p)

\* A move that fits and is counted keeps the core.
LEMMA ShiftKeeps ==
    ASSUME Core, NEW t \in Thread, NEW p, Shift(t, p)
    PROVE  Core'
<1>1. Pool'
    BY DEF Core, Shift, Pool, threads
<1>2. Frames'
    BY DEF Shift, Moved
<1>3. Roles'
    BY RolesKept DEF Core, Shift
<1>4. Counted'
    BY CountedKept DEF Core, Shift
<1> QED
    BY <1>1, <1>2, <1>3, <1>4 DEF Core

\* From one part of the loop of run() to another, or to the same.
LEMMA LoopFits ==
    ASSUME Core, NEW t \in Thread, NEW p \in Loop, Where(t) \in Loop, t \in idleTerm => p # "idle",
           UNCHANGED <<idleTerm, m_stopping>>
    PROVE  Fits(t, p)
<1>1. idleTerm' = idleTerm /\ m_stopping' = m_stopping /\ Main \notin Worker
    BY WorkersCounted
<1>2. idleTerm' # {} => m_stopping'
    BY <1>1 DEF Core, Roles
<1>3. t \in idleTerm' => p \in {"scan", "exec", "ready", "notask", "done", "join", "stopped"}
    BY <1>1 DEF Loop
<1>4. t = Main => m_rootFiber /\ m_stopping' /\ p \notin {"main", "stop", "stopped"} /\ Where(t) # "stopped"
    BY <1>1 DEF Core, Roles, Loop
<1>5. Where(t) # "done" /\ p # "done"
    BY DEF Loop
<1> QED
    BY <1>1, <1>2, <1>3, <1>4, <1>5 DEF Fits

\* Main stays where it is.
LEMMA MainFits ==
    ASSUME Core, NEW p \in {"main", "stop"}, Where(Main) = p, UNCHANGED <<idleTerm, m_stopping>>,
           p = "stop" => after'[Main][1] = after[Main][1] \/ after'[Main][1] # "early"
    PROVE  Fits(Main, p)
<1>1. idleTerm' = idleTerm /\ m_stopping' = m_stopping /\ Main \notin Worker
    BY WorkersCounted
<1>2. Main \notin idleTerm
    BY DEF Core, Roles
<1>3. (idleTerm' # {} => m_stopping') /\ (m_stopping' <=> p # "main")
    BY <1>1 DEF Core, Roles
<1>4. p = "stop" /\ after'[Main][1] = "early" => m_threads = {}
    BY DEF Core, Roles
<1> QED
    BY <1>1, <1>2, <1>3, <1>4 DEF Fits

\* The search for a task counts the thread as active when it finds one.
LEMMA ScanShifts ==
    ASSUME Core, NEW t \in Thread, Scan(t)
    PROVE  Shift(t, IF ForMe(t) # {} THEN "exec" ELSE "notask")
<1>1. Frames /\ UNCHANGED <<threads, idleTerm, m_stopping>> /\ m_idleThreadCount' = m_idleThreadCount
    BY DEF Core, Scan, local
<1>2. Where(t) = "scan" /\ Moved(t, IF ForMe(t) # {} THEN "exec" ELSE "notask")
    BY <1>1, ScanMoves
<1>3. ASSUME NEW p \in {"exec", "notask"}, p = IF ForMe(t) # {} THEN "exec" ELSE "notask" PROVE Shift(t, p)
    <2>1. p \in Loop /\ Where(t) \in Loop
        BY <1>2 DEF Loop
    <2>2. Fits(t, p)
        BY <1>1, <2>1, LoopFits
    <2>3. m_activeThreadCount' = IF p = "exec" THEN m_activeThreadCount + 1 ELSE m_activeThreadCount
        BY <1>3 DEF Scan, tasks
    <2>4. Counts(t, p)
        BY <1>1, <1>2, <2>3 DEF Counts
    <2> QED
        BY <1>1, <1>2, <1>3, <2>2, <2>4 DEF Shift
<1> QED
    BY <1>3

\* A move inside the loop, whatever the action.
LEMMA LoopShifts ==
    ASSUME Core, NEW t \in Thread, NEW p \in Loop, Where(t) \in Loop, t \in idleTerm => p # "idle",
           UNCHANGED <<threads, idleTerm, m_stopping>>, Moved(t, p), Counts(t, p)
    PROVE  Shift(t, p)
BY LoopFits DEF Shift

\* A task that has ended no longer counts.
LEMMA FinishShifts ==
    ASSUME Core, NEW t \in Thread, Finish(t)
    PROVE  Shift(t, "scan")
<1>1. Frames /\ UNCHANGED <<threads, idleTerm, m_stopping>>
    BY DEF Core, Finish, local
<1>2. Where(t) = "exec" /\ Moved(t, "scan")
    BY <1>1, FinishMoves
<1>3. Counts(t, "scan")
    BY <1>2 DEF Counts, Finish
<1> QED
    BY <1>1, <1>2, <1>3, LoopShifts DEF Loop

\* Nor does one that has yielded.
LEMMA YieldShifts ==
    ASSUME Core, NEW t \in Thread, Yield(t)
    PROVE  Shift(t, "ready")
<1>1. Frames /\ UNCHANGED <<threads, idleTerm, m_stopping>>
    BY DEF Core, Yield, local
<1>2. Where(t) = "exec" /\ Moved(t, "ready")
    BY <1>1, YieldMoves
<1>3. Counts(t, "ready")
    BY <1>2 DEF Counts, Yield
<1> QED
    BY <1>1, <1>2, <1>3, LoopShifts DEF Loop

\* Scheduling it again changes no count.
LEMMA RescheduleShifts ==
    ASSUME Core, NEW t \in Thread, Reschedule(t)
    PROVE  Shift(t, "scan")
<1>1. Frames /\ UNCHANGED <<threads, idleTerm, m_stopping>>
    BY DEF Core, Reschedule, local
<1>2. Where(t) = "ready" /\ Moved(t, "scan")
    BY <1>1, RescheduleMoves
<1>3. Counts(t, "scan")
    BY <1>2 DEF Counts, Reschedule
<1> QED
    BY <1>1, <1>2, <1>3, LoopShifts DEF Loop

\* The yield of the idle fiber ends the count as idle.
LEMMA BackShifts ==
    ASSUME Core, NEW t \in Thread, Back(t)
    PROVE  Shift(t, "scan")
<1>1. Frames /\ UNCHANGED <<threads, idleTerm, m_stopping>>
    BY DEF Core, Back, local
<1>2. Where(t) = "idle" /\ Moved(t, "scan")
    BY <1>1, BackMoves
<1>3. Counts(t, "scan")
    BY <1>2 DEF Counts, Back, tasks
<1> QED
    BY <1>1, <1>2, <1>3, LoopShifts DEF Loop

\* The steps of idle() that leave the thread in it.
LEMMA IdleShifts ==
    ASSUME Core, NEW t \in Thread, Where(t) = "idle", Moved(t, "idle"),
           UNCHANGED <<threads, idleTerm, m_stopping, m_activeThreadCount, m_idleThreadCount>>
    PROVE  Shift(t, "idle")
<1>1. t \notin idleTerm
    BY DEF Core, Roles
<1>2. Counts(t, "idle")
    BY DEF Counts
<1> QED
    BY <1>1, <1>2, LoopShifts DEF Loop

\* From the wait to the drain the thread is in idle(), and counted as idle.
LEMMA WaitShifts ==
    ASSUME Core, NEW t \in Thread, Wait(t) \/ Wake(t) \/ listExpiredCb(t) \/ Post(t) \/ Drain(t)
    PROVE  Where(t) = "idle" /\ Shift(t, "idle")
<1>1. Frames
    BY DEF Core
<1>2. UNCHANGED <<threads, idleTerm, m_stopping, m_activeThreadCount, m_idleThreadCount>>
    BY DEF Wait, Wake, listExpiredCb, Post, Drain, tasks, local
<1>3. Where(t) = "idle" /\ Moved(t, "idle")
    BY <1>1, WaitMoves, WakeMoves, listExpiredCbMoves, PostMoves, DrainMoves
<1> QED
    BY <1>2, <1>3, IdleShifts

\* Main stays in its part, before or in stop().
LEMMA MainShifts ==
    ASSUME Core, NEW p \in {"main", "stop"}, Where(Main) = p, Moved(Main, p),
           UNCHANGED <<threads, idleTerm, m_stopping, m_activeThreadCount, m_idleThreadCount>>,
           p = "stop" => after'[Main][1] = after[Main][1] \/ after'[Main][1] # "early"
    PROVE  Shift(Main, p)
<1>1. Counts(Main, p)
    BY DEF Counts
<1>2. Fits(Main, p)
    BY MainFits
<1> QED
    BY <1>1, <1>2 DEF Shift

\* getNextTimer is asked by idle() or by stop().
LEMMA getNextTimerShifts ==
    ASSUME Core, NEW t \in Thread, getNextTimer(t)
    PROVE  \/ Where(t) = "idle" /\ Shift(t, "idle")
           \/ t = Main /\ Where(t) = "stop" /\ Shift(t, "stop")
<1>1. Frames /\ UNCHANGED <<threads, idleTerm, m_stopping, m_activeThreadCount, m_idleThreadCount>>
    BY DEF Core, getNextTimer, tasks
<1>2. /\ after'[t] = after[t]
      /\ \/ Where(t) = "idle" /\ Moved(t, "idle")
         \/ t = Main /\ Where(t) = "stop" /\ Moved(t, "stop")
    BY <1>1, getNextTimerMoves
<1>3. CASE Where(t) = "idle" /\ Moved(t, "idle")
    BY <1>1, <1>3, IdleShifts
<1>4. CASE t = Main /\ Where(t) = "stop" /\ Moved(t, "stop")
    BY <1>1, <1>2, <1>4, MainShifts
<1> QED
    BY <1>2, <1>3, <1>4

\* Operations are those of tasks, and of Main before stop().
LEMMA OperationShifts ==
    ASSUME Core, NEW t \in Thread, Operation(t)
    PROVE  /\ Where(t) = at[t] /\ Shift(t, at[t])
           /\ (t = Main /\ at[t] = "main") \/ at[t] = "exec"
<1>1. UNCHANGED <<threads, idleTerm, m_stopping, m_activeThreadCount, m_idleThreadCount>>
    <2>1. CASE \E pin \in Thread \cup {Anyone} : Schedule(t, pin)
        BY <2>1 DEF Schedule, local
    <2>2. CASE \E ms \in Delay, b \in BOOLEAN : addTimer(t, ms, b)
        BY <2>2 DEF addTimer, local, tasks
    <2>3. CASE \E i \in Timer : cancel(t, i) \/ refresh(t, i)
        BY <2>3 DEF cancel, refresh, local, tasks
    <2>4. CASE \E i \in Timer, ms \in Delay, b \in BOOLEAN : reset(t, i, ms, b)
        BY <2>4 DEF reset, local, tasks
    <2> QED
        BY <2>1, <2>2, <2>3, <2>4 DEF Operation
<1>2. at[t] \in {"main", "exec"} /\ Where(t) = at[t] /\ Moved(t, at[t])
    BY OperationMoves DEF Core
<1>3. CASE at[t] = "main"
    <2>1. t = Main
        BY <1>2, <1>3, WorkersCounted DEF Core, Roles, Loop, Thread
    <2>2. Shift(Main, "main")
        BY <1>1, <1>2, <1>3, <2>1, MainShifts
    <2> QED
        BY <1>2, <1>3, <2>1, <2>2
<1>4. CASE at[t] = "exec"
    <2>1. Counts(t, "exec")
        BY <1>1, <1>2, <1>4 DEF Counts
    <2>2. Shift(t, "exec")
        BY <1>1, <1>2, <1>4, <2>1, LoopShifts DEF Loop
    <2> QED
        BY <1>2, <1>4, <2>2
<1> QED
    BY <1>2, <1>3, <1>4

\* A tickle changes no part, but the last one of stop() without a root fiber leads to join.
LEMMA tickleShifts ==
    ASSUME Core, NEW t \in Thread, tickle(t)
    PROVE  /\ at[t] = "tickle" /\ at'[t] \notin {"wait", "stopping", "post"}
           /\ \/ Where(t) \in Loop \cup {"main", "stop"} /\ Shift(t, Where(t))
              \/ t = Main /\ Where(t) = "stop" /\ ~m_rootFiber /\ Shift(t, "join")
<1>1. Frames /\ Pool /\ UNCHANGED <<threads, idleTerm, m_stopping, m_activeThreadCount, m_idleThreadCount>>
    BY DEF Core, tickle, local, tasks
<1>2. /\ at[t] = "tickle" /\ at'[t] \notin {"wait", "stopping", "post"}
      /\ \/ Where(t) \in {"main", "exec", "notask", "scan", "idle"} /\ Moved(t, Where(t))
         \/ t = Main /\ Where(t) = "stop" /\ Moved(t, "stop") /\ after'[t][1] # "early"
         \/ t = Main /\ Where(t) = "stop" /\ ~m_rootFiber /\ Moved(t, "join")
    BY <1>1, tickleMoves
<1>3. ASSUME NEW p, p = Where(t), p \in {"exec", "notask", "scan", "idle"}, Moved(t, p) PROVE Shift(t, p)
    <2>1. Counts(t, p)
        BY <1>1, <1>3 DEF Counts
    <2>2. t \in idleTerm => p # "idle"
        BY <1>3 DEF Core, Roles
    <2>3. p \in Loop
        BY <1>3 DEF Loop
    <2> QED
        BY <1>1, <1>3, <2>1, <2>2, <2>3, LoopShifts
<1>4. CASE Where(t) = "main" /\ Moved(t, "main")
    <2>1. t = Main
        BY <1>4, WorkersCounted DEF Core, Roles, Loop, Thread
    <2>2. Shift(Main, "main")
        BY <1>1, <1>4, <2>1, MainShifts
    <2> QED
        BY <1>2, <1>4, <2>1, <2>2
<1>5. CASE t = Main /\ Where(t) = "stop" /\ Moved(t, "stop") /\ after'[t][1] # "early"
    <2>1. Shift(Main, "stop")
        BY <1>1, <1>5, MainShifts
    <2> QED
        BY <1>2, <1>5, <2>1
<1>6. CASE t = Main /\ Where(t) = "stop" /\ ~m_rootFiber /\ Moved(t, "join")
    <2>1. Counts(t, "join")
        BY <1>1, <1>6 DEF Counts
    <2>2. Fits(t, "join")
        BY <1>1, <1>6, WorkersCounted DEF Fits, Core, Roles
    <2> QED
        BY <1>1, <1>2, <1>6, <2>1, <2>2 DEF Shift
<1>7. CASE Where(t) \in {"exec", "notask", "scan", "idle"} /\ Moved(t, Where(t))
    <2>1. Shift(t, Where(t)) /\ Where(t) \in Loop
        BY <1>3, <1>7 DEF Loop
    <2> QED
        BY <1>2, <2>1
<1> QED
    BY <1>2, <1>4, <1>5, <1>6, <1>7

\* run() ends after its idle fiber, or the thread is counted as idle.
LEMMA IdleStepShifts ==
    ASSUME Core, NEW t \in Thread, Idle(t)
    PROVE  /\ Where(t) = "notask"
           /\ t \in idleTerm => Shift(t, IF t = Main THEN "join" ELSE "done")
           /\ t \notin idleTerm => Shift(t, "idle") /\ at'[t] = "next"
<1>1. Frames /\ UNCHANGED <<threads, idleTerm, m_stopping, m_activeThreadCount>>
    BY DEF Core, Idle, local, tasks
<1>2. /\ Where(t) = "notask"
      /\ t \in idleTerm => Moved(t, IF t = Main THEN "join" ELSE "done")
      /\ t \notin idleTerm => Moved(t, "idle") /\ at'[t] = "next"
    BY <1>1, IdleMoves
<1>3. ASSUME t \notin idleTerm PROVE Shift(t, "idle")
    <2>1. m_idleThreadCount' = m_idleThreadCount + 1
        BY <1>3 DEF Idle
    <2>2. Counts(t, "idle")
        BY <1>1, <1>2, <2>1 DEF Counts
    <2> QED
        BY <1>1, <1>2, <1>3, <2>2, LoopShifts DEF Loop
<1>4. ASSUME t \in idleTerm, NEW p \in {"join", "done"}, p = IF t = Main THEN "join" ELSE "done"
      PROVE  Shift(t, p)
    <2>1. m_idleThreadCount' = m_idleThreadCount
        BY <1>4 DEF Idle
    <2>2. Counts(t, p)
        BY <1>1, <1>2, <2>1 DEF Counts
    <2>3. m_stopping /\ Main \notin Worker
        BY <1>4, WorkersCounted DEF Core, Roles
    <2>4. Fits(t, p)
        BY <1>1, <1>2, <1>4, <2>3 DEF Fits
    <2> QED
        BY <1>1, <1>2, <1>4, <2>2, <2>4 DEF Shift
<1> QED
    BY <1>2, <1>3, <1>4

\* The idle fiber ends after stop() only, and is no longer counted.
LEMMA IdleEndsShifts ==
    ASSUME Core, NEW t \in Thread, IdleEnds(t)
    PROVE  Where(t) = "idle" /\ Shift(t, "scan")
<1>1. /\ Frames /\ UNCHANGED <<threads, m_stopping, m_activeThreadCount>>
      /\ idleTerm' = idleTerm \cup {t} /\ m_idleThreadCount' = m_idleThreadCount - 1 /\ m_stopping
    BY DEF Core, IdleEnds, Stopping, tasks
<1>2. Where(t) = "idle" /\ Moved(t, "scan")
    BY <1>1, IdleEndsMoves
<1>3. Counts(t, "scan")
    BY <1>1, <1>2 DEF Counts
<1>4. t = Main => m_rootFiber
    BY <1>2 DEF Core, Roles
<1>5. Fits(t, "scan")
    BY <1>1, <1>2, <1>4, WorkersCounted DEF Fits, Loop
<1> QED
    BY <1>1, <1>2, <1>3, <1>5 DEF Shift

\* stop() returns early only when it has no workers; otherwise it goes on to its
\* tickles, to join or, as the root fiber, to run().
LEMMA StopAnsweredShifts ==
    ASSUME Core, NEW t \in Thread, StopAnswered(t)
    PROVE  /\ t = Main /\ m_rootFiber /\ Where(t) = "stop" /\ at[t] = "stopping"
           /\ \/ Stopping(t) /\ Shift(t, "stopped")
              \/ Shift(t, "stop") /\ at'[t] = "tickle"
              \/ Stopping(t) /\ Shift(t, "join")
              \/ Shift(t, "scan") /\ at'[t] = "scan"
<1>1. Frames /\ Pool /\ UNCHANGED <<threads, idleTerm, m_stopping, m_activeThreadCount, m_idleThreadCount>>
    BY DEF Core, StopAnswered, tasks
<1>2. /\ t = Main /\ m_rootFiber /\ Where(t) = "stop" /\ at[t] = "stopping"
      /\ \/ after[t][1] = "early" /\ Stopping(t) /\ Moved(t, "stopped") /\ at'[t] = "stopped"
         \/ Moved(t, "stop") /\ at'[t] = "tickle" /\ after'[t][1] # "early"
         \/ Stopping(t) /\ Moved(t, "join") /\ at'[t] = "join"
         \/ Moved(t, "scan") /\ at'[t] = "scan"
    BY <1>1, StopAnsweredMoves
<1>3. m_stopping /\ Main \notin idleTerm /\ Main \notin Worker
    BY <1>2, WorkersCounted DEF Core, Roles
<1>4. ASSUME NEW p \in {"stopped", "join", "scan"}, Moved(t, p),
             p = "stopped" => after[t][1] = "early"
      PROVE  Shift(t, p)
    <2>1. Counts(t, p)
        BY <1>1, <1>2 DEF Counts
    <2>2. p = "stopped" => \A w \in Worker : Where(w) = "done"
        BY <1>2, <1>4 DEF Core, Roles
    <2>3. Fits(t, p)
        BY <1>1, <1>2, <1>3, <2>2 DEF Fits, Loop
    <2> QED
        BY <1>1, <1>4, <2>1, <2>3 DEF Shift
<1>5. CASE after[t][1] = "early" /\ Stopping(t) /\ Moved(t, "stopped") /\ at'[t] = "stopped"
    BY <1>2, <1>4, <1>5
<1>6. CASE Moved(t, "stop") /\ at'[t] = "tickle" /\ after'[t][1] # "early"
    <2>1. Shift(Main, "stop")
        BY <1>1, <1>2, <1>6, MainShifts
    <2> QED
        BY <1>2, <1>6, <2>1
<1>7. CASE Stopping(t) /\ Moved(t, "join") /\ at'[t] = "join"
    BY <1>2, <1>4, <1>7
<1>8. CASE Moved(t, "scan") /\ at'[t] = "scan"
    BY <1>2, <1>4, <1>8
<1> QED
    BY <1>2, <1>5, <1>6, <1>7, <1>8

\* stop() sets m_stopping as Main leaves "main".
LEMMA stopShifts ==
    ASSUME Core, stop
    PROVE  /\ Where(Main) = "main" /\ at[Main] = "main" /\ Shift(Main, "stop")
           /\ at'[Main] \in {"tickle", "next"}
<1>1. /\ Frames /\ Pool /\ UNCHANGED <<threads, idleTerm, m_activeThreadCount, m_idleThreadCount>>
      /\ m_stopping' = TRUE
    BY DEF Core, stop, tasks, local
<1>2. /\ Where(Main) = "main" /\ at[Main] = "main" /\ Moved(Main, "stop") /\ at'[Main] \in {"tickle", "next"}
      /\ after'[Main][1] = "early" => m_threads = {}
    BY <1>1, stopMoves
<1>3. Counts(Main, "stop")
    BY <1>1, <1>2 DEF Counts
<1>4. Main \notin idleTerm
    BY <1>2 DEF Core, Roles
<1>5. Fits(Main, "stop")
    BY <1>1, <1>2, <1>4, WorkersCounted DEF Fits
<1> QED
    BY <1>1, <1>2, <1>3, <1>5 DEF Shift

\* stop() returns when every worker has ended.
LEMMA JoinShifts ==
    ASSUME Core, Join
    PROVE  Where(Main) = "join" /\ Shift(Main, "stopped")
<1>1. Frames /\ UNCHANGED <<threads, idleTerm, m_stopping, m_activeThreadCount, m_idleThreadCount>>
    BY DEF Core, Join, tasks, local
<1>2. Where(Main) = "join" /\ Moved(Main, "stopped")
    BY <1>1, JoinMoves
<1>3. Counts(Main, "stopped")
    BY <1>1, <1>2 DEF Counts
<1>4. ASSUME NEW w \in Worker PROVE Where(w) = "done"
    <2>1. CASE w \in m_threads
        <3>1. at[w] = "done" /\ at[w] \in Plain /\ w \in Thread
            BY <2>1 DEF Join, Plain, Thread
        <3> QED
            BY <1>1, <3>1, PlainAt
    <2>2. CASE w \notin m_threads
        BY <2>2 DEF Core, Roles
    <2> QED
        BY <2>1, <2>2
<1>5. m_stopping
    BY <1>2 DEF Core, Roles
<1>6. Fits(Main, "stopped")
    BY <1>1, <1>2, <1>4, <1>5, WorkersCounted DEF Fits, Core, Roles
<1> QED
    BY <1>1, <1>2, <1>3, <1>6 DEF Shift

\* Nobody moves.
LEMMA CoreStays ==
    ASSUME Core, UNCHANGED <<threads, at, after, idleTerm, m_stopping, m_activeThreadCount,
           m_idleThreadCount>>
    PROVE  Core' /\ \A t \in Thread : Where(t)' = Where(t)
<1>1. \A t \in Thread : Where(t)' = Where(t)
    BY DEF Where
<1>2. Pool'
    BY DEF Core, Pool, threads
<1>3. Frames'
    BY DEF Core, Frames, Frame, StopLeft, threads
<1>4. Roles'
    <2>1. m_threads' = m_threads /\ m_rootFiber' = m_rootFiber /\ m_threads \subseteq Thread
          /\ Main \in Thread /\ Worker \subseteq Thread /\ idleTerm' = idleTerm /\ idleTerm \subseteq Thread
          /\ m_stopping' = m_stopping /\ after' = after
        BY DEF Core, Pool, Thread, threads, Roles
    <2> QED
        BY <1>1, <2>1 DEF Core, Roles
<1>5. Counted'
    <2>1. In("exec")' = In("exec") /\ In("idle")' = In("idle")
        BY <1>1 DEF In
    <2> QED
        BY <2>1 DEF Core, Counted
<1> QED
    BY <1>1, <1>2, <1>3, <1>4, <1>5 DEF Core

\* Initially workers look for tasks, and nobody is active or idle.
LEMMA CoreInit ==
    ASSUME Init
    PROVE  Core
<1>1. Pool
    <2>1. PICK pool \in Pools : m_rootFiber = pool[1] /\ m_threads = pool[2]
        BY DEF Init
    <2>2. pool \in BOOLEAN \X SUBSET Worker /\ pool # <<FALSE, {}>>
        BY PoolAssumption
    <2>3. pool = <<m_rootFiber, m_threads>> /\ m_rootFiber \in BOOLEAN /\ m_threads \in SUBSET Worker
        BY <2>1, <2>2
    <2> QED
        BY <2>2, <2>3 DEF Pool
<1>2. /\ at = [t \in Thread |-> IF t = Main THEN "main" ELSE IF t \in m_threads THEN "scan" ELSE "done"]
      /\ after = [t \in Thread |-> <<>>]
      /\ m_activeThreadCount = 0 /\ m_idleThreadCount = 0 /\ m_stopping = FALSE /\ idleTerm = {}
    BY DEF Init
<1>3. \A t \in Thread : at[t] \in {"main", "scan", "done"} /\ after[t] = <<>>
    BY <1>2
<1>4. Frames
    <2>1. at \in [Thread -> Place] /\ after \in [Thread -> Seq(Place)]
        BY <1>2 DEF Place
    <2>2. \A t \in Thread : at[t] \in Plain /\ Len(after[t]) = 0
        BY <1>3 DEF Plain
    <2> QED
        BY <2>1, <2>2 DEF Frames, Frame
<1>5. \A t \in Thread : Where(t) = at[t]
    BY <1>3 DEF Where
<1>6. Roles
    BY <1>1, <1>2, <1>5, WorkersCounted DEF Roles, Thread, Loop, Pool
<1>7. Counted
    <2>1. In("exec") = {} /\ In("idle") = {}
        BY <1>3, <1>5 DEF In
    <2>2. Cardinality({}) = 0
        BY FS_EmptySet
    <2> QED
        BY <1>2, <2>1, <2>2 DEF Counted
<1> QED
    BY <1>1, <1>4, <1>6, <1>7 DEF Core

-----------------------------------------------------------------------------
(* Timers *)

TimerRecord == [left : Int, m_ms : Delay, m_recurring : BOOLEAN]

Bounded == \E b \in Int : \A i \in DOMAIN m_timers : b <= m_timers[i].left

\* Delays are positive integers.
LEMMA DelayTypes ==
    Delay \subseteq Nat /\ 0 \notin Delay
BY BoundAssumption

\* The smallest left of all timers.
LEMMA EarliestLeft ==
    ASSUME TimerTypes, Bounded, DOMAIN m_timers # {}
    PROVE  /\ Earliest \in Int /\ \A i \in DOMAIN m_timers : Earliest <= m_timers[i].left
           /\ \E i \in DOMAIN m_timers : m_timers[i].left = Earliest
<1> DEFINE S == {m_timers[i].left : i \in DOMAIN m_timers}
<1>1. \A i \in DOMAIN m_timers : m_timers[i].left \in Int
    BY DEF TimerTypes
<1>2. S \in SUBSET Int /\ S # {}
    BY <1>1
<1>3. PICK b \in Int : \A i \in DOMAIN m_timers : b <= m_timers[i].left
    BY DEF Bounded
<1>4. \A x \in S : b <= x
    BY <1>3
<1> HIDE DEF S
<1>5. Min(S) \in S /\ \A y \in S : Min(S) <= y
    BY <1>2, <1>4, IntMin
<1>6. Earliest = Min(S)
    BY DEF Earliest, S
<1> QED
    BY <1>1, <1>5, <1>6 DEF S

\* What getNextTimer returns when there is a timer: not too long for any.
LEMMA NextTimerSoon ==
    ASSUME TimerTypes, Bounded, DOMAIN m_timers # {}, NEW n, n = Max({0, Earliest})
    PROVE  n \in Nat /\ Soon(n)
<1>1. Earliest \in Int /\ \A i \in DOMAIN m_timers : Earliest <= m_timers[i].left
    BY EarliestLeft
<1>2. n = IF Earliest > 0 THEN Earliest ELSE 0
    BY <1>1, MaxZero
<1>3. \A i \in DOMAIN m_timers : m_timers[i].left \in Int
    BY DEF TimerTypes
<1>4. n \in Nat
    BY <1>1, <1>2
<1>5. ASSUME NEW i \in DOMAIN m_timers PROVE n <= 0 \/ n <= m_timers[i].left
    BY <1>1, <1>2, <1>3
<1> QED
    BY <1>4, <1>5 DEF Soon

\* The timers of the set, with one of them new.
LEMMA InsertTypes ==
    ASSUME TimerTypes, Bounded, NEW t, NEW i \in Timer, NEW timer \in TimerRecord,
           timer.left <= timer.m_ms,
           Insert(t, i, timer), m_cb' \subseteq Timer
    PROVE  TimerTypes' /\ Bounded'
<1>1. m_timers' = With(i, timer)
    BY DEF Insert
<1>2. /\ DOMAIN m_timers' = DOMAIN m_timers \cup {i} /\ m_timers'[i] = timer
      /\ \A j \in DOMAIN m_timers : j # i => m_timers'[j] = m_timers[j]
      /\ m_timers' = [j \in DOMAIN m_timers' |-> m_timers'[j]]
    BY <1>1 DEF With
<1>3. \A j \in DOMAIN m_timers : m_timers[j] \in TimerRecord /\ m_timers[j].left <= m_timers[j].m_ms
    BY DEF TimerTypes, TimerRecord
<1>4. \A j \in DOMAIN m_timers' : m_timers'[j] \in TimerRecord /\ m_timers'[j].left <= m_timers'[j].m_ms
    BY <1>2, <1>3
<1>5. IsFiniteSet(DOMAIN m_timers')
    <2>1. IsFiniteSet(DOMAIN m_timers)
        BY DEF TimerTypes
    <2>2. IsFiniteSet(DOMAIN m_timers \cup {i})
        BY <2>1, FS_AddElement
    <2> QED
        BY <1>2, <2>2
<1>6. m_timers' \in [DOMAIN m_timers' -> TimerRecord]
    BY <1>2, <1>4
<1>7. DOMAIN m_timers' \subseteq Timer
    BY <1>2 DEF TimerTypes
<1>8. Bounded'
    <2>1. PICK b \in Int : \A j \in DOMAIN m_timers : b <= m_timers[j].left
        BY DEF Bounded
    <2>2. timer.left \in Int
        BY DEF TimerRecord
    <2>3. PICK c \in Int : c <= b /\ c <= timer.left
        <3>1. CASE b <= timer.left
            BY <3>1
        <3>2. CASE ~(b <= timer.left)
            BY <2>2, <3>2
        <3> QED
            BY <3>1, <3>2
    <2>4. \A j \in DOMAIN m_timers : m_timers[j].left \in Int
        BY <1>3 DEF TimerRecord
    <2>5. \A j \in DOMAIN m_timers' : c <= m_timers'[j].left
        BY <1>2, <2>1, <2>3, <2>4
    <2> QED
        BY <2>5 DEF Bounded
<1> QED
    BY <1>4, <1>5, <1>6, <1>7, <1>8 DEF TimerTypes, TimerRecord

\* Timers that are removed, and others whose time is set to what they are for, or less.
LEMMA FewerTypes ==
    ASSUME TimerTypes, Bounded, DOMAIN m_timers' \subseteq DOMAIN m_timers, m_cb' \subseteq Timer,
           m_timers' = [i \in DOMAIN m_timers' |-> m_timers'[i]],
           \A i \in DOMAIN m_timers' :
              /\ m_timers'[i] \in TimerRecord
              /\ m_timers'[i].m_ms = m_timers[i].m_ms
              /\ m_timers'[i].left \in {m_timers[i].left, m_timers[i].left - 1, m_timers[i].m_ms}
    PROVE  TimerTypes' /\ Bounded'
<1>1. \A i \in DOMAIN m_timers :
         m_timers[i].left \in Int /\ m_timers[i].m_ms \in Nat /\ m_timers[i].left <= m_timers[i].m_ms
    BY DelayTypes DEF TimerTypes
<1>2. IsFiniteSet(DOMAIN m_timers')
    BY FS_Subset DEF TimerTypes
<1>3. m_timers' \in [DOMAIN m_timers' -> TimerRecord]
    OBVIOUS
<1>4. \A i \in DOMAIN m_timers' : m_timers'[i].left <= m_timers'[i].m_ms
    BY <1>1
<1>5. Bounded'
    <2>1. PICK b \in Int : \A j \in DOMAIN m_timers : b <= m_timers[j].left
        BY DEF Bounded
    <2>2. PICK c \in Int : c < b /\ c <= 0
        <3>1. CASE b <= 0
            <4>1. b - 1 \in Int /\ b - 1 < b /\ b - 1 <= 0
                BY <3>1
            <4> QED
                BY <4>1
        <3>2. CASE ~(b <= 0)
            <4>1. 0 \in Int /\ 0 < b /\ 0 <= 0
                BY <3>2
            <4> QED
                BY <4>1
        <3> QED
            BY <3>1, <3>2
    <2>3. ASSUME NEW j \in DOMAIN m_timers' PROVE c <= m_timers'[j].left
        <3>1. b <= m_timers[j].left /\ m_timers[j].left \in Int /\ m_timers[j].m_ms \in Nat
            BY <1>1, <2>1
        <3>2. m_timers'[j].left \in {m_timers[j].left, m_timers[j].left - 1, m_timers[j].m_ms}
            OBVIOUS
        <3> QED
            BY <2>2, <3>1, <3>2
    <2> QED
        BY <2>3 DEF Bounded
<1> QED
    BY <1>2, <1>3, <1>4, <1>5 DEF TimerTypes, TimerRecord

\* Timer::reset puts the timer in again, with another time.
LEMMA ResetInserts ==
    ASSUME TimerTypes, NEW t, NEW i, NEW ms \in Delay, NEW b \in BOOLEAN, reset(t, i, ms, b)
    PROVE  \E timer \in TimerRecord : timer.left <= timer.m_ms /\ Insert(t, i, timer)
<1> DEFINE timer == [m_timers[i] EXCEPT
                        !.left = IF b THEN ms ELSE @ - m_timers[i].m_ms + ms,
                        !.m_ms = ms]
<1>2. Insert(t, i, timer)/\ i \in DOMAIN m_timers
    BY DEF reset
<1>3. /\ m_timers[i] \in TimerRecord /\ m_timers[i].left <= m_timers[i].m_ms
      /\ m_timers[i].m_ms \in Int /\ m_timers[i].left \in Int /\ ms \in Int
    BY <1>2, DelayTypes DEF TimerTypes, TimerRecord
<1>4. /\ timer \in TimerRecord /\ timer.m_ms = ms
      /\ timer.left = IF b THEN ms ELSE m_timers[i].left - m_timers[i].m_ms + ms
    <2>1. CASE b
        <3>1. timer = [m_timers[i] EXCEPT !.left = ms, !.m_ms = ms]
            BY <2>1
        <3> HIDE DEF timer
        <3> QED
            BY <1>3, <2>1, <3>1 DEF TimerRecord
    <2>2. CASE ~b
        <3>1. ASSUME NEW x, x = m_timers[i].left - m_timers[i].m_ms + ms
              PROVE  timer = [m_timers[i] EXCEPT !.left = x, !.m_ms = ms] /\ x \in Int
            BY <1>3, <2>2, <3>1
        <3> HIDE DEF timer
        <3>2. ASSUME NEW x, x = m_timers[i].left - m_timers[i].m_ms + ms
              PROVE  timer \in TimerRecord /\ timer.m_ms = ms /\ timer.left = x
            BY <1>3, <3>1, <3>2 DEF TimerRecord
        <3> QED
            BY <2>2, <3>2
    <2> QED
        BY <2>1, <2>2
<1> HIDE DEF timer
<1>5. timer.left <= timer.m_ms
    BY <1>3, <1>4
<1> QED
    BY <1>2, <1>4, <1>5

\* Operations keep the types of the timers, and none has more left than it is set to.
LEMMA OperationTypes ==
    ASSUME TimerTypes, Bounded, NEW t \in Thread, Operation(t)
    PROVE  TimerTypes' /\ Bounded'
<1>1. CASE \E pin \in Thread \cup {Anyone} : Schedule(t, pin)
    <2>1. UNCHANGED <<m_timers, m_cb>>
        BY <1>1 DEF Schedule, timers
    <2> QED
        BY <2>1 DEF TimerTypes, Bounded
<1>2. CASE \E ms \in Delay, b \in BOOLEAN : addTimer(t, ms, b)
    <2>1. PICK ms \in Delay, b \in BOOLEAN : addTimer(t, ms, b)
        BY <1>2
    <2>2. NewTimer \in Timer \ m_cb
        BY <2>1 DEF addTimer, NewTimer
    <2> DEFINE timer == [left |-> ms, m_ms |-> ms, m_recurring |-> b]
    <2>3. timer \in TimerRecord /\ timer.left <= timer.m_ms
        BY DelayTypes DEF TimerRecord
    <2>4. Insert(t, NewTimer, timer) /\ m_cb' \subseteq Timer
        BY <2>1, <2>2 DEF addTimer, TimerTypes
    <2> HIDE DEF timer
    <2> QED
        BY <2>2, <2>3, <2>4, InsertTypes
<1>3. CASE \E i \in Timer : cancel(t, i)
    <2>1. PICK i \in Timer : cancel(t, i)
        BY <1>3
    <2>2. m_timers' = [j \in DOMAIN m_timers \ {i} |-> m_timers[j]] /\ m_cb' = m_cb \ {i}
        BY <2>1 DEF cancel
    <2>3. \A j \in DOMAIN m_timers : m_timers[j] \in TimerRecord
        BY DEF TimerTypes, TimerRecord
    <2> QED
        BY <2>2, <2>3, FewerTypes DEF TimerTypes
<1>4. CASE \E i \in Timer : refresh(t, i)
    <2>1. PICK i \in Timer : refresh(t, i)
        BY <1>4
    <2>2. /\ m_timers' = [m_timers EXCEPT ![i].left = m_timers[i].m_ms] /\ m_cb' = m_cb
          /\ i \in DOMAIN m_timers
        BY <2>1 DEF refresh
    <2>3. \A j \in DOMAIN m_timers : m_timers[j] \in TimerRecord /\ m_timers[j].m_ms \in Int
        BY DelayTypes DEF TimerTypes, TimerRecord
    <2>4. m_timers = [j \in DOMAIN m_timers |-> m_timers[j]]
        BY DEF TimerTypes
    <2>5. /\ DOMAIN m_timers' = DOMAIN m_timers
          /\ m_timers' = [j \in DOMAIN m_timers' |-> m_timers'[j]]
          /\ \A j \in DOMAIN m_timers : j # i => m_timers'[j] = m_timers[j]
          /\ m_timers'[i] = [m_timers[i] EXCEPT !.left = m_timers[i].m_ms]
        BY <2>2, <2>4
    <2>6. /\ m_timers'[i] \in TimerRecord /\ m_timers'[i].m_ms = m_timers[i].m_ms
          /\ m_timers'[i].left = m_timers[i].m_ms
        BY <2>2, <2>3, <2>5 DEF TimerRecord
    <2>7. m_cb' \subseteq Timer
        BY <2>2 DEF TimerTypes
    <2> QED
        BY <2>3, <2>5, <2>6, <2>7, FewerTypes
<1>5. CASE \E i \in Timer, ms \in Delay, b \in BOOLEAN : reset(t, i, ms, b)
    <2>1. PICK i \in Timer, ms \in Delay, b \in BOOLEAN : reset(t, i, ms, b)
        BY <1>5
    <2>2. PICK timer \in TimerRecord : timer.left <= timer.m_ms /\ Insert(t, i, timer)
        BY <2>1, ResetInserts
    <2>3. m_cb' \subseteq Timer
        BY <2>1 DEF TimerTypes, reset
    <2> QED
        BY <2>2, <2>3, InsertTypes
<1> QED
    BY <1>1, <1>2, <1>3, <1>4, <1>5 DEF Operation

\* A recurring timer starts again, the other expired ones are gone.
LEMMA listExpiredCbTypes ==
    ASSUME TimerTypes, Bounded, NEW t \in Thread, listExpiredCb(t)
    PROVE  TimerTypes' /\ Bounded'
<1> DEFINE expired == {i \in DOMAIN m_timers : m_timers[i].left <= 0}
           gone == {i \in expired : ~m_timers[i].m_recurring}
<1>1. /\ m_timers' = [i \in DOMAIN m_timers \ gone |->
                         [m_timers[i] EXCEPT !.left = IF i \in expired THEN m_timers[i].m_ms ELSE @]]
      /\ m_cb' = m_cb \ gone
    BY DEF listExpiredCb
<1> HIDE DEF expired, gone
<1>2. \A i \in DOMAIN m_timers : m_timers[i] \in TimerRecord /\ m_timers[i].m_ms \in Int
    BY DelayTypes DEF TimerTypes, TimerRecord
<1>3. /\ DOMAIN m_timers' = DOMAIN m_timers \ gone /\ m_timers' = [i \in DOMAIN m_timers' |-> m_timers'[i]]
      /\ \A i \in DOMAIN m_timers' :
            m_timers'[i] = [m_timers[i] EXCEPT !.left = IF i \in expired THEN m_timers[i].m_ms ELSE @]
    BY <1>1
<1>4. ASSUME NEW i \in DOMAIN m_timers'
      PROVE  /\ m_timers'[i] \in TimerRecord /\ m_timers'[i].m_ms = m_timers[i].m_ms
             /\ m_timers'[i].left \in {m_timers[i].left, m_timers[i].left - 1, m_timers[i].m_ms}
    <2>1. m_timers[i] \in TimerRecord /\ m_timers[i].m_ms \in Int
        BY <1>2, <1>3
    <2>2. m_timers'[i] = [m_timers[i] EXCEPT !.left = IF i \in expired THEN m_timers[i].m_ms ELSE @]
        BY <1>3
    <2>3. CASE i \in expired
        BY <2>1, <2>2, <2>3 DEF TimerRecord
    <2>4. CASE i \notin expired
        BY <2>1, <2>2, <2>4 DEF TimerRecord
    <2> QED
        BY <2>3, <2>4
<1>5. m_cb' \subseteq Timer
    BY <1>1 DEF TimerTypes
<1> QED
    BY <1>3, <1>4, <1>5, FewerTypes

\* Time passes for every timer.
LEMMA TickTypes ==
    ASSUME TimerTypes, Bounded, Tick
    PROVE  TimerTypes' /\ Bounded'
<1>1. m_timers' = [i \in DOMAIN m_timers |-> [m_timers[i] EXCEPT !.left = @ - 1]] /\ m_cb' = m_cb
    BY DEF Tick
<1>2. \A i \in DOMAIN m_timers : m_timers[i] \in TimerRecord
    BY DEF TimerTypes, TimerRecord
<1>3. /\ DOMAIN m_timers' = DOMAIN m_timers /\ m_timers' = [i \in DOMAIN m_timers' |-> m_timers'[i]]
      /\ \A i \in DOMAIN m_timers' : m_timers'[i] = [m_timers[i] EXCEPT !.left = @ - 1]
    BY <1>1
<1>4. ASSUME NEW i \in DOMAIN m_timers'
      PROVE  /\ m_timers'[i] \in TimerRecord /\ m_timers'[i].m_ms = m_timers[i].m_ms
             /\ m_timers'[i].left = m_timers[i].left - 1
    BY <1>2, <1>3 DEF TimerRecord
<1>5. m_cb' \subseteq Timer
    BY <1>1 DEF TimerTypes
<1> QED
    BY <1>3, <1>4, <1>5, FewerTypes

-----------------------------------------------------------------------------
(* What a thread keeps to itself *)

\* One thread changes what it keeps.
LEMMA LocalKept ==
    ASSUME LocalInv, NEW t \in Thread, Touches(t),
           NEW c \in Nat, NEW n \in Nat \cup {None}, NEW s \in (0..MaxTimeout) \cup {None},
           cbs' = [cbs EXCEPT ![t] = c], next_timeout' = [next_timeout EXCEPT ![t] = n],
           sleep' = [sleep EXCEPT ![t] = s],
           c # 0 => at'[t] = "post", at'[t] = "wait" <=> s # None
    PROVE  LocalInv'
<1>1. /\ cbs' \in [Thread -> Nat] /\ next_timeout' \in [Thread -> Nat \cup {None}]
      /\ sleep' \in [Thread -> (0..MaxTimeout) \cup {None}]
      /\ cbs'[t] = c /\ sleep'[t] = s
      /\ \A u \in Thread \ {t} : cbs'[u] = cbs[u] /\ sleep'[u] = sleep[u]
    BY DEF LocalInv
<1>2. \A u \in Thread \ {t} : at'[u] = at[u]
    BY DEF Touches
<1>3. ASSUME NEW u \in Thread PROVE (cbs'[u] # 0 => at'[u] = "post") /\ (at'[u] = "wait" <=> sleep'[u] # None)
    BY <1>1, <1>2 DEF LocalInv
<1> QED
    BY <1>1, <1>3 DEF LocalInv

\* A step that leaves all of it alone.
LEMMA LocalStays ==
    ASSUME LocalInv, NEW t \in Thread, Touches(t), UNCHANGED <<next_timeout, sleep, cbs>>,
           at[t] \notin {"wait", "post"}, at'[t] # "wait"
    PROVE  LocalInv'
<1>1. \A u \in Thread \ {t} : at'[u] = at[u]
    BY DEF Touches
<1>2. cbs' = cbs /\ sleep' = sleep /\ next_timeout' = next_timeout
    OBVIOUS
<1>3. ASSUME NEW u \in Thread PROVE (cbs'[u] # 0 => at'[u] = "post") /\ (at'[u] = "wait" <=> sleep'[u] # None)
    BY <1>1, <1>2 DEF LocalInv
<1> QED
    BY <1>2, <1>3 DEF LocalInv

\* A thread that sleeps is in idle().
LEMMA NotAsleep ==
    ASSUME NEW t, at'[t] = "wait"
    PROVE  Where(t)' = "idle"
BY DEF Where

\* run() and stop() leave it alone.
LEMMA RunLocal ==
    ASSUME Core, LocalInv, NEW t \in Thread,
           Scan(t) \/ Finish(t) \/ Yield(t) \/ Reschedule(t) \/ Back(t) \/ Idle(t) \/ Operation(t) \/ tickle(t)
    PROVE  LocalInv'
<1>1. UNCHANGED <<next_timeout, sleep, cbs>> /\ at[t] \notin {"wait", "post"}
    <2>1. CASE Scan(t) \/ Finish(t) \/ Yield(t) \/ Reschedule(t) \/ Back(t) \/ Idle(t) \/ tickle(t)
        BY <2>1 DEF Scan, Finish, Yield, Reschedule, Back, Idle, tickle, local
    <2>2. CASE \E pin \in Thread \cup {Anyone} : Schedule(t, pin)
        BY <2>2 DEF Schedule, Operates, local
    <2>3. CASE \E ms \in Delay, b \in BOOLEAN : addTimer(t, ms, b)
        BY <2>3 DEF addTimer, Operates, local
    <2>4. CASE \E i \in Timer : cancel(t, i) \/ refresh(t, i)
        BY <2>4 DEF cancel, refresh, Operates, local
    <2>5. CASE \E i \in Timer, ms \in Delay, b \in BOOLEAN : reset(t, i, ms, b)
        BY <2>5 DEF reset, Operates, local
    <2> QED
        BY <2>1, <2>2, <2>3, <2>4, <2>5 DEF Operation
<1>2. Touches(t) /\ at'[t] # "wait"
    <2>1. CASE Scan(t)
        BY <2>1, ScanShifts, NotAsleep DEF Shift, Moved
    <2>2. CASE Finish(t) \/ Yield(t) \/ Reschedule(t) \/ Back(t)
        BY <2>2, FinishShifts, YieldShifts, RescheduleShifts, BackShifts, NotAsleep DEF Shift, Moved
    <2>3. CASE Idle(t)
        BY <2>3, IdleStepShifts, NotAsleep DEF Shift, Moved
    <2>4. CASE Operation(t)
        BY <2>4, OperationShifts, NotAsleep DEF Shift, Moved
    <2>5. CASE tickle(t)
        BY <2>5, tickleShifts DEF Shift, Moved
    <2> QED
        BY <2>1, <2>2, <2>3, <2>4, <2>5
<1> QED
    BY <1>1, <1>2, LocalStays

\* A function that changes nowhere.
LEMMA SameExcept ==
    ASSUME LocalInv, NEW t \in Thread
    PROVE  /\ cbs = [cbs EXCEPT ![t] = cbs[t]] /\ sleep = [sleep EXCEPT ![t] = sleep[t]]
           /\ next_timeout = [next_timeout EXCEPT ![t] = next_timeout[t]]
           /\ cbs[t] \in Nat /\ sleep[t] \in (0..MaxTimeout) \cup {None} /\ next_timeout[t] \in Nat \cup {None}
           /\ at[t] # "post" => cbs[t] = 0
           /\ at[t] = "wait" <=> sleep[t] # None
BY DEF LocalInv

\* What getNextTimer returns is a number or none.
LEMMA getNextTimerLocal ==
    ASSUME Core, LocalInv, TimerTypes, Bounded, NEW t \in Thread, getNextTimer(t)
    PROVE  LocalInv'
<1>1. at[t] = "next" /\ at'[t] = "stopping" /\ Touches(t)
    BY getNextTimerMoves DEF Core, Moved
<1> DEFINE n == IF DOMAIN m_timers = {} THEN None ELSE Max({0, Earliest})
<1>2. n \in Nat \cup {None}
    BY NextTimerSoon
<1>3. next_timeout' = [next_timeout EXCEPT ![t] = n] /\ sleep' = sleep /\ cbs' = cbs
    BY DEF getNextTimer
<1> HIDE DEF n
<1>4. /\ cbs = [cbs EXCEPT ![t] = cbs[t]] /\ sleep = [sleep EXCEPT ![t] = sleep[t]]
      /\ next_timeout = [next_timeout EXCEPT ![t] = next_timeout[t]]
      /\ cbs[t] \in Nat /\ sleep[t] \in (0..MaxTimeout) \cup {None} /\ next_timeout[t] \in Nat \cup {None}
      /\ at[t] # "post" => cbs[t] = 0
      /\ at[t] = "wait" <=> sleep[t] # None
    BY SameExcept
<1> QED
    BY <1>1, <1>2, <1>3, <1>4, LocalKept

\* The answer of stopping() is used up.
LEMMA EndsLocal ==
    ASSUME Core, LocalInv, NEW t \in Thread, IdleEnds(t) \/ StopAnswered(t)
    PROVE  LocalInv'
<1>1. at[t] = "stopping" /\ at'[t] # "wait" /\ Touches(t)
    <2>1. CASE IdleEnds(t)
        BY <2>1, IdleEndsMoves DEF Core, Moved
    <2>2. CASE StopAnswered(t)
        BY <2>2, StopAnsweredMoves DEF Core, Moved
    <2> QED
        BY <2>1, <2>2
<1>2. next_timeout' = [next_timeout EXCEPT ![t] = None] /\ sleep' = sleep /\ cbs' = cbs
    BY DEF IdleEnds, StopAnswered
<1>3. None \in Nat \cup {None}
    OBVIOUS
<1>4. /\ cbs = [cbs EXCEPT ![t] = cbs[t]] /\ sleep = [sleep EXCEPT ![t] = sleep[t]]
      /\ next_timeout = [next_timeout EXCEPT ![t] = next_timeout[t]]
      /\ cbs[t] \in Nat /\ sleep[t] \in (0..MaxTimeout) \cup {None} /\ next_timeout[t] \in Nat \cup {None}
      /\ at[t] # "post" => cbs[t] = 0
      /\ at[t] = "wait" <=> sleep[t] # None
    BY SameExcept
<1> QED
    BY <1>1, <1>2, <1>3, <1>4, LocalKept

\* The smaller of two numbers.
LEMMA MinTwo ==
    ASSUME NEW m \in Nat, NEW n \in Nat
    PROVE  Min({m, n}) \in {m, n} /\ Min({m, n}) <= m /\ Min({m, n}) <= n
<1>1. \E x \in {m, n} : \A y \in {m, n} : x <= y
    <2>1. CASE m <= n
        BY <2>1
    <2>2. CASE ~(m <= n)
        BY <2>2
    <2> QED
        BY <2>1, <2>2
<1> QED
    BY <1>1 DEF Min

\* The wait is no longer than MAX_TIMEOUT, nor than what getNextTimer returned.
LEMMA WaitLocal ==
    ASSUME Core, LocalInv, NEW t \in Thread, Wait(t)
    PROVE  LocalInv' /\ sleep'[t] \in 0..MaxTimeout /\ (next_timeout[t] # None => sleep'[t] <= next_timeout[t])
<1>1. at[t] = "stopping" /\ at'[t] = "wait" /\ Touches(t)
    BY WaitMoves DEF Core, Moved
<1> DEFINE s == IF next_timeout[t] = None THEN MaxTimeout ELSE Min({MaxTimeout, next_timeout[t]})
<1>2. MaxTimeout \in Nat /\ None \notin Int
    BY BoundAssumption
<1>3. s \in 0..MaxTimeout /\ (next_timeout[t] # None => s <= next_timeout[t])
    <2>1. CASE next_timeout[t] = None
        BY <1>2, <2>1
    <2>2. CASE next_timeout[t] # None
        <3>1. next_timeout[t] \in Nat /\ s = Min({MaxTimeout, next_timeout[t]})
            BY <2>2, SameExcept
        <3> HIDE DEF s
        <3>2. s \in {MaxTimeout, next_timeout[t]} /\ s <= MaxTimeout /\ s <= next_timeout[t]
            BY <1>2, <3>1, MinTwo
        <3> QED
            BY <1>2, <2>2, <3>1, <3>2
    <2> QED
        BY <2>1, <2>2
<1>4. /\ next_timeout' = [next_timeout EXCEPT ![t] = None] /\ sleep' = [sleep EXCEPT ![t] = s]
      /\ cbs' = cbs
    BY DEF Wait
<1> HIDE DEF s
<1>5. s # None /\ None \in Nat \cup {None} /\ s \in (0..MaxTimeout) \cup {None}
    BY <1>2, <1>3
<1>6. LocalInv'
    BY <1>1, <1>4, <1>5, SameExcept, LocalKept
<1>7. sleep'[t] = s
    BY <1>4 DEF LocalInv
<1> QED
    BY <1>3, <1>6, <1>7

\* A thread that wakes no longer sleeps.
LEMMA WakeLocal ==
    ASSUME Core, LocalInv, NEW t \in Thread, Wake(t)
    PROVE  LocalInv'
<1>1. at[t] = "wait" /\ at'[t] = "expire" /\ Touches(t)
    BY WakeMoves DEF Core, Moved
<1>2. sleep' = [sleep EXCEPT ![t] = None] /\ next_timeout' = next_timeout /\ cbs' = cbs
    BY DEF Wake
<1>3. None \in (0..MaxTimeout) \cup {None}
    OBVIOUS
<1>4. /\ cbs = [cbs EXCEPT ![t] = cbs[t]] /\ sleep = [sleep EXCEPT ![t] = sleep[t]]
      /\ next_timeout = [next_timeout EXCEPT ![t] = next_timeout[t]]
      /\ cbs[t] \in Nat /\ sleep[t] \in (0..MaxTimeout) \cup {None} /\ next_timeout[t] \in Nat \cup {None}
      /\ at[t] # "post" => cbs[t] = 0
      /\ at[t] = "wait" <=> sleep[t] # None
    BY SameExcept
<1> QED
    BY <1>1, <1>2, <1>3, <1>4, LocalKept

\* Callbacks are taken only by a thread that goes on to post them.
LEMMA listExpiredCbLocal ==
    ASSUME Core, LocalInv, TimerTypes, NEW t \in Thread, listExpiredCb(t)
    PROVE  LocalInv'
<1> DEFINE expired == {i \in DOMAIN m_timers : m_timers[i].left <= 0}
           c == Cardinality(expired)
<1>1. /\ at[t] = "expire" /\ at'[t] \in {"post", "drain", "back"} /\ Touches(t)
      /\ expired # {} => at'[t] = "post"
    BY listExpiredCbMoves DEF Core, Moved
<1>2. IsFiniteSet(expired)
    <2>1. IsFiniteSet(DOMAIN m_timers) /\ expired \subseteq DOMAIN m_timers
        BY DEF TimerTypes
    <2> QED
        BY <2>1, FS_Subset
<1>3. cbs' = [cbs EXCEPT ![t] = c] /\ next_timeout' = next_timeout /\ sleep' = sleep
    BY DEF listExpiredCb
<1> HIDE DEF expired
<1>4. c \in Nat /\ (c # 0 => expired # {})
    BY <1>2, FS_CardinalityType, FS_EmptySet
<1> HIDE DEF c
<1>5. /\ cbs = [cbs EXCEPT ![t] = cbs[t]] /\ sleep = [sleep EXCEPT ![t] = sleep[t]]
      /\ next_timeout = [next_timeout EXCEPT ![t] = next_timeout[t]]
      /\ cbs[t] \in Nat /\ sleep[t] \in (0..MaxTimeout) \cup {None} /\ next_timeout[t] \in Nat \cup {None}
      /\ at[t] # "post" => cbs[t] = 0
      /\ at[t] = "wait" <=> sleep[t] # None
    BY SameExcept
<1> QED
    BY <1>1, <1>3, <1>4, <1>5, LocalKept

\* And all of them are posted.
LEMMA PostLocal ==
    ASSUME Core, LocalInv, NEW t \in Thread, Post(t) \/ Drain(t)
    PROVE  LocalInv'
<1>1. CASE Post(t)
    <2>1. at[t] = "post" /\ at'[t] \in {"tickle", "drain", "back"} /\ Touches(t)
        BY <1>1, PostMoves DEF Core, Moved
    <2>2. cbs' = [cbs EXCEPT ![t] = 0] /\ next_timeout' = next_timeout /\ sleep' = sleep
        BY <1>1 DEF Post
    <2>3. /\ cbs = [cbs EXCEPT ![t] = cbs[t]] /\ sleep = [sleep EXCEPT ![t] = sleep[t]]
          /\ next_timeout = [next_timeout EXCEPT ![t] = next_timeout[t]]
          /\ cbs[t] \in Nat /\ sleep[t] \in (0..MaxTimeout) \cup {None} /\ next_timeout[t] \in Nat \cup {None}
          /\ at[t] # "post" => cbs[t] = 0
          /\ at[t] = "wait" <=> sleep[t] # None
        BY SameExcept
    <2> QED
        BY <2>1, <2>2, <2>3, LocalKept
<1>2. CASE Drain(t)
    <2>1. at[t] = "drain" /\ at'[t] = "back" /\ Touches(t)
        BY <1>2, DrainMoves DEF Core, Moved
    <2>2. UNCHANGED <<next_timeout, sleep, cbs>>
        BY <1>2 DEF Drain, local
    <2> QED
        BY <2>1, <2>2, LocalStays
<1> QED
    BY <1>1, <1>2

\* stop() keeps nothing of the kind.
LEMMA stopLocal ==
    ASSUME Core, LocalInv, stop \/ Join
    PROVE  LocalInv'
<1>1. UNCHANGED <<next_timeout, sleep, cbs>> /\ at[Main] \notin {"wait", "post"} /\ Main \in Thread
    BY DEF stop, Join, local, Thread
<1>2. Touches(Main) /\ at'[Main] # "wait"
    BY stopShifts, JoinShifts, NotAsleep DEF Shift, Moved
<1> QED
    BY <1>1, <1>2, LocalStays

\* A sleeper has a millisecond less.
LEMMA TickLocal ==
    ASSUME LocalInv, Tick
    PROVE  LocalInv'
<1>1. /\ at' = at /\ cbs' = cbs /\ next_timeout' = next_timeout
      /\ sleep' = [t \in Thread |-> IF sleep[t] = None THEN None ELSE sleep[t] - 1]
      /\ \A t \in Thread : at[t] = "wait" => sleep[t] > 0
    BY DEF Tick
<1>2. MaxTimeout \in Nat /\ None \notin Int
    BY BoundAssumption
<1>3. ASSUME NEW t \in Thread
      PROVE  /\ sleep'[t] \in (0..MaxTimeout) \cup {None}
             /\ sleep'[t] # None <=> sleep[t] # None
    <2>1. sleep'[t] = IF sleep[t] = None THEN None ELSE sleep[t] - 1
        BY <1>1
    <2>2. CASE sleep[t] = None
        BY <2>1, <2>2
    <2>3. CASE sleep[t] # None
        <3>1. sleep[t] \in 0..MaxTimeout /\ sleep[t] > 0 /\ sleep'[t] = sleep[t] - 1
            BY <1>1, <2>1, <2>3 DEF LocalInv
        <3>2. sleep'[t] \in 0..MaxTimeout
            BY <1>2, <3>1
        <3> QED
            BY <1>2, <2>3, <3>2
    <2> QED
        BY <2>2, <2>3
<1>4. sleep' \in [Thread -> (0..MaxTimeout) \cup {None}]
    BY <1>1, <1>3
<1> QED
    BY <1>1, <1>3, <1>4 DEF LocalInv

-----------------------------------------------------------------------------
(* Tasks *)

Pins == Thread \cup {Anyone}

TaskTypes ==
    /\ m_fibers \in Seq(Pins) /\ m_stopping \in BOOLEAN /\ m_tickled \in BOOLEAN /\ pipe \in BOOLEAN
    /\ ops \in 0..MaxOps

\* New tasks are for anyone, the others were there before.
FromTasks ==
    \A i \in 1..Len(m_fibers') : m_fibers'[i] = Anyone \/ \E j \in 1..Len(m_fibers) : m_fibers'[i] = m_fibers[j]

\* scheduleNoLock appends.
LEMMA PushTypes ==
    ASSUME m_fibers \in Seq(Pins), NEW pin \in Pins, NEW n \in Nat, Push(n, pin)
    PROVE  m_fibers' \in Seq(Pins) /\ (pin = Anyone => FromTasks)
<1> DEFINE new == [i \in 1..n |-> pin]
           s == m_fibers
           r == m_fibers'
<1>1. new \in Seq(Pins) /\ Len(new) = n /\ \A i \in 1..n : new[i] = pin
    OBVIOUS
<1>2. r = s \o new
    BY DEF Push
<1> HIDE DEF new, s, r
<1>3. s \in Seq(Pins) /\ Len(s) \in Nat
    BY DEF s
<1>4. /\ r \in Seq(Pins) /\ Len(r) = Len(s) + n
      /\ \A i \in 1..(Len(s) + n) : r[i] = IF i <= Len(s) THEN s[i] ELSE new[i - Len(s)]
    BY <1>1, <1>2, <1>3
<1>5. ASSUME NEW i \in 1..Len(r) PROVE r[i] = pin \/ \E j \in 1..Len(s) : r[i] = s[j]
    <2>1. CASE i <= Len(s)
        BY <1>3, <1>4, <2>1
    <2>2. CASE ~(i <= Len(s))
        <3>1. i - Len(s) \in 1..n
            BY <1>3, <1>4, <2>2
        <3> QED
            BY <1>1, <1>4, <2>2, <3>1
    <2> QED
        BY <2>1, <2>2
<1> QED
    BY <1>4, <1>5 DEF FromTasks, r, s

\* The first task that thread t may take.
LEMMA ForMeFirst ==
    ASSUME m_fibers \in Seq(Pins), NEW t \in Thread, ForMe(t) # {}
    PROVE  Min(ForMe(t)) \in 1..Len(m_fibers)
<1>1. DOMAIN m_fibers = 1..Len(m_fibers) /\ Len(m_fibers) \in Nat
    OBVIOUS
<1>2. ForMe(t) \in SUBSET Int /\ ForMe(t) \subseteq 1..Len(m_fibers)
    BY <1>1 DEF ForMe
<1>3. \A x \in ForMe(t) : 1 <= x
    BY <1>1, <1>2
<1>4. Min(ForMe(t)) \in ForMe(t)
    <2> HIDE DEF ForMe
    <2> QED
        BY <1>2, <1>3, IntMin
<1> QED
    BY <1>2, <1>4

\* run() takes one task out of the list.
LEMMA ScanTasks ==
    ASSUME m_fibers \in Seq(Pins), NEW t \in Thread, Scan(t)
    PROVE  m_fibers' \in Seq(Pins) /\ FromTasks /\ (ForMe(t) = {} => m_fibers' = m_fibers)
<1>1. CASE ForMe(t) = {}
    <2>1. m_fibers' = m_fibers
        BY <1>1 DEF Scan, tasks
    <2> QED
        BY <2>1 DEF FromTasks
<1>2. CASE ForMe(t) # {}
    <2> DEFINE s == m_fibers
               r == m_fibers'
               it == Min(ForMe(t))
               a == SubSeq(s, 1, it - 1)
               b == SubSeq(s, it + 1, Len(s))
    <2>1. r = a \o b
        BY <1>2 DEF Scan
    <2>2. it \in 1..Len(s) /\ s \in Seq(Pins) /\ Len(s) \in Nat
        BY <1>2, ForMeFirst
    <2> HIDE DEF it, s, r
    <2>3. a \in Seq(Pins) /\ Len(a) = it - 1 /\ \A i \in 1..(it - 1) : a[i] = s[i]
        BY <2>2
    <2>4. b \in Seq(Pins) /\ Len(b) = Len(s) - it /\ \A i \in 1..(Len(s) - it) : b[i] = s[it + i]
        BY <2>2
    <2> HIDE DEF a, b
    <2>5. /\ r \in Seq(Pins) /\ Len(r) = Len(a) + Len(b)
          /\ \A i \in 1..(Len(a) + Len(b)) : r[i] = IF i <= Len(a) THEN a[i] ELSE b[i - Len(a)]
        <3>1. a \in Seq(Pins) /\ b \in Seq(Pins)
            BY <2>3, <2>4
        <3> QED
            BY <2>1, <3>1
    <2>6. ASSUME NEW i \in 1..Len(r) PROVE \E j \in 1..Len(s) : r[i] = s[j]
        <3>1. CASE i <= Len(a)
            BY <2>2, <2>3, <2>4, <2>5, <3>1
        <3>2. CASE ~(i <= Len(a))
            <4>1. i - Len(a) \in 1..(Len(s) - it) /\ it + (i - Len(a)) \in 1..Len(s)
                BY <2>2, <2>3, <2>4, <2>5, <3>2
            <4>2. r[i] = s[it + (i - Len(a))]
                BY <2>2, <2>3, <2>4, <2>5, <3>2, <4>1
            <4> QED
                BY <4>1, <4>2
        <3> QED
            BY <3>1, <3>2
    <2> QED
        BY <1>2, <2>5, <2>6 DEF FromTasks, r, s
<1> QED
    BY <1>1, <1>2

\* Somebody who looks for the tasks, before and after a move.
LEMMA SeenKept ==
    ASSUME Core, TasksSeen, NEW t \in Thread, NEW p, Shift(t, p),
           idleTerm' # {} => m_fibers' = <<>> \/ (idleTerm # {} /\ FromTasks),
           m_fibers' # <<>> =>
              \/ Runs(t) /\ p \notin {"join", "stopped", "done"} /\ (p = "notask" => t \notin idleTerm')
              \/ m_fibers # <<>> /\ (Over(t) \/ ~Runs(t))
              \/ p = "main"
    PROVE  TasksSeen'
<1>1. /\ Where(t)' = p /\ \A u \in Thread \ {t} : Where(u)' = Where(u)
      /\ m_threads' = m_threads /\ m_rootFiber' = m_rootFiber
      /\ \A u \in Thread \ {t} : u \in idleTerm' <=> u \in idleTerm
    BY DEF Shift, Moved, Fits, threads
<1>2. (idleTerm # {} => \A i \in 1..Len(m_fibers) : m_fibers[i] = Anyone)'
    BY DEF TasksSeen, FromTasks
<1>3. ASSUME m_fibers' # <<>> PROVE (\E u \in Thread : Runs(u) /\ ~Over(u))'
    <2>1. CASE Runs(t) /\ p \notin {"join", "stopped", "done"} /\ (p = "notask" => t \notin idleTerm')
        <3>1. Runs(t)' /\ ~Over(t)'
            BY <1>1, <2>1 DEF Runs, Over
        <3> QED
            BY <3>1
    <2>2. CASE m_fibers # <<>> /\ (Over(t) \/ ~Runs(t))
        <3>1. PICK u \in Thread : Runs(u) /\ ~Over(u)
            BY <2>2 DEF TasksSeen
        <3>2. u # t
            BY <2>2, <3>1
        <3>3. Runs(u)' /\ ~Over(u)'
            BY <1>1, <3>1, <3>2 DEF Runs, Over
        <3> QED
            BY <3>3
    <2>3. CASE p = "main"
        <3>1. t = Main
            BY <2>3, WorkersCounted DEF Shift, Fits, Loop, Thread
        <3>2. CASE m_rootFiber
            <4>1. Runs(Main)' /\ ~Over(Main)'
                BY <1>1, <2>3, <3>1, <3>2 DEF Runs, Over
            <4> QED
                BY <3>1, <4>1
        <3>3. CASE ~m_rootFiber
            <4>1. PICK w \in m_threads : w \in Worker /\ w \in Thread /\ w # t
                BY <3>1, <3>3, WorkersCounted DEF Core, Pool, Thread
            <4>2. idleTerm' = {}
                BY <2>3, <3>1 DEF Shift, Fits
            <4>3. Where(w) \in Loop
                BY <1>1, <4>1, <4>2 DEF Core, Roles
            <4>4. Runs(w)' /\ ~Over(w)'
                BY <1>1, <4>1, <4>2, <4>3 DEF Runs, Over, Loop
            <4> QED
                BY <4>1, <4>4
        <3> QED
            BY <3>2, <3>3
    <2> QED
        BY <1>3, <2>1, <2>2, <2>3
<1> QED
    BY <1>2, <1>3 DEF TasksSeen

\* Threads in the loop of run() run tasks.
LEMMA LoopRuns ==
    ASSUME Core, NEW t \in Thread, Where(t) \in Loop
    PROVE  Runs(t)
BY DEF Core, Roles, Loop, Runs, Thread

\* What each step does to the tasks.
LEMMA RunSeen ==
    ASSUME Core, TasksSeen, TaskTypes, LocalInv, NEW t \in Thread,
           Step(t) \/ Yield(t) \/ Operation(t)
    PROVE  TasksSeen' /\ m_fibers' \in Seq(Pins)
<1>0. m_fibers \in Seq(Pins) /\ Anyone \in Pins
    BY DEF TaskTypes, Pins
<1>1. CASE Scan(t)
    <2>1. m_fibers' \in Seq(Pins) /\ FromTasks /\ (ForMe(t) = {} => m_fibers' = m_fibers)
        BY <1>0, <1>1, ScanTasks
    <2>2. Where(t) = "scan" /\ UNCHANGED idleTerm
        BY <1>1, ScanMoves DEF Core, Scan, local
    <2>3. Runs(t)
        BY <2>2, LoopRuns DEF Loop
    <2>4. Shift(t, IF ForMe(t) # {} THEN "exec" ELSE "notask")
        BY <1>1, ScanShifts
    <2>5. ForMe(t) = {} /\ m_fibers # <<>> => t \notin idleTerm
        <3>1. SUFFICES ASSUME m_fibers # <<>>, t \in idleTerm PROVE ForMe(t) # {}
            OBVIOUS
        <3>2. 1 \in DOMAIN m_fibers /\ 1 \in 1..Len(m_fibers)
            BY <1>0, <3>1
        <3>3. m_fibers[1] = Anyone
            BY <3>1, <3>2 DEF TasksSeen
        <3> QED
            BY <3>2, <3>3 DEF ForMe
    <2>6. CASE ForMe(t) # {}
        <3>1. Shift(t, "exec")
            BY <2>4, <2>6
        <3> QED
            BY <2>1, <2>2, <2>3, <3>1, SeenKept
    <2>7. CASE ForMe(t) = {}
        <3>1. Shift(t, "notask")
            BY <2>4, <2>7
        <3>2. m_fibers' # <<>> => t \notin idleTerm'
            BY <2>1, <2>2, <2>5, <2>7
        <3> QED
            BY <2>1, <2>2, <2>3, <3>1, <3>2, SeenKept
    <2> QED
        BY <2>6, <2>7
<1>2. CASE Finish(t) \/ Yield(t) \/ Back(t)
    <2>1. m_fibers' = m_fibers /\ idleTerm' = idleTerm
        BY <1>2 DEF Finish, Yield, Back, tasks, local
    <2>2. FromTasks
        BY <2>1 DEF FromTasks
    <2>3. Runs(t)
        BY <1>2, FinishMoves, YieldMoves, BackMoves, LoopRuns DEF Loop, Core
    <2>4. Shift(t, "scan") \/ Shift(t, "ready")
        BY <1>2, FinishShifts, YieldShifts, BackShifts
    <2> QED
        BY <1>0, <2>1, <2>2, <2>3, <2>4, SeenKept
<1>3. CASE Reschedule(t)
    <2>1. Push(1, Anyone) /\ idleTerm' = idleTerm
        BY <1>3 DEF Reschedule, local
    <2>2. m_fibers' \in Seq(Pins) /\ FromTasks
        BY <1>0, <2>1, PushTypes
    <2>3. Runs(t)
        BY <1>3, RescheduleMoves, LoopRuns DEF Loop, Core
    <2>4. Shift(t, "scan")
        BY <1>3, RescheduleShifts
    <2> QED
        BY <2>1, <2>2, <2>3, <2>4, SeenKept
<1>4. CASE Post(t)
    <2>1. Push(cbs[t], Anyone) /\ idleTerm' = idleTerm /\ cbs[t] \in Nat
        BY <1>4 DEF Post, LocalInv
    <2>2. m_fibers' \in Seq(Pins) /\ FromTasks
        BY <1>0, <2>1, PushTypes
    <2>3. Where(t) = "idle" /\ Shift(t, "idle")
        BY <1>4, WaitShifts
    <2>4. Runs(t)
        BY <2>3, LoopRuns DEF Loop
    <2> QED
        BY <2>1, <2>2, <2>3, <2>4, SeenKept
<1>5. CASE Wait(t) \/ Wake(t) \/ listExpiredCb(t) \/ Drain(t)
    <2>1. m_fibers' = m_fibers /\ idleTerm' = idleTerm
        BY <1>5 DEF Wait, Wake, listExpiredCb, Drain, tasks, local
    <2>2. FromTasks
        BY <2>1 DEF FromTasks
    <2>3. Where(t) = "idle" /\ Shift(t, "idle")
        BY <1>5, WaitShifts
    <2>4. Runs(t)
        BY <2>3, LoopRuns DEF Loop
    <2> QED
        BY <1>0, <2>1, <2>2, <2>3, <2>4, SeenKept
<1>6. CASE getNextTimer(t)
    <2>1. m_fibers' = m_fibers /\ idleTerm' = idleTerm
        BY <1>6 DEF getNextTimer, tasks
    <2>2. FromTasks
        BY <2>1 DEF FromTasks
    <2>3. Shift(t, "idle") \/ Shift(t, "stop")
        BY <1>6, getNextTimerShifts
    <2>4. Runs(t)
        BY <1>6, getNextTimerMoves, LoopRuns DEF Loop, Core, Runs
    <2> QED
        BY <1>0, <2>1, <2>2, <2>3, <2>4, SeenKept
<1>7. CASE Idle(t)
    <2>1. m_fibers' = m_fibers /\ idleTerm' = idleTerm
        BY <1>7 DEF Idle, tasks, local
    <2>2. FromTasks
        BY <2>1 DEF FromTasks
    <2>3. Where(t) = "notask"
        BY <1>7, IdleStepShifts
    <2>4. Runs(t)
        BY <2>3, LoopRuns DEF Loop
    <2>5. CASE t \notin idleTerm
        <3>1. Shift(t, "idle")
            BY <1>7, <2>5, IdleStepShifts
        <3> QED
            BY <1>0, <2>1, <2>2, <2>4, <3>1, SeenKept
    <2>6. CASE t \in idleTerm
        <3>1. Shift(t, "join") \/ Shift(t, "done")
            BY <1>7, <2>6, IdleStepShifts
        <3>2. Over(t)
            BY <2>3, <2>6 DEF Over
        <3> QED
            BY <1>0, <2>1, <2>2, <3>1, <3>2, SeenKept
    <2> QED
        BY <2>5, <2>6
<1>8. CASE IdleEnds(t)
    <2>1. m_fibers' = m_fibers /\ m_fibers = <<>>
        BY <1>8 DEF IdleEnds, Stopping, tasks
    <2>2. Shift(t, "scan")
        BY <1>8, IdleEndsShifts
    <2> QED
        BY <1>0, <2>1, <2>2, SeenKept
<1>9. CASE StopAnswered(t)
    <2>1. m_fibers' = m_fibers /\ idleTerm' = idleTerm
        BY <1>9 DEF StopAnswered, tasks
    <2>2. FromTasks
        BY <2>1 DEF FromTasks
    <2>3. /\ t = Main /\ m_rootFiber
          /\ \/ Stopping(t) /\ Shift(t, "stopped")
             \/ Shift(t, "stop")
             \/ Stopping(t) /\ Shift(t, "join")
             \/ Shift(t, "scan")
        BY <1>9, StopAnsweredShifts
    <2>4. Runs(t) /\ (Stopping(t) => m_fibers = <<>>)
        BY <2>3 DEF Runs, Stopping
    <2> QED
        BY <1>0, <2>1, <2>2, <2>3, <2>4, SeenKept
<1>10. CASE tickle(t)
    <2>1. m_fibers' = m_fibers /\ idleTerm' = idleTerm
        BY <1>10 DEF tickle, tasks, local
    <2>2. FromTasks
        BY <2>1 DEF FromTasks
    <2>3. CASE t = Main /\ ~m_rootFiber /\ Shift(t, "join")
        <3>1. ~Runs(t)
            BY <2>3, WorkersCounted DEF Runs, Core, Pool
        <3> QED
            BY <1>0, <2>1, <2>2, <2>3, <3>1, SeenKept
    <2>4. CASE Where(t) \in Loop \cup {"main", "stop"} /\ Shift(t, Where(t))
        <3>1. ASSUME NEW p, p = Where(t)
              PROVE  /\ Shift(t, p) /\ p \notin {"join", "stopped", "done"}
                     /\ (p = "notask" /\ t \in idleTerm') => Over(t)
            BY <2>1, <2>4, <3>1 DEF Loop, Over
        <3> QED
            BY <1>0, <2>1, <2>2, <3>1, SeenKept
    <2> QED
        BY <1>10, <2>3, <2>4, tickleShifts
<1>11. CASE Operation(t)
    <2>1. CASE at[t] = "main"
        <3>1. t = Main /\ Shift(t, "main")
            BY <1>11, <2>1, OperationShifts
        <3>2. idleTerm' = {}
            BY <3>1 DEF Shift, Fits
        <3>3. m_fibers' \in Seq(Pins)
            <4>1. CASE \E pin \in Thread \cup {Anyone} : Schedule(t, pin)
                BY <1>0, <4>1, PushTypes DEF Schedule, Pins
            <4>2. CASE ~\E pin \in Thread \cup {Anyone} : Schedule(t, pin)
                BY <1>0, <1>11, <4>2 DEF Operation, addTimer, cancel, refresh, reset, tasks
            <4> QED
                BY <4>1, <4>2
        <3> QED
            BY <3>1, <3>2, <3>3, SeenKept
    <2>2. CASE at[t] = "exec"
        <3>1. Where(t) = "exec" /\ Shift(t, "exec")
            BY <1>11, <2>2, OperationShifts
        <3>2. Runs(t)
            BY <3>1, LoopRuns DEF Loop
        <3>3. m_fibers' \in Seq(Pins) /\ FromTasks /\ idleTerm' = idleTerm
            <4>1. CASE \E pin \in Thread \cup {Anyone} : Schedule(t, pin)
                <5>1. Push(1, Anyone) /\ idleTerm' = idleTerm
                    BY <2>2, <4>1 DEF Schedule, local
                <5> QED
                    BY <1>0, <5>1, PushTypes
            <4>2. CASE ~\E pin \in Thread \cup {Anyone} : Schedule(t, pin)
                <5>1. m_fibers' = m_fibers /\ idleTerm' = idleTerm
                    BY <1>11, <4>2 DEF Operation, addTimer, cancel, refresh, reset, tasks, local
                <5> QED
                    BY <1>0, <5>1 DEF FromTasks
            <4> QED
                BY <4>1, <4>2
        <3> QED
            BY <3>1, <3>2, <3>3, SeenKept
    <2> QED
        BY <1>11, <2>1, <2>2, OperationShifts
<1> QED
    BY <1>1, <1>2, <1>3, <1>4, <1>5, <1>6, <1>7, <1>8, <1>9, <1>10, <1>11 DEF Step

\* stop() leaves the tasks alone.
LEMMA stopSeen ==
    ASSUME Core, TasksSeen, TaskTypes, stop \/ Join
    PROVE  TasksSeen' /\ m_fibers' \in Seq(Pins)
<1>1. m_fibers' = m_fibers /\ idleTerm' = idleTerm /\ m_fibers' \in Seq(Pins) /\ Main \in Thread
    BY DEF stop, Join, tasks, local, TaskTypes, Thread
<1>2. FromTasks
    BY <1>1 DEF FromTasks
<1>3. CASE stop
    <2>1. Shift(Main, "stop")
        BY <1>3, stopShifts
    <2> QED
        BY <1>1, <1>2, <2>1, SeenKept
<1>4. CASE Join
    <2>1. Where(Main) = "join" /\ Shift(Main, "stopped")
        BY <1>4, JoinShifts
    <2>2. Over(Main)
        BY <2>1 DEF Over
    <2> QED
        BY <1>1, <1>2, <2>1, <2>2, SeenKept
<1> QED
    BY <1>3, <1>4

-----------------------------------------------------------------------------
(* The creator alone *)

\* What must be shown of a step when the creator runs the tasks alone.
LEMMA AloneKept ==
    ASSUME Core, AloneInv, NEW t \in Thread, NEW p, Shift(t, p),
           at'[t] = "stopping" /\ next_timeout'[t] = None => DOMAIN m_timers' = {},
           m_threads = {} /\ t = Main /\ (Main \in idleTerm' \/ p \in {"join", "stopped"}) =>
              DOMAIN m_timers' = {} /\ m_fibers' = <<>> /\ p \in {"scan", "notask", "join", "stopped"}
    PROVE  AloneInv'
<1> SUFFICES ASSUME m_threads = {} PROVE AloneInv'
    BY DEF AloneInv, Shift, threads
<1>1. t = Main
    BY DEF Core, Roles, Shift, Fits, Thread
<1>2. Where(Main)' = p
    BY <1>1 DEF Shift, Moved
<1> QED
    BY <1>1, <1>2 DEF AloneInv

\* Steps that neither end an idle fiber nor the loop of run().
LEMMA AloneBusy ==
    ASSUME Core, AloneInv, NEW t \in Thread, NEW p, Shift(t, p), at'[t] # "stopping",
           Where(t) \in {"exec", "ready", "idle", "main", "stop"}, p \notin {"join", "stopped"},
           UNCHANGED idleTerm
    PROVE  AloneInv'
<1>1. m_threads = {} /\ t = Main => Main \notin idleTerm
    BY DEF AloneInv
<1> QED
    BY <1>1, AloneKept

\* Steps of a thread that has no task.
LEMMA AloneQuiet ==
    ASSUME Core, AloneInv, NEW t \in Thread, NEW p, Shift(t, p), at'[t] # "stopping",
           UNCHANGED <<idleTerm, m_timers>>, m_fibers = <<>> => m_fibers' = <<>>,
           m_fibers = <<>> => p \in {"scan", "notask", "join", "stopped"},
           p \in {"join", "stopped"} => Where(t) = "join" \/ t \in idleTerm
    PROVE  AloneInv'
<1>1. m_threads = {} /\ t = Main /\ (Main \in idleTerm \/ Where(Main) = "join")
         => DOMAIN m_timers = {} /\ m_fibers = <<>>
    BY DEF AloneInv
<1> QED
    BY <1>1, AloneKept

\* Who asks for the time to the next timer.
LEMMA NotStopping ==
    ASSUME Frames', NEW t \in Thread, at'[t] = "stopping"
    PROVE  Where(t)' \in {"idle", "stop"}
BY DEF Where

\* The steps of the threads.
LEMMA RunAlone ==
    ASSUME Core, AloneInv, LocalInv, TimerTypes, Bounded, NEW t \in Thread,
           Step(t) \/ Yield(t) \/ Operation(t)
    PROVE  AloneInv'
<1>1. CASE Scan(t)
    <2>1. Shift(t, IF ForMe(t) # {} THEN "exec" ELSE "notask")
        BY <1>1, ScanShifts
    <2>2. UNCHANGED <<idleTerm, m_timers>> /\ (ForMe(t) = {} => m_fibers' = m_fibers)
        BY <1>1 DEF Scan, local, timers, tasks
    <2>3. m_fibers = <<>> => ForMe(t) = {}
        BY DEF ForMe
    <2>4. ASSUME NEW p \in {"exec", "notask"}, p = IF ForMe(t) # {} THEN "exec" ELSE "notask" PROVE AloneInv'
        <3>1. Shift(t, p) /\ (m_fibers = <<>> => p = "notask" /\ m_fibers' = <<>>)
            BY <2>1, <2>2, <2>3, <2>4
        <3>2. at'[t] # "stopping"
            BY <3>1, NotStopping DEF Shift, Moved
        <3> QED
            BY <2>2, <3>1, <3>2, AloneQuiet
    <2> QED
        BY <2>4
<1>2. CASE Finish(t) \/ Yield(t) \/ Back(t) \/ Reschedule(t)
    <2>1. UNCHANGED idleTerm
        BY <1>2 DEF Finish, Yield, Back, Reschedule, local
    <2>2. Where(t) \in {"exec", "idle", "ready"}
        BY <1>2, FinishMoves, YieldMoves, BackMoves, RescheduleMoves DEF Core
    <2>3. Shift(t, "scan") \/ Shift(t, "ready")
        BY <1>2, FinishShifts, YieldShifts, BackShifts, RescheduleShifts
    <2>4. at'[t] # "stopping"
        BY <2>3, NotStopping DEF Shift, Moved
    <2> QED
        BY <2>1, <2>2, <2>3, <2>4, AloneBusy
<1>3. CASE Wait(t) \/ Wake(t) \/ listExpiredCb(t) \/ Post(t) \/ Drain(t)
    <2>1. UNCHANGED idleTerm
        BY <1>3 DEF Wait, Wake, listExpiredCb, Post, Drain, local
    <2>2. Where(t) = "idle" /\ Shift(t, "idle")
        BY <1>3, WaitShifts
    <2>3. at'[t] # "stopping"
        BY <1>3, WaitMoves, WakeMoves, listExpiredCbMoves, PostMoves, DrainMoves DEF Core
    <2> QED
        BY <2>1, <2>2, <2>3, AloneBusy
<1>4. CASE getNextTimer(t)
    <2>1. UNCHANGED <<idleTerm, m_timers>>
        BY <1>4 DEF getNextTimer
    <2>2. next_timeout'[t] = None => DOMAIN m_timers' = {}
        <3>1. next_timeout'[t] = IF DOMAIN m_timers = {} THEN None ELSE Max({0, Earliest})
            BY <1>4 DEF getNextTimer, LocalInv
        <3>2. DOMAIN m_timers # {} => next_timeout'[t] \in Nat
            BY <3>1, NextTimerSoon
        <3> QED
            BY <2>1, <3>2, BoundAssumption
    <2>3. (Where(t) = "idle" /\ Shift(t, "idle")) \/ (Where(t) = "stop" /\ Shift(t, "stop"))
        BY <1>4, getNextTimerShifts
    <2>4. m_threads = {} /\ t = Main => Main \notin idleTerm
        BY <2>3 DEF AloneInv
    <2> QED
        BY <2>1, <2>2, <2>3, <2>4, AloneKept
<1>5. CASE Idle(t)
    <2>1. UNCHANGED <<idleTerm, m_timers, m_fibers>>
        BY <1>5 DEF Idle, tasks, local, timers
    <2>2. CASE t \notin idleTerm
        <3>1. Where(t) = "notask" /\ Shift(t, "idle") /\ at'[t] = "next"
            BY <1>5, <2>2, IdleStepShifts
        <3> QED
            BY <2>1, <2>2, <3>1, AloneKept
    <2>3. CASE t \in idleTerm
        <3>1. Shift(t, IF t = Main THEN "join" ELSE "done")
            BY <1>5, <2>3, IdleStepShifts
        <3>2. CASE t = Main
            <4>1. Shift(t, "join")
                BY <3>1, <3>2
            <4>2. at'[t] # "stopping"
                BY <4>1, NotStopping DEF Shift, Moved
            <4> QED
                BY <2>1, <2>3, <4>1, <4>2, AloneQuiet
        <3>3. CASE t # Main
            <4>1. Shift(t, "done")
                BY <3>1, <3>3
            <4>2. at'[t] # "stopping"
                BY <4>1, NotStopping DEF Shift, Moved
            <4> QED
                BY <3>3, <4>1, <4>2, AloneKept
        <3> QED
            BY <3>2, <3>3
    <2> QED
        BY <2>2, <2>3
<1>6. CASE IdleEnds(t)
    <2>1. UNCHANGED <<m_timers, m_fibers>> /\ m_fibers = <<>> /\ next_timeout[t] = None
        BY <1>6 DEF IdleEnds, Stopping, tasks, timers
    <2>2. Shift(t, "scan") /\ at[t] = "stopping" /\ at'[t] = "scan"
        BY <1>6, IdleEndsShifts, IdleEndsMoves DEF Core
    <2>3. m_threads = {} /\ t = Main => DOMAIN m_timers' = {}
        BY <2>1, <2>2 DEF AloneInv
    <2> QED
        BY <2>1, <2>2, <2>3, AloneKept
<1>7. CASE StopAnswered(t)
    <2>1. UNCHANGED <<idleTerm, m_timers, m_fibers>>
        BY <1>7 DEF StopAnswered, tasks, timers
    <2>2. /\ t = Main /\ Where(t) = "stop" /\ at[t] = "stopping"
          /\ \/ Stopping(t) /\ Shift(t, "stopped")
             \/ Shift(t, "stop") /\ at'[t] = "tickle"
             \/ Stopping(t) /\ Shift(t, "join")
             \/ Shift(t, "scan") /\ at'[t] = "scan"
        BY <1>7, StopAnsweredShifts
    <2>3. CASE Shift(t, "stop") /\ at'[t] = "tickle"
        BY <2>1, <2>2, <2>3, AloneBusy
    <2>4. CASE Shift(t, "scan") /\ at'[t] = "scan"
        BY <2>1, <2>2, <2>4, AloneBusy
    <2>5. ASSUME NEW p \in {"stopped", "join"}, Stopping(t), Shift(t, p) PROVE AloneInv'
        <3>1. m_fibers = <<>> /\ next_timeout[t] = None
            BY <2>5 DEF Stopping
        <3>2. m_threads = {} => DOMAIN m_timers' = {}
            BY <2>1, <2>2, <3>1 DEF AloneInv
        <3>3. at'[t] # "stopping"
            BY <2>5, NotStopping DEF Shift, Moved
        <3> QED
            BY <2>1, <2>5, <3>1, <3>2, <3>3, AloneKept
    <2> QED
        BY <2>2, <2>3, <2>4, <2>5
<1>8. CASE tickle(t)
    <2>1. UNCHANGED <<idleTerm, m_timers, m_fibers>>
        BY <1>8 DEF tickle, tasks, timers, local
    <2>2. at'[t] # "stopping"
        BY <1>8, tickleShifts
    <2>3. CASE t = Main /\ ~m_rootFiber /\ Shift(t, "join")
        BY <2>2, <2>3, AloneKept DEF Core, Pool
    <2>4. CASE Where(t) \in Loop \cup {"main", "stop"} /\ Shift(t, Where(t))
        <3>1. ASSUME NEW p, p = Where(t) PROVE Shift(t, p) /\ p \in Loop \cup {"main", "stop"}
            BY <2>4, <3>1
        <3>2. m_threads = {} /\ t = Main /\ Main \in idleTerm =>
                 DOMAIN m_timers = {} /\ m_fibers = <<>> /\ Where(t) \in {"scan", "notask", "join", "stopped"}
            BY DEF AloneInv
        <3>3. ASSUME NEW p, p = Where(t) PROVE AloneInv'
            BY <2>1, <2>2, <3>1, <3>2, <3>3, AloneKept DEF Loop
        <3> QED
            BY <3>3
    <2> QED
        BY <1>8, <2>3, <2>4, tickleShifts
<1>9. CASE Operation(t)
    <2>1. /\ (Where(t) = "main" /\ Shift(t, "main")) \/ (Where(t) = "exec" /\ Shift(t, "exec"))
        BY <1>9, OperationShifts
    <2>2. UNCHANGED idleTerm
        BY <1>9 DEF Operation, Schedule, addTimer, cancel, refresh, reset, local
    <2>3. at'[t] # "stopping"
        BY <2>1, NotStopping DEF Shift, Moved
    <2> QED
        BY <2>1, <2>2, <2>3, AloneBusy
<1> QED
    BY <1>1, <1>2, <1>3, <1>4, <1>5, <1>6, <1>7, <1>8, <1>9 DEF Step

\* The steps of stop().
LEMMA stopAlone ==
    ASSUME Core, AloneInv, stop \/ Join
    PROVE  AloneInv'
<1>1. UNCHANGED <<idleTerm, m_timers, m_fibers>> /\ Main \in Thread
    BY DEF stop, Join, tasks, local, timers, Thread
<1>2. CASE stop
    <2>1. Where(Main) = "main" /\ Shift(Main, "stop") /\ at'[Main] # "stopping"
        BY <1>2, stopShifts
    <2> QED
        BY <1>1, <2>1, AloneBusy
<1>3. CASE Join
    <2>1. Where(Main) = "join" /\ Shift(Main, "stopped")
        BY <1>3, JoinShifts
    <2>2. at'[Main] # "stopping"
        BY <1>1, <2>1, NotStopping DEF Shift, Moved
    <2> QED
        BY <1>1, <2>1, <2>2, AloneQuiet
<1> QED
    BY <1>2, <1>3

-----------------------------------------------------------------------------
(* Types, and what stop() leaves behind *)

TypeInv == Core /\ TaskTypes /\ LocalInv /\ TimerTypes /\ Bounded /\ TasksSeen /\ AloneInv

\* The flags and the operations left.
LEMMA FlagTypes ==
    ASSUME TaskTypes, m_fibers' \in Seq(Pins), Next
    PROVE  TaskTypes'
<1>1. MaxOps \in Nat
    BY BoundAssumption
<1>2. ops' \in 0..MaxOps
    <2>1. ops' = ops \/ (ops > 0 /\ ops' = ops - 1)
        <3>1. CASE \E t \in Thread : Step(t)
            BY <3>1 DEF Step, Scan, tickle, Finish, Reschedule, Idle, Back, getNextTimer, IdleEnds,
               Wait,
               StopAnswered, Wake, listExpiredCb, Post, Drain
        <3>2. CASE \E t \in Thread : Yield(t)
            BY <3>2 DEF Yield
        <3>3. CASE \E t \in Thread : Operation(t)
            BY <3>3 DEF Operation, Operates, Schedule, addTimer, cancel, refresh, reset
        <3>4. CASE stop \/ Join \/ Tick
            BY <3>4 DEF stop, Join, Tick
        <3> QED
            BY <3>1, <3>2, <3>3, <3>4 DEF Next
    <2> QED
        BY <1>1, <2>1 DEF TaskTypes
<1>3. pipe' \in BOOLEAN
    <2>1. CASE \E t \in Thread : tickle(t) \/ Wake(t) \/ Drain(t)
        BY <2>1 DEF tickle, Wake, Drain, TaskTypes
    <2>2. CASE \E t \in Thread : Step(t) /\ ~(tickle(t) \/ Wake(t) \/ Drain(t))
        BY <2>2 DEF Step, Scan, Finish, Reschedule, Idle, Back, getNextTimer, IdleEnds, Wait,
               StopAnswered, listExpiredCb, Post, TaskTypes
    <2>3. CASE \E t \in Thread : Yield(t)
        BY <2>3 DEF Yield, TaskTypes
    <2>4. CASE \E t \in Thread : Operation(t)
        BY <2>4 DEF Operation, Schedule, addTimer, cancel, refresh, reset, TaskTypes
    <2>5. CASE stop \/ Join \/ Tick
        BY <2>5 DEF stop, Join, Tick, TaskTypes
    <2> QED
        BY <2>1, <2>2, <2>3, <2>4, <2>5 DEF Next
<1>4. m_tickled' \in BOOLEAN
    <2>1. CASE \E t \in Thread : Step(t)
        BY <2>1 DEF Step, Scan, tickle, Finish, Reschedule, Idle, Back, getNextTimer, IdleEnds,
           Wait,
               StopAnswered, Wake, listExpiredCb, Post, Drain, timers, TaskTypes
    <2>2. CASE \E t \in Thread : Yield(t)
        BY <2>2 DEF Yield, timers, TaskTypes
    <2>3. CASE \E t \in Thread : Operation(t)
        <3>1. ASSUME NEW t, NEW i, NEW timer, Insert(t, i, timer) PROVE m_tickled' \in BOOLEAN
            BY <3>1 DEF Insert
        <3>2. CASE \E t \in Thread, ms \in Delay, b \in BOOLEAN : addTimer(t, ms, b)
            BY <3>1, <3>2 DEF addTimer
        <3>3. CASE \E t \in Thread, i \in Timer, ms \in Delay, b \in BOOLEAN : reset(t, i, ms, b)
            BY <3>1, <3>3 DEF reset
        <3>4. CASE \E t \in Thread : (\E pin \in Pins : Schedule(t, pin))
                                     \/ \E i \in Timer : cancel(t, i) \/ refresh(t, i)
            BY <3>4 DEF Schedule, cancel, refresh, timers, TaskTypes
        <3> QED
            BY <2>3, <3>2, <3>3, <3>4 DEF Operation, Pins
    <2>4. CASE stop \/ Join \/ Tick
        BY <2>4 DEF stop, Join, Tick, timers, TaskTypes
    <2> QED
        BY <2>1, <2>2, <2>3, <2>4 DEF Next
<1>5. m_stopping' \in BOOLEAN
    <2>1. CASE \E t \in Thread : Step(t)
        BY <2>1 DEF Step, Scan, tickle, Finish, Reschedule, Idle, Back, getNextTimer, IdleEnds,
           Wait,
               StopAnswered, Wake, listExpiredCb, Post, Drain, TaskTypes
    <2>2. CASE \E t \in Thread : Yield(t) \/ Operation(t)
        BY <2>2 DEF Yield, Operation, Schedule, addTimer, cancel, refresh, reset, TaskTypes
    <2>3. CASE stop \/ Join \/ Tick
        BY <2>3 DEF stop, Join, Tick, TaskTypes
    <2> QED
        BY <2>1, <2>2, <2>3 DEF Next
<1> QED
    BY <1>2, <1>3, <1>4, <1>5 DEF TaskTypes

\* Every step keeps the core.
LEMMA CoreNext ==
    ASSUME Core, Next
    PROVE  Core'
<1>1. CASE Tick
    <2>1. UNCHANGED <<threads, at, after, idleTerm, m_stopping, m_activeThreadCount, m_idleThreadCount>>
        BY <1>1 DEF Tick, tasks
    <2> QED
        BY <2>1, CoreStays
<1>2. CASE stop \/ Join
    <2>1. Main \in Thread
        BY DEF Thread
    <2> QED
        BY <1>2, <2>1, stopShifts, JoinShifts, ShiftKeeps
<1>3. ASSUME NEW t \in Thread, Step(t) \/ Yield(t) \/ Operation(t) PROVE Core'
    <2>1. \E p : Shift(t, p)
        <3>1. CASE Scan(t)
            BY <3>1, ScanShifts
        <3>2. CASE Finish(t) \/ Yield(t) \/ Reschedule(t) \/ Back(t)
            BY <3>2, FinishShifts, YieldShifts, RescheduleShifts, BackShifts
        <3>3. CASE Wait(t) \/ Wake(t) \/ listExpiredCb(t) \/ Post(t) \/ Drain(t)
            BY <3>3, WaitShifts
        <3>4. CASE getNextTimer(t)
            BY <3>4, getNextTimerShifts
        <3>5. CASE Idle(t)
            BY <3>5, IdleStepShifts
        <3>6. CASE IdleEnds(t)
            BY <3>6, IdleEndsShifts
        <3>7. CASE StopAnswered(t)
            BY <3>7, StopAnsweredShifts
        <3>8. CASE tickle(t)
            BY <3>8, tickleShifts
        <3>9. CASE Operation(t)
            BY <3>9, OperationShifts
        <3> QED
            BY <1>3, <3>1, <3>2, <3>3, <3>4, <3>5, <3>6, <3>7, <3>8, <3>9 DEF Step
    <2> QED
        BY <2>1, ShiftKeeps
<1> QED
    BY <1>1, <1>2, <1>3 DEF Next

\* Every step keeps what the threads keep to themselves.
LEMMA LocalNext ==
    ASSUME Core, LocalInv, TimerTypes, Bounded, Next
    PROVE  LocalInv'
<1>1. CASE Tick
    BY <1>1, TickLocal
<1>2. CASE stop \/ Join
    BY <1>2, stopLocal
<1>3. ASSUME NEW t \in Thread, Step(t) \/ Yield(t) \/ Operation(t) PROVE LocalInv'
    <2>1. CASE Scan(t) \/ Finish(t) \/ Yield(t) \/ Reschedule(t) \/ Back(t) \/ Idle(t) \/ Operation(t) \/ tickle(t)
        BY <2>1, RunLocal
    <2>2. CASE getNextTimer(t) \/ IdleEnds(t) \/ StopAnswered(t)
        BY <2>2, getNextTimerLocal, EndsLocal
    <2>3. CASE Wait(t) \/ Wake(t) \/ listExpiredCb(t) \/ Post(t) \/ Drain(t)
        BY <2>3, WaitLocal, WakeLocal, listExpiredCbLocal, PostLocal
    <2> QED
        BY <1>3, <2>1, <2>2, <2>3 DEF Step
<1> QED
    BY <1>1, <1>2, <1>3 DEF Next

\* Every step keeps the types of the timers.
LEMMA TimersNext ==
    ASSUME TimerTypes, Bounded, Next
    PROVE  TimerTypes' /\ Bounded'
<1>1. CASE Tick
    BY <1>1, TickTypes
<1>2. CASE \E t \in Thread : listExpiredCb(t)
    BY <1>2, listExpiredCbTypes
<1>3. CASE \E t \in Thread : Operation(t)
    BY <1>3, OperationTypes
<1>4. CASE UNCHANGED <<m_timers, m_cb>>
    BY <1>4 DEF TimerTypes, Bounded
<1>5. CASE stop \/ Join \/ \E t \in Thread : Yield(t)
    BY <1>4, <1>5 DEF stop, Join, Yield, timers
<1>6. CASE \E t \in Thread : Step(t) /\ ~listExpiredCb(t)
    <2>1. UNCHANGED <<m_timers, m_cb>>
        BY <1>6 DEF Step, Scan, tickle, Finish, Reschedule, Idle, Back, getNextTimer, IdleEnds,
           Wait,
               StopAnswered, Wake, Post, Drain, timers
    <2> QED
        BY <1>4, <2>1
<1> QED
    BY <1>1, <1>2, <1>3, <1>5, <1>6 DEF Next

\* Every step keeps the inductive invariant.
LEMMA TypeInvNext ==
    ASSUME TypeInv, [Next]_vars
    PROVE  TypeInv'
<1>1. CASE Next
    <2>1. Core'
        BY <1>1, CoreNext DEF TypeInv
    <2>2. LocalInv'
        BY <1>1, LocalNext DEF TypeInv
    <2>3. TimerTypes' /\ Bounded'
        BY <1>1, TimersNext DEF TypeInv
    <2>4. TasksSeen' /\ m_fibers' \in Seq(Pins)
        <3>1. CASE Tick
            <4>1. UNCHANGED <<threads, at, after, idleTerm, m_stopping, m_activeThreadCount, m_idleThreadCount>>
                BY <3>1 DEF Tick, tasks
            <4>2. /\ \A t \in Thread : Where(t)' = Where(t)
                  /\ idleTerm' = idleTerm /\ m_fibers' = m_fibers /\ m_threads' = m_threads
                  /\ m_rootFiber' = m_rootFiber
                BY <3>1, <4>1, CoreStays DEF TypeInv, Tick, tasks, threads
            <4>3. \A t \in Thread : (Runs(t)' <=> Runs(t)) /\ (Over(t)' <=> Over(t))
                BY <4>2 DEF Runs, Over
            <4> QED
                BY <4>2, <4>3 DEF TypeInv, TaskTypes, TasksSeen
        <3> QED
            BY <1>1, <3>1, RunSeen, stopSeen DEF TypeInv, Next
    <2>5. TaskTypes'
        BY <1>1, <2>4, FlagTypes DEF TypeInv
    <2>6. AloneInv'
        <3>1. CASE Tick
            <4>1. UNCHANGED <<threads, at, after, idleTerm, m_stopping, m_activeThreadCount, m_idleThreadCount>>
                BY <3>1 DEF Tick, tasks
            <4>2. /\ Where(Main)' = Where(Main) /\ at' = at /\ next_timeout' = next_timeout
                  /\ idleTerm' = idleTerm /\ m_fibers' = m_fibers /\ m_threads' = m_threads
                  /\ DOMAIN m_timers' = DOMAIN m_timers
                BY <3>1, <4>1, CoreStays DEF TypeInv, Tick, tasks, threads, Thread
            <4> QED
                BY <4>2 DEF TypeInv, AloneInv
        <3> QED
            BY <1>1, <3>1, RunAlone, stopAlone DEF TypeInv, Next
    <2> QED
        BY <2>1, <2>2, <2>3, <2>4, <2>5, <2>6 DEF TypeInv
<1>2. CASE UNCHANGED vars
    <2>1. UNCHANGED <<threads, at, after, idleTerm, m_stopping, m_activeThreadCount, m_idleThreadCount>>
        BY <1>2 DEF vars, tasks, local
    <2>2. Core' /\ \A t \in Thread : Where(t)' = Where(t)
        BY <2>1, CoreStays DEF TypeInv
    <2>3. /\ m_fibers' = m_fibers /\ m_threads' = m_threads /\ m_rootFiber' = m_rootFiber
          /\ idleTerm' = idleTerm /\ next_timeout' = next_timeout /\ sleep' = sleep /\ cbs' = cbs /\ at' = at
          /\ m_timers' = m_timers /\ m_cb' = m_cb /\ m_stopping' = m_stopping /\ m_tickled' = m_tickled
          /\ pipe' = pipe /\ ops' = ops
        BY <1>2 DEF vars, tasks, local, threads, timers
    <2>4. \A t \in Thread : (Runs(t)' <=> Runs(t)) /\ (Over(t)' <=> Over(t))
        BY <2>2, <2>3 DEF Runs, Over
    <2>5. TasksSeen'
        BY <2>3, <2>4 DEF TypeInv, TasksSeen
    <2>6. AloneInv'
        BY <2>2, <2>3 DEF TypeInv, AloneInv, Thread
    <2>7. TaskTypes' /\ LocalInv' /\ TimerTypes' /\ Bounded'
        BY <2>3 DEF TypeInv, TaskTypes, LocalInv, TimerTypes, Bounded
    <2> QED
        BY <2>2, <2>5, <2>6, <2>7 DEF TypeInv
<1> QED
    BY <1>1, <1>2

\* It holds initially.
LEMMA TypeInvInit ==
    ASSUME Init
    PROVE  TypeInv
<1>1. Core
    BY CoreInit
<1>2. TaskTypes
    <2>1. MaxOps \in Nat
        BY BoundAssumption
    <2>2. ops \in 0..MaxOps
        BY <2>1 DEF Init
    <2>3. <<>> \in Seq(Pins)
        OBVIOUS
    <2> QED
        BY <2>2, <2>3 DEF Init, TaskTypes
<1>3. LocalInv
    <2>1. /\ cbs = [t \in Thread |-> 0] /\ next_timeout = [t \in Thread |-> None]
          /\ sleep = [t \in Thread |-> None]
          /\ at = [t \in Thread |-> IF t = Main THEN "main" ELSE IF t \in m_threads THEN "scan" ELSE "done"]
        BY DEF Init
    <2>2. /\ cbs \in [Thread -> Nat] /\ next_timeout \in [Thread -> Nat \cup {None}]
          /\ sleep \in [Thread -> (0..MaxTimeout) \cup {None}]
        BY <2>1
    <2>3. \A t \in Thread : cbs[t] = 0 /\ sleep[t] = None /\ at[t] # "wait"
        BY <2>1
    <2> QED
        BY <2>2, <2>3 DEF LocalInv
<1>4. TimerTypes /\ Bounded
    <2>1. DOMAIN m_timers = {} /\ m_timers = [i \in {} |-> 0] /\ m_cb = {}
        BY DEF Init
    <2>2. IsFiniteSet({})
        BY FS_EmptySet
    <2>3. m_timers \in [DOMAIN m_timers -> [left : Int, m_ms : Delay, m_recurring : BOOLEAN]]
        BY <2>1
    <2>4. IsFiniteSet(DOMAIN m_timers) /\ \A i \in DOMAIN m_timers : FALSE
        BY <2>1, <2>2
    <2>5. TimerTypes
        BY <2>1, <2>3, <2>4 DEF TimerTypes
    <2>6. Bounded
        <3>1. 0 \in Int
            OBVIOUS
        <3> QED
            BY <2>4, <3>1 DEF Bounded
    <2> QED
        BY <2>5, <2>6
<1>5. TasksSeen
    BY DEF Init, TasksSeen
<1>6. AloneInv
    <2>1. idleTerm = {} /\ Main \in Thread /\ at[Main] = "main" /\ at[Main] \in Plain
        BY DEF Init, Thread, Plain
    <2>2. Where(Main) = "main"
        BY <1>1, <2>1, PlainAt DEF Core
    <2> QED
        BY <2>1, <2>2 DEF AloneInv
<1> QED
    BY <1>1, <1>2, <1>3, <1>4, <1>5, <1>6 DEF TypeInv

\* It implies the types and the range of the two counts.
LEMMA TypeInvTypes ==
    ASSUME TypeInv
    PROVE  TypeOK
<1>1. m_threads \subseteq Worker /\ m_rootFiber \in BOOLEAN /\ m_stopping \in BOOLEAN
    BY DEF TypeInv, Core, Pool, TaskTypes
<1>2. ASSUME NEW t \in Thread
      PROVE  /\ Len(after[t]) <= Cardinality(Worker) + 3
             /\ at[t] \in {"main", "scan", "tickle", "exec", "ready", "notask", "next", "stopping",
                          "wait", "expire", "post", "drain", "back", "join", "done", "stopped"}
    <2>1. Frame(t) /\ after[t] \in Seq(Place)
        BY DEF TypeInv, Core, Frames
    <2>2. Cardinality(Worker) \in Nat /\ Len(after[t]) \in Nat
        BY <2>1, WorkersCounted
    <2>3. Len(after[t]) <= 2 \/ Len(after[t]) <= Cardinality(Worker) + 2
        <3>1. Len(after[t]) \in {0, 1, 2} \/ StopLeft(after[t])
            BY <2>1 DEF Frame
        <3>2. CASE StopLeft(after[t])
            <4>1. Len(after[t]) <= Cardinality(Worker) + 2
                BY <3>2 DEF StopLeft
            <4> QED
                BY <4>1
        <3>3. CASE Len(after[t]) \in {0, 1, 2}
            <4>1. \A n \in {0, 1, 2} : n <= 2
                OBVIOUS
            <4>2. Len(after[t]) <= 2
                BY <3>3, <4>1
            <4> QED
                BY <4>2
        <3> QED
            BY <3>1, <3>2, <3>3
    <2>4. at[t] \in {"main", "scan", "tickle", "exec", "ready", "notask", "next", "stopping",
                     "wait", "expire", "post", "drain", "back", "join", "done", "stopped"}
        BY <2>1 DEF Frame, Plain
    <2> QED
        BY <2>2, <2>3, <2>4
<1>3. at \in [Thread -> {"main", "scan", "tickle", "exec", "ready", "notask", "next", "stopping",
                          "wait", "expire", "post", "drain", "back", "join", "done", "stopped"}]
    <2>1. at \in [Thread -> Place]
        BY DEF TypeInv, Core, Frames
    <2> QED
        BY <1>2, <2>1
<1>4. m_activeThreadCount \in 0..Cardinality(Thread) /\ m_idleThreadCount \in 0..Cardinality(Thread)
    <2>1. IsFiniteSet(Thread)
        BY WorkersCounted, FS_AddElement DEF Thread
    <2>2. ASSUME NEW q PROVE Cardinality(In(q)) \in 0..Cardinality(Thread)
        <3>1. In(q) \subseteq Thread
            BY DEF In
        <3>2. IsFiniteSet(In(q)) /\ Cardinality(In(q)) <= Cardinality(Thread)
            BY <2>1, <3>1, FS_Subset
        <3>3. Cardinality(In(q)) \in Nat /\ Cardinality(Thread) \in Nat
            BY <2>1, <3>2, FS_CardinalityType
        <3> QED
            BY <3>2, <3>3
    <2> QED
        BY <2>2 DEF TypeInv, Core, Counted
<1>5. idleTerm \subseteq Thread
    BY DEF TypeInv, Core, Roles
<1>6. /\ \A t \in Thread : next_timeout[t] = None \/ next_timeout[t] \in Nat
      /\ \A t \in Thread : sleep[t] = None \/ sleep[t] \in 0..MaxTimeout
    BY DEF TypeInv, LocalInv
<1> QED
    BY <1>1, <1>2, <1>3, <1>4, <1>5, <1>6 DEF TypeInv, TypeOK, TaskTypes, TimerTypes, Pins

\* It implies that stop() leaves nothing behind: then nobody is left to look for a task.
LEMMA TypeInvLeavesNothing ==
    ASSUME TypeInv
    PROVE  NothingLeftBehind
<1> SUFFICES ASSUME at[Main] = "stopped" PROVE NothingLeftBehind
    BY DEF NothingLeftBehind
<1>1. Main \in Thread /\ at[Main] \in Plain /\ Frames /\ Roles /\ Counted
    BY DEF Thread, Plain, TypeInv, Core
<1>2. Where(Main) = "stopped"
    BY <1>1, PlainAt
<1>3. \A t \in Thread : Where(t) \in {"stopped", "done"}
    BY <1>1, <1>2 DEF Roles, Thread
<1>4. m_activeThreadCount = 0 /\ m_idleThreadCount = 0
    <2>1. In("exec") = {} /\ In("idle") = {}
        BY <1>3 DEF In
    <2>2. Cardinality({}) = 0
        BY FS_EmptySet
    <2> QED
        BY <1>1, <2>1, <2>2 DEF Counted
<1>5. m_fibers = <<>>
    <2>1. \A t \in Thread : Over(t)
        BY <1>3 DEF Over
    <2> QED
        BY <2>1 DEF TypeInv, TasksSeen
<1>6. \A t \in Thread : cbs[t] = 0
    <2>1. ASSUME NEW t \in Thread, at[t] = "post" PROVE FALSE
        BY <1>1, <1>3, <2>1, IdleLeft
    <2> QED
        BY <2>1 DEF TypeInv, LocalInv
<1>7. m_threads = {} => DOMAIN m_timers = {}
    BY <1>2 DEF TypeInv, AloneInv
<1> QED
    BY <1>4, <1>5, <1>6, <1>7 DEF NothingLeftBehind

\* The inductive invariant of the scheduler: who is where, what is counted, and
\* that somebody looks for every task.
LEMMA TypeInvHolds == Spec => []TypeInv
<1>1. Init => TypeInv
    BY TypeInvInit
<1>2. TypeInv /\ [Next]_vars => TypeInv'
    BY TypeInvNext
<1> QED
    BY <1>1, <1>2, PTL DEF Spec

\* Types, and the two thread counts: never below zero, never more than there are.
THEOREM SchedulerTypes == Spec => []TypeOK
<1>1. TypeInv => TypeOK
    BY TypeInvTypes
<1> QED
    BY <1>1, TypeInvHolds, PTL

\* stop() returns with every task done, every callback run and, when the creator
\* is alone, every timer gone.
THEOREM StopLeavesNothing == Spec => []NothingLeftBehind
<1>1. TypeInv => NothingLeftBehind
    BY TypeInvLeavesNothing
<1> QED
    BY <1>1, TypeInvHolds, PTL

-----------------------------------------------------------------------------
(* No timer is overlooked *)

\* What the other threads see of a step.
LEMMA OthersSame ==
    ASSUME NEW t \in Thread, NEW p, Shift(t, p), NEW u \in Thread \ {t}
    PROVE  (Looks(u)' <=> Looks(u)) /\ (Sleepy(u)' <=> Sleepy(u)) /\ at'[u] = at[u]
<1>1. at'[u] = at[u] /\ Where(u)' = Where(u) /\ (u \in idleTerm' <=> u \in idleTerm)
    BY DEF Shift, Moved, Touches, Fits
<1> QED
    BY <1>1 DEF Looks, Sleepy

\* A thread that will look after the step, or will tickle, is enough.
LEMMA SeenByMe ==
    ASSUME NEW t \in Thread, Looks(t)' \/ at'[t] = "tickle"
    PROVE  WakeInv'
BY DEF WakeInv, Noticed

\* Who notices goes on noticing.
LEMMA NoticedKept ==
    ASSUME NEW t \in Thread, NEW p, Shift(t, p), ~Looks(t), at[t] # "tickle", Noticed, pipe => pipe'
    PROVE  Noticed'
<1>1. CASE pipe
    BY <1>1 DEF Noticed
<1>2. CASE \E u \in Thread : Looks(u) \/ at[u] = "tickle"
    <2>1. PICK u \in Thread : Looks(u) \/ at[u] = "tickle"
        BY <1>2
    <2>2. u \in Thread \ {t}
        BY <2>1
    <2>3. Looks(u)' \/ at'[u] = "tickle"
        BY <2>1, <2>2, OthersSame
    <2> QED
        BY <2>3 DEF Noticed
<1> QED
    BY <1>1, <1>2 DEF Noticed

\* The step of a thread that neither looks nor sleeps, and touches nothing that
\* counts here, or makes the timers later or fewer.
LEMMA SilentWake ==
    ASSUME WakeInv, LocalInv, NEW t \in Thread, NEW p, Shift(t, p), ~Looks(t), at[t] # "tickle",
           pipe => pipe',
           ~Sleepy(t), ~Sleepy(t)', m_tickled' => m_tickled,
           \A u \in Thread \ {t} : sleep'[u] = sleep[u] /\ next_timeout'[u] = next_timeout[u],
           m_tickled \/ (DOMAIN m_timers' # {} => DOMAIN m_timers # {}),
           ASSUME NEW n \in Int, Soon(n) PROVE m_tickled \/ Soon(n)'
    PROVE  WakeInv'
<1> SUFFICES ASSUME NEW s \in Thread, Sleepy(s)'
             PROVE  /\ m_tickled' => Noticed'
                    /\ DOMAIN m_timers' # {} => Noticed' \/ (\E u \in Thread : Covers(u))'
    BY DEF WakeInv
<1>1. s # t /\ Sleepy(s)
    BY OthersSame
<1>2. Noticed => Noticed'
    BY NoticedKept
<1>3. m_tickled => Noticed
    BY <1>1 DEF WakeInv
<1>4. ASSUME DOMAIN m_timers' # {}, ~Noticed PROVE (\E u \in Thread : Covers(u))'
    <2>1. PICK u \in Thread : Covers(u)
        BY <1>1, <1>3, <1>4 DEF WakeInv
    <2>2. u # t /\ Sleepy(u)
        BY <2>1 DEF Covers
    <2>3. Sleepy(u)' /\ at'[u] = at[u] /\ sleep'[u] = sleep[u] /\ next_timeout'[u] = next_timeout[u]
        BY <2>2, OthersSame
    <2>4. at[u] = "wait" => Soon(sleep[u])
        BY <2>1 DEF Covers
    <2>5. at[u] = "stopping" => next_timeout[u] # None /\ Soon(next_timeout[u])
        BY <2>1 DEF Covers
    <2>6. ASSUME NEW n \in Int, Soon(n) PROVE Soon(n)'
        BY <1>3, <1>4, <2>6
    <2>7. /\ at[u] \in {"wait", "stopping"} /\ (at[u] = "wait" => sleep[u] \in Int)
          /\ (at[u] = "stopping" => next_timeout[u] \in Int)
        <3>1. at[u] \in {"wait", "stopping"}
            BY <2>2 DEF Sleepy
        <3>2. MaxTimeout \in Nat
            BY BoundAssumption
        <3>3. \A n \in 0..MaxTimeout : n \in Int
            BY <3>2
        <3>4. at[u] = "wait" => sleep[u] \in 0..MaxTimeout
            BY DEF LocalInv
        <3>5. at[u] = "stopping" => next_timeout[u] \in Nat
            BY <2>5 DEF LocalInv
        <3> QED
            BY <3>1, <3>3, <3>4, <3>5
    <2>8. at[u] = "wait" => Soon(sleep[u])'
        <3>1. ASSUME NEW n, n = sleep[u], at[u] = "wait" PROVE Soon(n)'
            BY <2>4, <2>6, <2>7, <3>1
        <3> QED
            BY <2>3, <3>1 DEF Soon
    <2>9. at[u] = "stopping" => Soon(next_timeout[u])'
        <3>1. ASSUME NEW n, n = next_timeout[u], at[u] = "stopping" PROVE Soon(n)'
            BY <2>5, <2>6, <2>7, <3>1
        <3> QED
            BY <2>3, <3>1 DEF Soon
    <2>10. Covers(u)'
        BY <2>3, <2>5, <2>7, <2>8, <2>9 DEF Covers
    <2> QED
        BY <2>10
<1> QED
    BY <1>2, <1>3, <1>4

\* A step that leaves the timers alone.
LEMMA QuietWake ==
    ASSUME WakeInv, LocalInv, NEW t \in Thread, NEW p, Shift(t, p), ~Looks(t), at[t] # "tickle",
           ~Sleepy(t),
           p # "idle", UNCHANGED <<sleep, pipe, m_tickled, m_timers>>,
           \A u \in Thread \ {t} : next_timeout'[u] = next_timeout[u]
    PROVE  WakeInv'
<1>1. ~Sleepy(t)'
    BY DEF Sleepy, Shift, Moved
<1>2. ASSUME NEW n, Soon(n) PROVE Soon(n)'
    BY <1>2 DEF Soon
<1> QED
    BY <1>1, <1>2, SilentWake

\* A thread whose idle fiber has not ended looks, wherever it gets to in run().
LEMMA LoopLooks ==
    ASSUME NEW t \in Thread, NEW p \in {"scan", "exec", "ready", "notask"}, Shift(t, p),
           t \notin idleTerm'
    PROVE  Looks(t)'
BY DEF Looks, Shift, Moved

\* So does one in idle() that has not yet asked for the next timer.
LEMMA IdleLooks ==
    ASSUME NEW t \in Thread, Shift(t, "idle"), at'[t] \notin {"wait", "stopping"}
    PROVE  Looks(t)'
<1>1. t \notin idleTerm' /\ Where(t)' = "idle"
    BY DEF Shift, Fits, Moved
<1> QED
    BY <1>1 DEF Looks

\* Steps of run().
LEMMA RunWake ==
    ASSUME Core, WakeInv, LocalInv, NEW t \in Thread,
           Scan(t) \/ Finish(t) \/ Yield(t) \/ Reschedule(t) \/ Back(t) \/ Idle(t)
    PROVE  WakeInv'
<1>1. UNCHANGED <<sleep, pipe, m_tickled, m_timers, next_timeout, idleTerm>> /\ at[t] # "tickle"
    BY DEF Scan, Finish, Yield, Reschedule, Back, Idle, local, timers
<1>2. CASE Scan(t) \/ Finish(t) \/ Yield(t) \/ Reschedule(t) \/ Back(t)
    <2>1. \E p \in {"scan", "exec", "ready", "notask"} : Shift(t, p)
        BY <1>2, ScanShifts, FinishShifts, YieldShifts, RescheduleShifts, BackShifts
    <2>2. CASE t \notin idleTerm
        BY <1>1, <2>1, <2>2, LoopLooks, SeenByMe
    <2>3. CASE t \in idleTerm
        <3>1. ~Looks(t) /\ ~Sleepy(t)
            BY <2>3 DEF Looks, Sleepy, Core, Roles
        <3> QED
            BY <1>1, <2>1, <3>1, QuietWake
    <2> QED
        BY <2>2, <2>3
<1>3. CASE Idle(t)
    <2>1. CASE t \notin idleTerm
        BY <1>3, <2>1, IdleStepShifts, IdleLooks, SeenByMe
    <2>2. CASE t \in idleTerm
        <3>1. ~Looks(t) /\ ~Sleepy(t)
            BY <2>2 DEF Looks, Sleepy, Core, Roles
        <3>2. Shift(t, "join") \/ Shift(t, "done")
            BY <1>3, <2>2, IdleStepShifts
        <3> QED
            BY <1>1, <3>1, <3>2, QuietWake
    <2> QED
        BY <2>1, <2>2
<1> QED
    BY <1>2, <1>3

\* IOManager::tickle: a thread that sleeps is counted, so the pipe is written.
LEMMA tickleWake ==
    ASSUME Core, WakeInv, NEW t \in Thread, tickle(t)
    PROVE  WakeInv'
<1>1. /\ at[t] = "tickle" /\ at'[t] \notin {"wait", "stopping"}
      /\ \E p : Shift(t, p)
    BY tickleShifts
<1> SUFFICES ASSUME NEW s \in Thread, Sleepy(s)' PROVE Noticed'
    BY DEF WakeInv
<1>2. s # t
    BY <1>1 DEF Sleepy
<1>3. Sleepy(s)
    BY <1>1, <1>2, OthersSame
<1>4. s \in In("idle")
    BY <1>3 DEF Sleepy, In
<1>5. m_idleThreadCount > 0
    <2>1. In("idle") \subseteq Thread /\ IsFiniteSet(Thread)
        BY WorkersCounted, FS_AddElement DEF In, Thread
    <2>2. IsFiniteSet(In("idle"))
        BY <2>1, FS_Subset
    <2>3. Cardinality(In("idle")) \in Nat /\ Cardinality(In("idle")) # 0
        BY <1>4, <2>2, FS_CardinalityType, FS_EmptySet
    <2> QED
        BY <2>3 DEF Core, Counted
<1>6. pipe'
    BY <1>5 DEF tickle
<1> QED
    BY <1>6 DEF Noticed

\* getNextTimer: the thread that asks knows the next timer.
LEMMA getNextTimerWake ==
    ASSUME Core, WakeInv, LocalInv, TimerTypes, Bounded, NEW t \in Thread, getNextTimer(t)
    PROVE  WakeInv'
<1>1. at[t] = "next" /\ at'[t] = "stopping"
    BY getNextTimerMoves DEF Core
<1>2. /\ UNCHANGED <<sleep, pipe, m_timers, idleTerm>> /\ m_tickled' = FALSE
      /\ \A u \in Thread \ {t} : next_timeout'[u] = next_timeout[u]
      /\ next_timeout'[t] = IF DOMAIN m_timers = {} THEN None ELSE Max({0, Earliest})
    BY DEF getNextTimer, LocalInv
<1>3. CASE Where(t) = "idle" /\ Shift(t, "idle")
    <2>1. ASSUME DOMAIN m_timers # {} PROVE Covers(t)'
        <3>1. ASSUME NEW n, n = Max({0, Earliest}) PROVE n \in Nat /\ Soon(n)'
            BY <1>2, <2>1, <3>1, NextTimerSoon DEF Soon
        <3>2. next_timeout'[t] \in Nat /\ Soon(next_timeout[t])'
            BY <1>2, <2>1, <3>1 DEF Soon
        <3>3. next_timeout'[t] # None
            BY <3>2, BoundAssumption
        <3>4. Sleepy(t)'
            BY <1>1, <1>3 DEF Sleepy, Shift, Moved
        <3> QED
            BY <1>1, <3>2, <3>3, <3>4 DEF Covers
    <2> QED
        BY <1>2, <2>1 DEF WakeInv
<1>4. CASE t = Main /\ Where(t) = "stop" /\ Shift(t, "stop")
    <2>1. ~Looks(t) /\ ~Sleepy(t) /\ ~Sleepy(t)'
        BY <1>4 DEF Looks, Sleepy, Shift, Moved
    <2>2. ASSUME NEW n, Soon(n) PROVE Soon(n)'
        BY <1>2, <2>2 DEF Soon
    <2> QED
        BY <1>1, <1>2, <1>4, <2>1, <2>2, SilentWake
<1> QED
    BY <1>3, <1>4, getNextTimerShifts

\* The idle fiber ends: it waits for no timer then.
LEMMA IdleEndsWake ==
    ASSUME Core, WakeInv, LocalInv, NEW t \in Thread, IdleEnds(t)
    PROVE  WakeInv'
<1>1. Where(t) = "idle" /\ Shift(t, "scan") /\ at[t] = "stopping" /\ at'[t] = "scan"
    BY IdleEndsShifts, IdleEndsMoves DEF Core
<1>2. /\ UNCHANGED <<sleep, pipe, m_tickled, m_timers>> /\ next_timeout[t] = None
      /\ \A u \in Thread \ {t} : next_timeout'[u] = next_timeout[u]
    BY DEF IdleEnds, Stopping, timers, LocalInv
<1>3. ~Looks(t) /\ Sleepy(t) /\ ~Covers(t)
    BY <1>1, <1>2 DEF Looks, Sleepy, Covers
<1>4. Noticed => Noticed'
    BY <1>1, <1>2, <1>3, NoticedKept
<1>5. ASSUME NEW u \in Thread, Covers(u) PROVE Covers(u)'
    <2>1. u # t
        BY <1>3, <1>5
    <2>2. Sleepy(u)' /\ at'[u] = at[u] /\ sleep'[u] = sleep[u] /\ next_timeout'[u] = next_timeout[u]
        BY <1>1, <1>2, <1>5, <2>1, OthersSame DEF Covers
    <2> QED
        BY <1>2, <1>5, <2>2 DEF Covers, Soon
<1>6. m_tickled' = m_tickled /\ DOMAIN m_timers' = DOMAIN m_timers
    BY <1>2
<1> QED
    BY <1>3, <1>4, <1>5, <1>6 DEF WakeInv

\* stop() neither looks nor sleeps.
LEMMA StopAnsweredWake ==
    ASSUME Core, WakeInv, LocalInv, NEW t \in Thread, StopAnswered(t)
    PROVE  WakeInv'
<1>1. /\ t = Main /\ Where(t) = "stop" /\ at[t] = "stopping"
      /\ \/ Shift(t, "stopped")
         \/ Shift(t, "stop") /\ at'[t] = "tickle"
         \/ Shift(t, "join")
         \/ Shift(t, "scan")
    BY StopAnsweredShifts
<1>2. /\ UNCHANGED <<sleep, pipe, m_tickled, m_timers>>
      /\ \A u \in Thread \ {t} : next_timeout'[u] = next_timeout[u]
    BY DEF StopAnswered, timers, LocalInv
<1>3. ~Looks(t) /\ ~Sleepy(t)
    BY <1>1 DEF Looks, Sleepy
<1>4. CASE at'[t] = "tickle"
    BY <1>4, SeenByMe
<1>5. ASSUME NEW p \in {"stopped", "join", "scan"}, Shift(t, p) PROVE WakeInv'
    BY <1>1, <1>2, <1>3, <1>5, QuietWake
<1> QED
    BY <1>1, <1>4, <1>5

\* A shorter wait is not too long either.
LEMMA SoonerSoon ==
    ASSUME TimerTypes, NEW m \in Int, NEW n \in Int, m <= n, Soon(n)
    PROVE  Soon(m)
<1>1. ASSUME NEW i \in DOMAIN m_timers PROVE m <= 0 \/ m <= m_timers[i].left
    <2>1. m_timers[i].left \in Int /\ (n <= 0 \/ n <= m_timers[i].left)
        BY DEF TimerTypes, Soon
    <2> QED
        BY <2>1
<1> QED
    BY <1>1 DEF Soon

\* The wait covers what the answer of getNextTimer covered.
LEMMA WaitWake ==
    ASSUME Core, WakeInv, LocalInv, TimerTypes, NEW t \in Thread, Wait(t)
    PROVE  WakeInv'
<1>1. Where(t) = "idle" /\ Shift(t, "idle") /\ at[t] = "stopping" /\ at'[t] = "wait"
    BY WaitShifts, WaitMoves DEF Core
<1>2. /\ UNCHANGED <<pipe, m_tickled, m_timers>>
      /\ \A u \in Thread \ {t} : next_timeout'[u] = next_timeout[u] /\ sleep'[u] = sleep[u]
    BY DEF Wait, timers, LocalInv
<1>3. ~Looks(t) /\ Sleepy(t) /\ Sleepy(t)'
    BY <1>1 DEF Looks, Sleepy, Shift, Moved
<1>4. Noticed => Noticed'
    BY <1>1, <1>2, <1>3, NoticedKept
<1>5. ASSUME NEW u \in Thread, Covers(u) PROVE Covers(u)'
    <2>1. CASE u # t
        <3>1. Sleepy(u)' /\ at'[u] = at[u] /\ sleep'[u] = sleep[u] /\ next_timeout'[u] = next_timeout[u]
            BY <1>1, <1>2, <1>5, <2>1, OthersSame DEF Covers
        <3> QED
            BY <1>2, <1>5, <3>1 DEF Covers, Soon
    <2>2. CASE u = t
        <3>1. next_timeout[t] # None /\ Soon(next_timeout[t])
            BY <1>1, <1>5, <2>2 DEF Covers
        <3>2. next_timeout[t] \in Int /\ sleep'[t] \in Int /\ sleep'[t] <= next_timeout[t]
            <4>1. sleep'[t] \in 0..MaxTimeout /\ sleep'[t] <= next_timeout[t] /\ MaxTimeout \in Nat
                BY <3>1, WaitLocal, BoundAssumption
            <4>2. next_timeout[t] \in Nat
                BY <3>1 DEF LocalInv
            <4> QED
                BY <4>1, <4>2
        <3>3. ASSUME NEW m, m = sleep'[t], NEW n, n = next_timeout[t] PROVE Soon(m)
            BY <3>1, <3>2, <3>3, SoonerSoon
        <3>4. Soon(sleep[t])'
            BY <1>2, <3>3 DEF Soon
        <3> QED
            BY <1>1, <1>3, <2>2, <3>4 DEF Covers
    <2> QED
        BY <2>1, <2>2
<1>6. m_tickled' = m_tickled /\ DOMAIN m_timers' = DOMAIN m_timers
    BY <1>2
<1> QED
    BY <1>3, <1>4, <1>5, <1>6 DEF WakeInv

\* epoll_wait has returned.
LEMMA AwakeWake ==
    ASSUME Core, NEW t \in Thread, Wake(t) \/ listExpiredCb(t) \/ Post(t) \/ Drain(t)
    PROVE  WakeInv'
<1>1. Shift(t, "idle")
    BY WaitShifts
<1>2. at'[t] \notin {"wait", "stopping"}
    BY WakeMoves, listExpiredCbMoves, PostMoves, DrainMoves DEF Core
<1> QED
    BY <1>1, <1>2, IdleLooks, SeenByMe

\* The call of stop() and its return touch no timer.
LEMMA stopWake ==
    ASSUME Core, WakeInv, LocalInv, stop \/ Join
    PROVE  WakeInv'
<1>1. UNCHANGED <<sleep, pipe, m_tickled, m_timers, next_timeout, idleTerm>> /\ Main \in Thread
      /\ at[Main] # "tickle"
    BY DEF stop, Join, local, timers, Thread
<1>2. (Where(Main) = "main" /\ Shift(Main, "stop")) \/ (Where(Main) = "join" /\ Shift(Main, "stopped"))
    BY stopShifts, JoinShifts
<1>3. ~Looks(Main) /\ ~Sleepy(Main)
    BY <1>2 DEF Looks, Sleepy
<1> QED
    BY <1>1, <1>2, <1>3, QuietWake

\* Timers that are fewer or later than before.
LEMMA LaterSoon ==
    ASSUME TimerTypes, TimerTypes', NEW n,
           \A i \in DOMAIN m_timers' : \E j \in DOMAIN m_timers : m_timers[j].left <= m_timers'[i].left,
           n \in Int, Soon(n)
    PROVE  Soon(n)'
<1>1. ASSUME NEW i \in DOMAIN m_timers' PROVE n <= 0 \/ n <= m_timers'[i].left
    <2>1. PICK j \in DOMAIN m_timers : m_timers[j].left <= m_timers'[i].left
        OBVIOUS
    <2>2. m_timers[j].left \in Int /\ (n <= 0 \/ n <= m_timers[j].left)
        BY DEF TimerTypes, Soon
    <2>3. m_timers'[i].left \in Int
        BY DEF TimerTypes
    <2> QED
        BY <2>1, <2>2, <2>3
<1> QED
    BY <1>1 DEF Soon

\* A timer that does not come first has another before it.
LEMMA InsertLater ==
    ASSUME TimerTypes, NEW t \in Thread, NEW i \in Timer, NEW timer \in TimerRecord,
           Insert(t, i, timer),
           NEW pc \in {"main", "exec"}, at[t] = pc, Core, UNCHANGED threads, at'[t] # "tickle"
    PROVE  /\ m_tickled' => m_tickled
           /\ \/ m_tickled
              \/ \A k \in DOMAIN m_timers' : \E j \in DOMAIN m_timers : m_timers[j].left <= m_timers'[k].left
<1>1. PICK front \in AtFront(i, timer.left) :
         /\ m_timers' = With(i, timer)
         /\ m_tickled' = (m_tickled \/ (front /\ ~m_tickled))
         /\ TickleIf(front /\ ~m_tickled, t, pc)
    BY DEF Insert
<1>2. ~(front /\ ~m_tickled)
    <2>1. (front /\ ~m_tickled) \in BOOLEAN /\ at[t] \in Plain /\ Frames
        BY DEF AtFront, Plain, Core
    <2> QED
        BY <1>1, <2>1, TickleIfLands
<1>3. m_tickled' => m_tickled
    BY <1>1, <1>2
<1>4. ASSUME ~m_tickled, NEW k \in DOMAIN m_timers'
      PROVE  \E j \in DOMAIN m_timers : m_timers[j].left <= m_timers'[k].left
    <2>1. DOMAIN m_timers' = DOMAIN m_timers \cup {i}
        BY <1>1 DEF With
    <2>2. \A j \in DOMAIN m_timers : m_timers[j].left \in Int
        BY DEF TimerTypes
    <2>3. CASE k # i
        <3>1. k \in DOMAIN m_timers /\ m_timers'[k] = m_timers[k]
            BY <1>1, <1>4, <2>1, <2>3 DEF With
        <3>2. m_timers[k].left <= m_timers'[k].left
            BY <2>2, <3>1
        <3> QED
            BY <3>1, <3>2
    <2>4. CASE k = i
        <3>1. ~front
            BY <1>2, <1>4
        <3>2. timer.left \in Int /\ m_timers'[k] = timer
            BY <1>1, <2>4 DEF TimerRecord, With
        <3>3. ~(\A n \in {m_timers[j].left : j \in DOMAIN m_timers \ {i}} : n > timer.left)
            BY <1>1, <3>1 DEF AtFront
        <3>4. PICK j \in DOMAIN m_timers \ {i} : ~(m_timers[j].left > timer.left)
            BY <3>3
        <3>5. m_timers[j].left <= timer.left
            BY <2>2, <3>2, <3>4
        <3> QED
            BY <3>2, <3>5
    <2> QED
        BY <2>3, <2>4
<1> QED
    BY <1>3, <1>4

\* What a task, or Main, does to the timers.
LEMMA OperationLater ==
    ASSUME Core, TimerTypes, NEW t \in Thread, Operation(t), at'[t] # "tickle"
    PROVE  /\ m_tickled' => m_tickled
           /\ \/ m_tickled
              \/ \A k \in DOMAIN m_timers' : \E j \in DOMAIN m_timers : m_timers[j].left <= m_timers'[k].left
<1>1. at[t] \in {"main", "exec"} /\ UNCHANGED threads
    BY DEF Operation, Operates, Schedule, addTimer, cancel, refresh, reset
<1>2. \A j \in DOMAIN m_timers : /\ m_timers[j] \in TimerRecord /\ m_timers[j].left \in Int
                                 /\ m_timers[j].m_ms \in Int /\ m_timers[j].left <= m_timers[j].m_ms
    BY DelayTypes DEF TimerTypes, TimerRecord
<1>3. CASE \E pin \in Thread \cup {Anyone} : Schedule(t, pin)
    <2>1. m_timers' = m_timers /\ m_tickled' = m_tickled
        BY <1>3 DEF Schedule, timers
    <2> QED
        BY <1>2, <2>1
<1>4. CASE \E ms \in Delay, b \in BOOLEAN : addTimer(t, ms, b)
    <2>1. PICK ms \in Delay, b \in BOOLEAN : addTimer(t, ms, b)
        BY <1>4
    <2>2. NewTimer \in Timer
        BY <2>1 DEF addTimer, NewTimer
    <2> DEFINE timer == [left |-> ms, m_ms |-> ms, m_recurring |-> b]
    <2>3. timer \in TimerRecord
        BY DelayTypes DEF TimerRecord
    <2>4. Insert(t, NewTimer, timer)
        BY <2>1 DEF addTimer
    <2> HIDE DEF timer
    <2> QED
        BY <1>1, <2>2, <2>3, <2>4, InsertLater
<1>5. CASE \E i \in Timer : cancel(t, i)
    <2>1. PICK i \in Timer : m_timers' = [j \in DOMAIN m_timers \ {i} |-> m_timers[j]] /\ m_tickled' = m_tickled
        BY <1>5 DEF cancel
    <2>2. \A k \in DOMAIN m_timers' : k \in DOMAIN m_timers /\ m_timers[k].left <= m_timers'[k].left
        BY <1>2, <2>1
    <2> QED
        BY <2>1, <2>2
<1>6. CASE \E i \in Timer : refresh(t, i)
    <2>1. PICK i \in Timer : /\ m_timers' = [m_timers EXCEPT ![i].left = m_timers[i].m_ms]
                             /\ m_tickled' = m_tickled /\ i \in DOMAIN m_timers
        BY <1>6 DEF refresh
    <2>2. DOMAIN m_timers' = DOMAIN m_timers
        BY <2>1
    <2>3. ASSUME NEW k \in DOMAIN m_timers PROVE m_timers[k].left <= m_timers'[k].left
        <3>1. CASE k = i
            <4>1. m_timers'[k] = [m_timers[k] EXCEPT !.left = m_timers[k].m_ms]
                BY <2>1, <3>1
            <4>2. m_timers'[k].left = m_timers[k].m_ms
                BY <1>2, <2>3, <4>1 DEF TimerRecord
            <4> QED
                BY <1>2, <2>3, <4>2
        <3>2. CASE k # i
            <4>1. m_timers'[k] = m_timers[k]
                BY <2>1, <3>2
            <4> QED
                BY <1>2, <2>3, <4>1
        <3> QED
            BY <3>1, <3>2
    <2> QED
        BY <2>1, <2>2, <2>3
<1>7. CASE \E i \in Timer, ms \in Delay, b \in BOOLEAN : reset(t, i, ms, b)
    <2>1. PICK i \in Timer, ms \in Delay, b \in BOOLEAN : reset(t, i, ms, b)
        BY <1>7
    <2>2. PICK timer \in TimerRecord : Insert(t, i, timer)
        BY <2>1, ResetInserts
    <2> QED
        BY <1>1, <2>2, InsertLater
<1> QED
    BY <1>3, <1>4, <1>5, <1>6, <1>7 DEF Operation

\* An operation that makes a timer the first one is followed by a tickle, unless
\* m_tickled says that one is on its way; any other timer is covered already.
LEMMA OperationWake ==
    ASSUME Core, WakeInv, LocalInv, TimerTypes, TimerTypes', NEW t \in Thread, Operation(t)
    PROVE  WakeInv'
<1>1. /\ Where(t) = at[t] /\ Shift(t, at[t])
      /\ (t = Main /\ at[t] = "main") \/ at[t] = "exec"
    BY OperationShifts
<1>2. UNCHANGED <<pipe, sleep, next_timeout, idleTerm>>
    BY DEF Operation, Schedule, addTimer, cancel, refresh, reset, local
<1>3. CASE at'[t] = "tickle"
    BY <1>3, SeenByMe
<1>4. CASE at[t] = "exec" /\ t \notin idleTerm
    <2>1. Shift(t, "exec")
        BY <1>1, <1>4
    <2> QED
        BY <1>2, <1>4, <2>1, LoopLooks, SeenByMe
<1>5. ASSUME at'[t] # "tickle", at[t] = "main" \/ t \in idleTerm PROVE WakeInv'
    <2>1. ~Looks(t) /\ ~Sleepy(t) /\ at[t] # "tickle"
        BY <1>1, <1>5 DEF Looks, Sleepy
    <2>2. ~Sleepy(t)'
        BY <1>1 DEF Sleepy, Shift, Moved
    <2>3. m_tickled' => m_tickled
        BY <1>5, OperationLater
    <2>4. \/ m_tickled
          \/ \A k \in DOMAIN m_timers' : \E j \in DOMAIN m_timers : m_timers[j].left <= m_timers'[k].left
        BY <1>5, OperationLater
    <2>5. m_tickled \/ (DOMAIN m_timers' # {} => DOMAIN m_timers # {})
        BY <2>4
    <2>6. ASSUME NEW n \in Int, Soon(n) PROVE m_tickled \/ Soon(n)'
        BY <2>4, <2>6, LaterSoon
    <2>7. ASSUME NEW p, p = at[t] PROVE WakeInv'
        BY <1>1, <1>2, <2>1, <2>2, <2>3, <2>5, <2>6, <2>7, SilentWake
    <2> QED
        BY <2>7
<1> QED
    BY <1>1, <1>3, <1>4, <1>5

\* Timers and sleepers lose the same millisecond.
LEMMA TickWake ==
    ASSUME Core, WakeInv, LocalInv, TimerTypes, Tick
    PROVE  WakeInv'
<1>1. /\ UNCHANGED <<threads, at, after, idleTerm, m_stopping, m_activeThreadCount, m_idleThreadCount>>
      /\ UNCHANGED <<pipe, m_tickled>>
      /\ m_timers' = [i \in DOMAIN m_timers |-> [m_timers[i] EXCEPT !.left = @ - 1]]
      /\ sleep' = [t \in Thread |-> IF sleep[t] = None THEN None ELSE sleep[t] - 1]
      /\ \A t \in Thread : at[t] # "stopping" /\ (at[t] = "wait" => sleep[t] > 0)
    BY DEF Tick, tasks
<1>2. \A t \in Thread : Where(t)' = Where(t)
    BY <1>1, CoreStays
<1>3. \A t \in Thread : (Looks(t)' <=> Looks(t)) /\ (Sleepy(t)' <=> Sleepy(t))
    BY <1>1, <1>2 DEF Looks, Sleepy
<1>4. Noticed' <=> Noticed
    BY <1>1, <1>3 DEF Noticed
<1>5. DOMAIN m_timers' = DOMAIN m_timers
    BY <1>1
<1>6. ASSUME NEW t \in Thread, Covers(t) PROVE Covers(t)'
    <2>1. Sleepy(t) /\ at[t] = "wait" /\ Soon(sleep[t])
        BY <1>1, <1>6 DEF Covers
    <2>2. sleep[t] \in Int /\ sleep[t] > 0 /\ sleep'[t] = sleep[t] - 1
        <3>1. sleep[t] # None /\ sleep[t] \in 0..MaxTimeout /\ MaxTimeout \in Nat
            BY <2>1, BoundAssumption DEF LocalInv
        <3>2. sleep'[t] = sleep[t] - 1
            BY <1>1, <3>1
        <3> QED
            BY <1>1, <2>1, <3>1, <3>2
    <2>3. ASSUME NEW i \in DOMAIN m_timers' PROVE sleep'[t] <= m_timers'[i].left
        <3>1. m_timers[i] \in TimerRecord /\ m_timers'[i] = [m_timers[i] EXCEPT !.left = @ - 1]
            BY <1>1, <1>5 DEF TimerTypes, TimerRecord
        <3>2. m_timers'[i].left = m_timers[i].left - 1 /\ m_timers[i].left \in Int
            BY <3>1 DEF TimerRecord
        <3>3. sleep[t] <= 0 \/ sleep[t] <= m_timers[i].left
            BY <1>5, <2>1 DEF Soon
        <3> QED
            BY <2>2, <3>2, <3>3
    <2>4. Soon(sleep[t])'
        BY <2>3 DEF Soon
    <2> QED
        BY <1>1, <1>3, <2>1, <2>4 DEF Covers
<1>7. m_tickled' = m_tickled
    BY <1>1
<1> QED
    BY <1>3, <1>4, <1>5, <1>6, <1>7 DEF WakeInv

\* Every step keeps the timers noticed or covered.
LEMMA WakeNext ==
    ASSUME TypeInv, TypeInv', WakeInv, [Next]_vars
    PROVE  WakeInv'
<1>1. Core /\ LocalInv /\ TimerTypes /\ Bounded /\ TimerTypes'
    BY DEF TypeInv
<1>2. CASE Tick
    BY <1>1, <1>2, TickWake
<1>3. CASE stop \/ Join
    BY <1>1, <1>3, stopWake
<1>4. ASSUME NEW t \in Thread, Operation(t) PROVE WakeInv'
    BY <1>1, <1>4, OperationWake
<1>5. ASSUME NEW t \in Thread, Step(t) \/ Yield(t) PROVE WakeInv'
    <2>1. CASE Scan(t) \/ Finish(t) \/ Yield(t) \/ Reschedule(t) \/ Back(t) \/ Idle(t)
        BY <1>1, <2>1, RunWake
    <2>2. CASE tickle(t)
        BY <1>1, <2>2, tickleWake
    <2>3. CASE getNextTimer(t) \/ IdleEnds(t) \/ StopAnswered(t)
        BY <1>1, <2>3, getNextTimerWake, IdleEndsWake, StopAnsweredWake
    <2>4. CASE Wait(t) \/ Wake(t) \/ listExpiredCb(t) \/ Post(t) \/ Drain(t)
        BY <1>1, <2>4, WaitWake, AwakeWake
    <2> QED
        BY <1>5, <2>1, <2>2, <2>3, <2>4 DEF Step
<1>6. CASE UNCHANGED vars
    <2>1. UNCHANGED <<at, after, idleTerm, next_timeout, sleep, pipe, m_tickled, m_timers>>
        BY <1>6 DEF vars, local, timers
    <2>2. \A t \in Thread : Where(t)' = Where(t)
        BY <2>1 DEF Where
    <2>3. \A t \in Thread : (Looks(t)' <=> Looks(t)) /\ (Sleepy(t)' <=> Sleepy(t))
        BY <2>1, <2>2 DEF Looks, Sleepy
    <2>4. \A t \in Thread : Covers(t)' <=> Covers(t)
        BY <2>1, <2>3 DEF Covers, Soon
    <2>5. Noticed' <=> Noticed
        BY <2>1, <2>3 DEF Noticed
    <2> QED
        BY <2>1, <2>3, <2>4, <2>5 DEF WakeInv
<1> QED
    BY <1>2, <1>3, <1>4, <1>5, <1>6 DEF Next

\* Initially nobody sleeps.
LEMMA WakeInitially ==
    ASSUME Init
    PROVE  WakeInv
<1>1. \A t \in Thread : at[t] \in {"main", "scan", "done"}
    BY DEF Init
<1> QED
    BY <1>1 DEF WakeInv, Sleepy

\* A sleeper that covers every timer wakes in time.
LEMMA WakesThen ==
    ASSUME TypeInv, WakeInv
    PROVE  WakesInTime
<1> SUFFICES ASSUME \A t \in Thread : Asleep(t), NEW s \in Thread, at[s] = "wait", DOMAIN m_timers # {}, ~pipe
             PROVE  \E t \in Thread : at[t] = "wait" /\ sleep[t] <= Max({0, Earliest})
    BY DEF WakesInTime
<1>1. Core /\ Frames /\ LocalInv /\ TimerTypes /\ Bounded
    BY DEF TypeInv, Core
<1>2. ASSUME NEW t \in Thread PROVE ~Looks(t) /\ at[t] \notin {"tickle", "stopping"}
    <2>1. at[t] \in {"wait", "done", "join", "main"} /\ at[t] \in Plain
        BY DEF Asleep, Plain
    <2>2. Where(t) = IF at[t] \in {"wait", "back"} THEN "idle" ELSE at[t]
        BY <1>1, <2>1, PlainAt
    <2> QED
        BY <2>1, <2>2 DEF Looks
<1>3. Sleepy(s)
    <2>1. at[s] \in Plain
        BY DEF Plain
    <2>2. Where(s) = "idle"
        BY <1>1, <2>1, PlainAt
    <2> QED
        BY <2>2 DEF Sleepy
<1>4. ~Noticed
    BY <1>2 DEF Noticed
<1>5. PICK t \in Thread : Covers(t)
    BY <1>3, <1>4 DEF WakeInv
<1>6. at[t] = "wait" /\ Soon(sleep[t])
    BY <1>2, <1>5 DEF Covers
<1>7. sleep[t] \in Int
    <2>1. sleep[t] \in 0..MaxTimeout /\ MaxTimeout \in Nat
        BY <1>1, <1>6, BoundAssumption DEF LocalInv
    <2> QED
        BY <2>1
<1>8. Earliest \in Int /\ \E i \in DOMAIN m_timers : m_timers[i].left = Earliest
    BY <1>1, EarliestLeft
<1>9. sleep[t] <= 0 \/ sleep[t] <= Earliest
    BY <1>6, <1>8 DEF Soon
<1>10. Max({0, Earliest}) = IF Earliest > 0 THEN Earliest ELSE 0
    BY <1>8, MaxZero
<1>11. sleep[t] <= Max({0, Earliest})
    BY <1>7, <1>8, <1>9, <1>10
<1> QED
    BY <1>6, <1>11

\* While everybody sleeps, the pipe or a time-out wakes somebody in time for the
\* next timer: m_tickled suppresses only needless wake-ups.
THEOREM TimersWake == Spec => []WakesInTime
<1>1. Init => WakeInv
    BY WakeInitially
<1>2. TypeInv /\ TypeInv' /\ WakeInv /\ [Next]_vars => WakeInv'
    BY WakeNext
<1>3. TypeInv /\ WakeInv => WakesInTime
    BY WakesThen
<1> QED
    BY <1>1, <1>2, <1>3, TypeInvHolds, PTL DEF Spec
=============================================================================

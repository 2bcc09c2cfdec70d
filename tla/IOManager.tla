------------------------------- MODULE IOManager -------------------------------
(***************************************************************************)
(* Fibers that block in hooked system calls: do_io of sylar/hook.cc, the   *)
(* event contexts and the idle loop of sylar/iomanager.cc, and the loop of *)
(* sylar/scheduler.cc that resumes fibers, on several threads.             *)
(*                                                                         *)
(* A step is what a thread does under one lock (the FdContext's, the task  *)
(* queue's, the timers') or between two accesses to shared state.  Time is *)
(* left out: a timer may expire at any moment after it was added.  Tasks   *)
(* are callbacks, which run() gives fibers that yield to its main fiber,   *)
(* as everywhere in the repository.                                        *)
(***************************************************************************)
EXTENDS Integers, Sequences, FiniteSets

CONSTANTS
    Thread,         \* the threads of the IOManager
    Fiber,          \* fibers, each making hooked calls one after the other
    Fd,             \* sockets
    Timed,          \* the fibers whose calls have a timeout
    None,
    MaxCall,        \* bound: calls a fiber makes
    MaxClose        \* bound: how often a descriptor is closed

ASSUME ThreadAssumption == Thread # {} /\ IsFiniteSet(Thread) /\ IsFiniteSet(Fiber) /\ IsFiniteSet(Fd)
ASSUME TimedAssumption == Timed \subseteq Fiber /\ None \notin Fiber
ASSUME CallAssumption == MaxCall \in Nat /\ MaxClose \in Nat

VARIABLES
    doing,          \* [t]: where thread t is in run() or idle()
    who,            \* [t]: the fiber t takes, runs, or has just left
    todo,           \* [t]: results of epoll_wait t has not handled yet
    target,         \* [t]: fd and event the timeout callback on t cancels
    m_fibers,       \* the task queue
    m_state,        \* [f]: INIT, EXEC, HOLD or TERM
    pc,             \* [f]: where fiber f is in do_io
    want,           \* [f]: fd and event of its call
    cancelled,      \* [f]: timer_info of its call
    timer,          \* [f]: its timer is in m_timers
    calls,          \* [f]: calls made
    events,         \* [fd]: FdContext::events
    context,        \* [fd][e]: the fiber of EventContext e
    m_pendingEventCount,
    closes,         \* [fd]: how often closed
    opened,         \* [fd]: open
    ready,          \* [fd]: events a system call would not block on
    hangup,         \* [fd]: the peer hung up (EPOLLHUP)
    registered,     \* [fd]: in the epoll set, with mask events[fd]
    listed,         \* descriptors on epoll's ready list
    aborted         \* the assertion that failed, or "no"

threadVars == <<doing, who, todo, target>>
bounds == <<calls, closes>>
fiberVars == <<pc, want, cancelled, timer, bounds>>
eventVars == <<events, context, m_pendingEventCount>>
kernelVars == <<opened, ready, hangup, registered, listed>>
vars == <<threadVars, m_fibers, m_state, fiberVars, eventVars, kernelVars, aborted>>

Event == {"READ", "WRITE"}

\* Entries of the task queue: a fiber, the timeout callback of its call, or one
\* whose call is over.
FiberTask(f) == [kind |-> "fiber", fiber |-> f]
TimeoutTask(f) == [kind |-> "timeout", fiber |-> f]
ExpiredTask == [kind |-> "expired", fiber |-> None]
Task == [kind : {"fiber", "timeout"}, fiber : Fiber] \cup {ExpiredTask}

Result == [fd : Fd, events : SUBSET Event, hangup : BOOLEAN]

Fine == aborted = "no"

\* The members of a finite set in some order.
Orders(S) == {q \in [1..Cardinality(S) -> S] : \A x \in S : \E k \in DOMAIN q : q[k] = x}

Init ==
    /\ doing = [t \in Thread |-> "run"]
    /\ who = [t \in Thread |-> None]
    /\ todo = [t \in Thread |-> {}]
    /\ target = [t \in Thread |-> None]
    /\ m_fibers \in Orders({FiberTask(f) : f \in Fiber})
    /\ m_state = [f \in Fiber |-> "INIT"]
    /\ pc = [f \in Fiber |-> "new"]
    /\ want = [f \in Fiber |-> None]
    /\ cancelled = [f \in Fiber |-> FALSE]
    /\ timer = [f \in Fiber |-> FALSE]
    /\ calls = [f \in Fiber |-> 0]
    /\ events = [fd \in Fd |-> {}]
    /\ context = [fd \in Fd |-> [e \in Event |-> None]]
    /\ m_pendingEventCount = 0
    /\ opened = [fd \in Fd |-> TRUE]
    /\ closes = [fd \in Fd |-> 0]
    /\ ready = [fd \in Fd |-> {}]
    /\ hangup = [fd \in Fd |-> FALSE]
    /\ registered = [fd \in Fd |-> FALSE]
    /\ listed = {}
    /\ aborted = "no"

Abort(why) ==
    /\ aborted' = why
    /\ UNCHANGED <<threadVars, m_fibers, m_state, fiberVars, eventVars, kernelVars>>

-----------------------------------------------------------------------------
(* Scheduler::run *)

\* Mutant: a fiber that is still running is taken too.
Eligible_Running(task) == TRUE

\* run() passes over a fiber that has not been left yet.
Eligible(task) == task.kind = "fiber" => m_state[task.fiber] # "EXEC"

\* The first task of the queue a thread may take is the k-th.
NextTask(k) ==
    /\ k \in 1..Len(m_fibers)
    /\ Eligible(m_fibers[k])
    /\ \A j \in 1..(k - 1) : ~Eligible(m_fibers[j])

Without(q, k) == SubSeq(q, 1, k - 1) \o SubSeq(q, k + 1, Len(q))

\* Under the queue's lock; the thread resumes the fiber after releasing it.
TakeFiber(t) ==
    /\ Fine
    /\ doing[t] = "run"
    /\ \E k \in 1..Len(m_fibers) :
          /\ NextTask(k)
          /\ m_fibers[k].kind = "fiber"
          /\ m_fibers' = Without(m_fibers, k)
          /\ doing' = [doing EXCEPT ![t] = "resume"]
          /\ who' = [who EXCEPT ![t] = m_fibers[k].fiber]
    /\ UNCHANGED <<todo, target, m_state, fiberVars, eventVars, kernelVars, aborted>>

\* Fiber::resume asserts that nobody else runs the fiber.
Resume(t) ==
    LET f == who[t] IN
    /\ Fine
    /\ doing[t] = "resume"
    /\ IF m_state[f] = "EXEC"
       THEN Abort("resume")
       ELSE /\ m_state' = [m_state EXCEPT ![f] = "EXEC"]
            /\ doing' = [doing EXCEPT ![t] = "fiber"]
            /\ pc' = [pc EXCEPT ![f] = IF @ = "new" THEN "out" ELSE "back"]
            /\ UNCHANGED <<who, todo, target, m_fibers, want, cancelled, timer, bounds, eventVars,
                           kernelVars, aborted>>

\* Back in run() after the fiber yielded: only now does its state change.
Hold(t) ==
    /\ Fine
    /\ doing[t] = "hold"
    /\ m_state' = [m_state EXCEPT ![who[t]] = "HOLD"]
    /\ doing' = [doing EXCEPT ![t] = "run"]
    /\ who' = [who EXCEPT ![t] = None]
    /\ UNCHANGED <<todo, target, m_fibers, fiberVars, eventVars, kernelVars, aborted>>

\* The callback returns: Fiber::run.
Finish(t) ==
    /\ Fine
    /\ doing[t] = "fiber" /\ pc[who[t]] = "out"
    /\ m_state' = [m_state EXCEPT ![who[t]] = "TERM"]
    /\ pc' = [pc EXCEPT ![who[t]] = "done"]
    /\ doing' = [doing EXCEPT ![t] = "run"]
    /\ who' = [who EXCEPT ![t] = None]
    /\ UNCHANGED <<todo, target, m_fibers, want, cancelled, timer, bounds, eventVars, kernelVars,
                   aborted>>

-----------------------------------------------------------------------------
(* Event contexts *)

\* epoll puts a descriptor whose mask changes on its ready list if it is ready.
Relist(fd, mask) == IF ready[fd] \cap mask # {} \/ hangup[fd] THEN listed \cup {fd} ELSE listed \ {fd}

\* epoll_ctl with what is left of the events: MOD, or DEL when nothing is.
Narrow(fd, left) ==
    /\ registered' = [registered EXCEPT ![fd] = left # {}]
    /\ listed' = IF left = {} THEN listed \ {fd} ELSE Relist(fd, left)
    /\ UNCHANGED <<opened, ready, hangup>>

\* The fibers that wait for the events, READ first.
Waiting(fd, which) ==
    LET task(e) == IF e \in which THEN <<FiberTask(context[fd][e])>> ELSE <<>>
    IN  task("READ") \o task("WRITE")

\* Mutant: the context keeps the fiber it has just scheduled.
Trigger_KeepsFiber(fd, which) ==
    /\ events' = [events EXCEPT ![fd] = @ \ which]
    /\ m_fibers' = m_fibers \o Waiting(fd, which)
    /\ m_pendingEventCount' = m_pendingEventCount - Cardinality(which)
    /\ UNCHANGED context

\* Mutant: triggerEvent counts down as well as its caller.
Trigger_CountsTwice(fd, which) ==
    /\ events' = [events EXCEPT ![fd] = @ \ which]
    /\ m_fibers' = m_fibers \o Waiting(fd, which)
    /\ context' = [context EXCEPT ![fd] = [e \in Event |-> IF e \in which THEN None ELSE @[e]]]
    /\ m_pendingEventCount' = m_pendingEventCount - 2 * Cardinality(which)

\* triggerEvent and the count, for each of the events.
Trigger(fd, which) ==
    /\ events' = [events EXCEPT ![fd] = @ \ which]
    /\ m_fibers' = m_fibers \o Waiting(fd, which)
    /\ context' = [context EXCEPT ![fd] = [e \in Event |-> IF e \in which THEN None ELSE @[e]]]
    /\ m_pendingEventCount' = m_pendingEventCount - Cardinality(which)

\* cancelEvent and cancelAll, for the events that are to go: nothing happens
\* when none of them is waited for or epoll_ctl fails.
CancelEvents(fd, which) ==
    LET gone == events[fd] \cap which IN
    IF gone # {} /\ registered[fd]
    THEN Trigger(fd, gone) /\ Narrow(fd, events[fd] \ gone)
    ELSE UNCHANGED <<m_fibers, eventVars, kernelVars>>

-----------------------------------------------------------------------------
(* do_io *)

Runs(t, f, at) == Fine /\ doing[t] = "fiber" /\ who[t] = f /\ pc[f] = at

\* do_io returns: its timer_info goes, and a callback already in the queue will
\* find it gone.
Return(f) ==
    /\ pc' = [pc EXCEPT ![f] = "out"]
    /\ m_fibers' = [k \in 1..Len(m_fibers) |->
                      IF m_fibers[k] = TimeoutTask(f) THEN ExpiredTask ELSE m_fibers[k]]
    /\ want' = [want EXCEPT ![f] = None]
    /\ cancelled' = [cancelled EXCEPT ![f] = FALSE]

Call(t, f, fd, e) ==
    /\ Runs(t, f, "out")
    /\ calls[f] < MaxCall
    /\ calls' = [calls EXCEPT ![f] = @ + 1]
    /\ want' = [want EXCEPT ![f] = <<fd, e>>]
    /\ pc' = [pc EXCEPT ![f] = "try"]
    /\ UNCHANGED <<threadVars, m_fibers, m_state, cancelled, timer, closes, eventVars, kernelVars, aborted>>

\* The system call returns something, possibly using up what made it ready.
TryDone(t, f) ==
    LET fd == want[f][1]
        e == want[f][2]
    IN  /\ Runs(t, f, "try")
        /\ \/ ~opened[fd] /\ UNCHANGED ready
           \/ opened[fd] /\ e \in ready[fd]
              /\ \/ UNCHANGED ready
                 \/ ~hangup[fd] /\ ready' = [ready EXCEPT ![fd] = @ \ {e}]
        /\ Return(f)
        /\ UNCHANGED <<threadVars, m_state, timer, bounds, eventVars, opened,
                       hangup, registered, listed, aborted>>

\* EAGAIN: the timer is added before the event.
TryAgain(t, f) ==
    /\ Runs(t, f, "try")
    /\ opened[want[f][1]] /\ want[f][2] \notin ready[want[f][1]]
    /\ timer' = [timer EXCEPT ![f] = f \in Timed]
    /\ pc' = [pc EXCEPT ![f] = "add"]
    /\ UNCHANGED <<threadVars, m_fibers, m_state, want, cancelled, bounds, eventVars, kernelVars,
                   aborted>>

\* addEvent fails: somebody waits for this event already, or epoll_ctl refuses
\* (a closed descriptor; MOD of one that epoll no longer knows).
Refused(fd, e) == e \in events[fd] \/ ~opened[fd] \/ (events[fd] # {} /\ ~registered[fd])

\* Mutant: the event is counted before epoll_ctl is known to succeed.
AddFails_Counted(t, f) ==
    /\ Runs(t, f, "add")
    /\ Refused(want[f][1], want[f][2])
    /\ timer' = [timer EXCEPT ![f] = FALSE]
    /\ m_pendingEventCount' = m_pendingEventCount + 1
    /\ Return(f)
    /\ UNCHANGED <<threadVars, m_state, bounds, events, context, kernelVars, aborted>>

\* do_io cancels its timer and fails.
AddFails(t, f) ==
    /\ Runs(t, f, "add")
    /\ Refused(want[f][1], want[f][2])
    /\ timer' = [timer EXCEPT ![f] = FALSE]
    /\ Return(f)
    /\ UNCHANGED <<threadVars, m_state, bounds, eventVars, kernelVars, aborted>>

\* Mutant: no epoll_ctl for a descriptor that is in the epoll set already.
addEvent_NoMod(t, f) ==
    LET fd == want[f][1]
        e == want[f][2]
    IN  /\ Runs(t, f, "add")
        /\ ~Refused(fd, e)
        /\ events' = [events EXCEPT ![fd] = @ \cup {e}]
        /\ context' = [context EXCEPT ![fd][e] = f]
        /\ m_pendingEventCount' = m_pendingEventCount + 1
        /\ registered' = [registered EXCEPT ![fd] = TRUE]
        /\ listed' = IF registered[fd] THEN listed ELSE Relist(fd, {e})
        /\ pc' = [pc EXCEPT ![f] = "yield"]
        /\ UNCHANGED <<threadVars, m_fibers, m_state, want, cancelled, timer, bounds, opened, ready,
                       hangup, aborted>>

\* addEvent: epoll first, then the context, all under the FdContext's lock.
addEvent(t, f) ==
    LET fd == want[f][1]
        e == want[f][2]
    IN  /\ Runs(t, f, "add")
        /\ ~Refused(fd, e)
        /\ IF context[fd][e] # None
           THEN Abort("context")
           ELSE /\ events' = [events EXCEPT ![fd] = @ \cup {e}]
                /\ context' = [context EXCEPT ![fd][e] = f]
                /\ m_pendingEventCount' = m_pendingEventCount + 1
                /\ registered' = [registered EXCEPT ![fd] = TRUE]
                /\ listed' = Relist(fd, events[fd] \cup {e})
                /\ pc' = [pc EXCEPT ![f] = "yield"]
                /\ UNCHANGED <<threadVars, m_fibers, m_state, want, cancelled, timer, bounds,
                               opened, ready, hangup, aborted>>

Yield(t, f) ==
    /\ Runs(t, f, "yield")
    /\ pc' = [pc EXCEPT ![f] = "wait"]
    /\ doing' = [doing EXCEPT ![t] = "hold"]
    /\ UNCHANGED <<who, todo, target, m_fibers, m_state, want, cancelled, timer, bounds, eventVars,
                   kernelVars, aborted>>

\* Resumed: cancel the timer; the timeout's error, or try again.
Back(t, f) ==
    /\ Runs(t, f, "back")
    /\ timer' = [timer EXCEPT ![f] = FALSE]
    /\ IF cancelled[f] THEN Return(f)
                       ELSE pc' = [pc EXCEPT ![f] = "try"] /\ UNCHANGED <<m_fibers, want, cancelled>>
    /\ UNCHANGED <<threadVars, m_state, bounds, eventVars, kernelVars, aborted>>

\* Socket::cancelRead, cancelWrite, cancelAll, called by a fiber of its own.
CancelBy(t, f, fd, which) ==
    /\ Runs(t, f, "out")
    /\ calls[f] < MaxCall
    /\ calls' = [calls EXCEPT ![f] = @ + 1]
    /\ events[fd] \cap which # {}
    /\ CancelEvents(fd, which)
    /\ UNCHANGED <<threadVars, m_state, pc, want, cancelled, timer, closes, aborted>>

\* close: cancelAll, then the system call, which also leaves the epoll set.
Close(t, f, fd) ==
    /\ Runs(t, f, "out")
    /\ opened[fd]
    /\ closes[fd] < MaxClose
    /\ closes' = [closes EXCEPT ![fd] = @ + 1]
    /\ want' = [want EXCEPT ![f] = <<fd, "READ">>]
    /\ pc' = [pc EXCEPT ![f] = "closing"]
    /\ CancelEvents(fd, Event)
    /\ UNCHANGED <<threadVars, m_state, cancelled, timer, calls, aborted>>

Closing(t, f) ==
    LET fd == want[f][1] IN
    /\ Runs(t, f, "closing")
    /\ pc' = [pc EXCEPT ![f] = "out"]
    /\ want' = [want EXCEPT ![f] = None]
    /\ opened' = [opened EXCEPT ![fd] = FALSE]
    /\ registered' = [registered EXCEPT ![fd] = FALSE]
    /\ listed' = listed \ {fd}
    /\ UNCHANGED <<threadVars, m_fibers, m_state, cancelled, timer, bounds, eventVars, ready,
                   hangup, aborted>>

\* socket or accept hands out the lowest free descriptor: the number comes back.
Opens(t, f, fd) ==
    /\ Runs(t, f, "out")
    /\ ~opened[fd]
    /\ opened' = [opened EXCEPT ![fd] = TRUE]
    /\ ready' = [ready EXCEPT ![fd] = {}]
    /\ hangup' = [hangup EXCEPT ![fd] = FALSE]
    /\ UNCHANGED <<threadVars, m_fibers, m_state, fiberVars, eventVars, registered, listed,
                   aborted>>

-----------------------------------------------------------------------------
(* The timeout callback and the idle loop *)

\* OnTimer's callback runs as a task: check timer_info, if it is still there,
\* and set it ...
Timeout(t) ==
    /\ Fine
    /\ doing[t] = "run"
    /\ \E k \in 1..Len(m_fibers) :
          LET f == m_fibers[k].fiber IN
          /\ NextTask(k)
          /\ m_fibers[k].kind # "fiber"
          /\ m_fibers' = Without(m_fibers, k)
          /\ IF m_fibers[k] = ExpiredTask \/ cancelled[f]
             THEN UNCHANGED <<doing, target, cancelled>>
             ELSE /\ cancelled' = [cancelled EXCEPT ![f] = TRUE]
                  /\ doing' = [doing EXCEPT ![t] = "timeout"]
                  /\ target' = [target EXCEPT ![t] = want[f]]
    /\ UNCHANGED <<who, todo, m_state, pc, want, timer, bounds, eventVars, kernelVars, aborted>>

\* ... then cancelEvent, whoever waits for the event by now.
TimeoutCancels(t) ==
    /\ Fine
    /\ doing[t] = "timeout"
    /\ CancelEvents(target[t][1], {target[t][2]})
    /\ doing' = [doing EXCEPT ![t] = "run"]
    /\ target' = [target EXCEPT ![t] = None]
    /\ UNCHANGED <<who, todo, m_state, fiberVars, aborted>>

\* Nothing to take: the idle fiber calls epoll_wait ...
Idle(t) ==
    /\ Fine
    /\ doing[t] = "run"
    /\ \A k \in 1..Len(m_fibers) : ~Eligible(m_fibers[k])
    /\ doing' = [doing EXCEPT ![t] = "idle"]
    /\ UNCHANGED <<who, todo, target, m_fibers, m_state, fiberVars, eventVars, kernelVars, aborted>>

\* ... which returns, because of events, a tickle or its timeout.
EpollWait(t) ==
    /\ Fine
    /\ doing[t] = "idle"
    /\ doing' = [doing EXCEPT ![t] = "expire"]
    /\ todo' = [todo EXCEPT ![t] =
                   {[fd |-> fd, events |-> ready[fd] \cap events[fd], hangup |-> hangup[fd]] :
                       fd \in {d \in listed : ready[d] \cap events[d] # {} \/ hangup[d]}}]
    /\ listed' = {}
    /\ UNCHANGED <<who, target, m_fibers, m_state, fiberVars, eventVars, opened, ready, hangup,
                   registered, aborted>>

\* listExpiredCb, then schedule: some of the timers have expired.
ListExpired(t) ==
    /\ Fine
    /\ doing[t] = "expire"
    /\ doing' = [doing EXCEPT ![t] = "events"]
    /\ \E expired \in SUBSET {f \in Fiber : timer[f]} :
          /\ timer' = [f \in Fiber |-> timer[f] /\ f \notin expired]
          /\ \E q \in Orders({TimeoutTask(f) : f \in expired}) : m_fibers' = m_fibers \o q
    /\ UNCHANGED <<who, todo, target, m_state, pc, want, cancelled, bounds, eventVars, kernelVars,
                   aborted>>

\* One result of epoll_wait, under the lock of its FdContext.  Which of its
\* events are still waited for is not looked at again one by one.
HandleEvent(t, r) ==
    LET real == r.events \cup (IF r.hangup THEN events[r.fd] ELSE {})
        left == events[r.fd] \ real
    IN  /\ Fine
        /\ doing[t] = "events"
        /\ r \in todo[t]
        /\ IF events[r.fd] \cap real = {} \/ ~registered[r.fd]
           THEN /\ todo' = [todo EXCEPT ![t] = @ \ {r}]
                /\ UNCHANGED <<m_fibers, eventVars, kernelVars, aborted>>
           ELSE IF ~(real \subseteq events[r.fd])
                THEN /\ aborted' = "trigger"
                     /\ UNCHANGED <<todo, m_fibers, eventVars, kernelVars>>
                ELSE /\ Trigger(r.fd, real)
                     /\ Narrow(r.fd, left)
                     /\ todo' = [todo EXCEPT ![t] = @ \ {r}]
                     /\ UNCHANGED aborted
        /\ UNCHANGED <<doing, who, target, m_state, fiberVars>>

IdleEnds(t) ==
    /\ Fine
    /\ doing[t] = "events" /\ todo[t] = {}
    /\ doing' = [doing EXCEPT ![t] = "run"]
    /\ UNCHANGED <<who, todo, target, m_fibers, m_state, fiberVars, eventVars, kernelVars, aborted>>

-----------------------------------------------------------------------------
(* The other end of the socket *)

\* Data, or room for data, arrives (again): epoll's wake-up callback.
BecomesReady(fd, e) ==
    /\ Fine
    /\ opened[fd]
    /\ ready' = [ready EXCEPT ![fd] = @ \cup {e}]
    /\ listed' = IF registered[fd] /\ e \in events[fd] THEN listed \cup {fd} ELSE listed
    /\ UNCHANGED <<threadVars, m_fibers, m_state, fiberVars, eventVars, opened, hangup, registered,
                   aborted>>

HangsUp(fd) ==
    /\ Fine
    /\ opened[fd] /\ ~hangup[fd]
    /\ hangup' = [hangup EXCEPT ![fd] = TRUE]
    /\ ready' = [ready EXCEPT ![fd] = Event]
    /\ listed' = IF registered[fd] THEN listed \cup {fd} ELSE listed
    /\ UNCHANGED <<threadVars, m_fibers, m_state, fiberVars, eventVars, opened, registered,
                   aborted>>

Step(t) ==
    \/ TakeFiber(t) \/ Resume(t) \/ Hold(t) \/ Finish(t) \/ Idle(t)
    \/ Timeout(t) \/ TimeoutCancels(t)
    \/ EpollWait(t) \/ ListExpired(t) \/ IdleEnds(t)
    \/ \E r \in todo[t] : HandleEvent(t, r)
    \/ \E f \in Fiber :
          \/ TryDone(t, f) \/ TryAgain(t, f) \/ AddFails(t, f) \/ addEvent(t, f)
          \/ Yield(t, f) \/ Back(t, f) \/ Closing(t, f)
          \/ \E fd \in Fd :
                \/ Close(t, f, fd) \/ Opens(t, f, fd)
                \/ \E e \in Event : Call(t, f, fd, e) \/ CancelBy(t, f, fd, {e})
                \/ CancelBy(t, f, fd, Event)

Next ==
    \/ \E t \in Thread : Step(t)
    \/ \E fd \in Fd : HangsUp(fd) \/ \E e \in Event : BecomesReady(fd, e)

Spec == Init /\ [][Next]_vars

\* Threads go on, and a timer does not stay unexpired for ever while idle
\* threads look at the clock.  Nothing is assumed of the other end.
Expires(f) == timer[f] /\ \E t \in Thread : ListExpired(t) /\ ~timer'[f]

LiveSpec ==
    /\ Spec
    /\ \A t \in Thread : WF_vars(Step(t))
    /\ \A f \in Fiber : SF_vars(Expires(f))

-----------------------------------------------------------------------------
\* Variables have their types; in particular m_pendingEventCount, a size_t,
\* is never decremented below 0.
TypeOK ==
    /\ doing \in [Thread -> {"run", "resume", "fiber", "hold", "timeout", "idle", "expire", "events"}]
    /\ who \in [Thread -> Fiber \cup {None}]
    /\ todo \in [Thread -> SUBSET Result]
    /\ target \in [Thread -> (Fd \X Event) \cup {None}]
    /\ m_fibers \in Seq(Task)
    /\ m_state \in [Fiber -> {"INIT", "EXEC", "HOLD", "TERM"}]
    /\ pc \in [Fiber -> {"new", "out", "try", "add", "yield", "wait", "back", "closing", "done"}]
    /\ want \in [Fiber -> (Fd \X Event) \cup {None}]
    /\ cancelled \in [Fiber -> BOOLEAN] /\ timer \in [Fiber -> BOOLEAN]
    /\ calls \in [Fiber -> 0..MaxCall]
    /\ events \in [Fd -> SUBSET Event]
    /\ context \in [Fd -> [Event -> Fiber \cup {None}]]
    /\ m_pendingEventCount \in Nat
    /\ opened \in [Fd -> BOOLEAN] /\ closes \in [Fd -> 0..MaxClose]
    /\ ready \in [Fd -> SUBSET Event] /\ hangup \in [Fd -> BOOLEAN]
    /\ registered \in [Fd -> BOOLEAN] /\ listed \subseteq Fd
    /\ aborted \in {"no", "resume", "context", "trigger"}

\* The places from which a fiber can come to run again.
Wakeups(f) ==
    {<<"context", p>> : p \in {c \in Fd \X Event : context[c[1]][c[2]] = f}}
    \cup {<<"queue", k>> : k \in {j \in 1..Len(m_fibers) : m_fibers[j] = FiberTask(f)}}
    \cup {<<"thread", t>> : t \in {x \in Thread : doing[x] = "resume" /\ who[x] = f}}

\* A fiber that waits, or is about to, is in exactly one place: an event
\* context, the task queue, or a thread's hands.  However its event, its
\* timeout, a cancellation and a close race, triggerEvent hands it on once.
WokenOnce ==
    \A f \in Fiber :
        Cardinality(Wakeups(f)) = IF pc[f] \in {"new", "yield", "wait"} THEN 1 ELSE 0

\* No fiber runs on two threads, although its event may be triggered before
\* run() has left it, and the assertions of Fiber::resume and addEvent hold.
RunsOnce ==
    /\ aborted \notin {"resume", "context"}
    /\ \A t, x \in Thread : doing[t] \in {"fiber", "hold"} /\ doing[x] \in {"fiber", "hold"}
                            /\ who[t] = who[x] => t = x

\* m_pendingEventCount, on which stop() waits, counts the events waited for.
PendingCounted ==
    Fine => m_pendingEventCount = Cardinality({p \in Fd \X Event : p[2] \in events[p[1]]})

\* Edge-triggered epoll reports a change once: an event that is waited for and
\* has happened is, while its descriptor is registered, on the ready list or in
\* the results some thread works on.  A registration that the kernel dropped at
\* close() (hook.cc:372), with the fiber that waits on it, is outside.
NoMissedEvent ==
    \A fd \in Fd : \A e \in events[fd] \cap ready[fd] :
        registered[fd] => \/ fd \in listed
                          \/ \E t \in Thread : \E r \in todo[t] : r.fd = fd /\ (e \in r.events \/ r.hangup)

\* A call on a socket with a timeout does not block for ever (only timeout -1
\* means blocking): somebody resumes the fiber, whatever the other end does.
TimedCallReturns ==
    \A f \in Timed : pc[f] = "wait" ~> pc[f] # "wait" \/ ~Fine
=============================================================================

--------------------------- MODULE IOManagerProofs ---------------------------
(* Fibers are handed from the event contexts to the queue, from the queue to a *)
(* thread and back, and never lost, doubled or run twice at a time, for any    *)
(* number of threads, fibers, descriptors and calls.                           *)
EXTENDS IOManager, FiniteSetTheorems, SequenceTheorems, TLAPS

-----------------------------------------------------------------------------
(* The inductive invariant *)

InContext(f) == \E fd \in Fd, e \in Event : context[fd][e] = f
Has(q, task) == \E k \in 1..Len(q) : q[k] = task
Queued(task) == Has(m_fibers, task)
InHands(f) == \E t \in Thread : doing[t] = "resume" /\ who[t] = f

\* What a thread has in hand fits what it does.
ThreadInv ==
    \A t \in Thread :
        /\ doing[t] \in {"resume", "fiber", "hold"} => who[t] \in Fiber
        /\ doing[t] = "resume" => m_state[who[t]] # "EXEC"
        /\ doing[t] \in {"fiber", "hold"} => m_state[who[t]] = "EXEC"
        /\ doing[t] = "fiber" => pc[who[t]] \notin {"new", "wait", "done"}
        /\ doing[t] = "hold" => pc[who[t]] = "wait"
        /\ doing[t] = "timeout" => target[t] \in Fd \X Event
        /\ todo[t] # {} => doing[t] \in {"expire", "events"}

\* A fiber has a call's descriptor, timer and callback only during the call.
FiberInv ==
    \A f \in Fiber :
        /\ m_state[f] # "EXEC" => pc[f] \in {"new", "wait", "done"}
        /\ pc[f] \in {"try", "add", "yield", "wait", "back", "closing"} => want[f] \in Fd \X Event
        /\ timer[f] => pc[f] \in {"add", "yield", "wait", "back"}
        /\ Queued(TimeoutTask(f)) => pc[f] \in {"try", "add", "yield", "wait", "back"}

\* No fiber is on two threads.
AloneOnThread ==
    \A t, x \in Thread : doing[t] \in {"fiber", "hold"} /\ doing[x] \in {"fiber", "hold"}
                         /\ who[t] = who[x] => t = x

\* An event context has a fiber while its event is waited for.
ContextInv == \A fd \in Fd, e \in Event : context[fd][e] # None <=> e \in events[fd]

\* No place has a fiber twice ...
ContextOnce ==
    \A c, d \in Fd, e, g \in Event :
        context[c][e] = context[d][g] /\ context[c][e] # None => c = d /\ e = g
FibersOnce(q) == \A j, k \in 1..Len(q) : q[j] = q[k] /\ q[j].kind = "fiber" => j = k
QueuedOnce == FibersOnce(m_fibers)
HandsOnce ==
    \A t, x \in Thread :
        doing[t] = "resume" /\ doing[x] = "resume" /\ who[t] = who[x] => t = x

\* ... no two places have the same, and some place has each that waits.
OnePlace ==
    \A f \in Fiber :
        /\ ~(InContext(f) /\ Queued(FiberTask(f)))
        /\ ~(InContext(f) /\ InHands(f))
        /\ ~(Queued(FiberTask(f)) /\ InHands(f))
        /\ pc[f] \in {"new", "yield", "wait"} <=> InContext(f) \/ Queued(FiberTask(f)) \/ InHands(f)

Waited == {p \in Fd \X Event : p[2] \in events[p[1]]}
Counted == m_pendingEventCount = Cardinality(Waited)

NeverAborts == aborted \notin {"resume", "context"}

Inv ==
    /\ TypeOK /\ ThreadInv /\ FiberInv /\ AloneOnThread
    /\ ContextInv /\ ContextOnce /\ QueuedOnce /\ HandsOnce /\ OnePlace
    /\ Counted /\ NoMissedEvent /\ NeverAborts

-----------------------------------------------------------------------------
(* The task queue *)

\* A task taken out leaves the others, in their order.
LEMMA WithoutElements ==
    ASSUME NEW q \in Seq(Task), NEW k \in 1..Len(q)
    PROVE  /\ Without(q, k) \in Seq(Task)
           /\ Len(Without(q, k)) = Len(q) - 1
           /\ \A j \in 1..Len(q) - 1 : Without(q, k)[j] = q[IF j < k THEN j ELSE j + 1]
<1> DEFINE a == SubSeq(q, 1, k - 1)
           b == SubSeq(q, k + 1, Len(q))
<1>1. Len(q) \in Nat /\ k \in Nat /\ \A i \in 1..Len(q) : q[i] \in Task
  BY LenProperties, ElementOfSeq
<1>2. /\ a \in Seq(Task) /\ Len(a) = k - 1
      /\ \A i \in 1..k - 1 : a[i] = q[i]
  BY <1>1, SubSeqProperties
<1>3. /\ b \in Seq(Task) /\ Len(b) = Len(q) - k
      /\ \A i \in 1..Len(q) - k : b[i] = q[k + i]
  <2>1. \A i \in k + 1..Len(q) : q[i] \in Task
    BY <1>1
  <2>2. /\ b \in Seq(Task)
        /\ Len(b) = IF k + 1 <= Len(q) THEN Len(q) - (k + 1) + 1 ELSE 0
        /\ \A i \in 1..Len(q) - (k + 1) + 1 : b[i] = q[k + 1 + i - 1]
    BY <1>1, <2>1, SubSeqProperties
  <2> QED
    BY <1>1, <2>2
<1> HIDE DEF a, b
<1>4. /\ a \o b \in Seq(Task) /\ Len(a \o b) = Len(q) - 1
      /\ \A i \in 1..Len(a) + Len(b) : (a \o b)[i] = IF i <= Len(a) THEN a[i] ELSE b[i - Len(a)]
  BY <1>1, <1>2, <1>3, ConcatProperties
<1>5. Without(q, k) = a \o b
  BY DEF Without, a, b
<1>6. ASSUME NEW j \in 1..Len(q) - 1
      PROVE  (a \o b)[j] = q[IF j < k THEN j ELSE j + 1]
  <2>1. j < k => j \in 1..k - 1
    BY <1>1
  <2>2. j >= k => j - (k - 1) \in 1..Len(q) - k /\ k + (j - (k - 1)) = j + 1
    BY <1>1
  <2>3. j \in 1..Len(a) + Len(b)
    BY <1>1, <1>2, <1>3
  <2> QED
    BY <1>1, <1>2, <1>3, <1>4, <2>1, <2>2, <2>3
<1> QED
  BY <1>4, <1>5, <1>6

\* What is left of the queue when a thread has taken its k-th task.
LEMMA WithoutHas ==
    ASSUME NEW q \in Seq(Task), NEW k \in 1..Len(q)
    PROVE  /\ \A x : Has(Without(q, k), x) => Has(q, x)
           /\ \A x : Has(q, x) /\ x # q[k] => Has(Without(q, k), x)
           /\ FibersOnce(q) => FibersOnce(Without(q, k))
           /\ FibersOnce(q) /\ q[k].kind = "fiber" => ~Has(Without(q, k), q[k])
<1> DEFINE w == Without(q, k)
<1>1. Len(q) \in Nat /\ k \in Nat
  BY LenProperties
<1>2. /\ Len(w) = Len(q) - 1
      /\ \A j \in 1..Len(q) - 1 : w[j] = q[IF j < k THEN j ELSE j + 1]
  BY WithoutElements
<1> HIDE DEF w
<1>3. ASSUME NEW x, Has(w, x) PROVE Has(q, x)
  BY <1>1, <1>2, <1>3 DEF Has
<1>4. ASSUME NEW x, Has(q, x), x # q[k] PROVE Has(w, x)
  <2>1. PICK j \in 1..Len(q) : q[j] = x
    BY <1>4 DEF Has
  <2>2. CASE j < k
    BY <1>1, <1>2, <2>1, <2>2 DEF Has
  <2>3. CASE j > k
    <3>1. j - 1 \in 1..Len(w) /\ w[j - 1] = q[j]
      BY <1>1, <1>2, <2>1, <2>3
    <3> QED
      BY <2>1, <3>1 DEF Has
  <2> QED
    BY <1>1, <1>4, <2>1, <2>2, <2>3
<1>5. ASSUME FibersOnce(q) PROVE FibersOnce(w)
  BY <1>1, <1>2, <1>5 DEF FibersOnce
<1>6. ASSUME FibersOnce(q), q[k].kind = "fiber", Has(w, q[k]) PROVE FALSE
  BY <1>1, <1>2, <1>6 DEF FibersOnce, Has
<1> QED
  BY <1>3, <1>4, <1>5, <1>6 DEF w

\* A queue with others behind it.
LEMMA ConcatHas ==
    ASSUME NEW q \in Seq(Task), NEW r \in Seq(Task)
    PROVE  /\ q \o r \in Seq(Task)
           /\ \A x : Has(q \o r, x) <=> Has(q, x) \/ Has(r, x)
           /\ FibersOnce(q) /\ FibersOnce(r)
              /\ (\A x \in Task : x.kind = "fiber" => ~(Has(q, x) /\ Has(r, x)))
              => FibersOnce(q \o r)
<1>1. /\ Len(q) \in Nat /\ Len(r) \in Nat
      /\ \A i \in 1..Len(q) : q[i] \in Task
      /\ \A i \in 1..Len(r) : r[i] \in Task
  BY LenProperties, ElementOfSeq
<1>2. /\ q \o r \in Seq(Task)
      /\ Len(q \o r) = Len(q) + Len(r)
      /\ \A i \in 1..Len(q) + Len(r) : (q \o r)[i] = IF i <= Len(q) THEN q[i] ELSE r[i - Len(q)]
  BY ConcatProperties
<1>3. ASSUME NEW x, Has(q \o r, x) PROVE Has(q, x) \/ Has(r, x)
  <2>1. PICK i \in 1..Len(q) + Len(r) : (q \o r)[i] = x
    BY <1>2, <1>3 DEF Has
  <2>2. i > Len(q) => i - Len(q) \in 1..Len(r)
    BY <1>1
  <2> QED
    BY <1>1, <1>2, <2>1, <2>2 DEF Has
<1>4. ASSUME NEW x, Has(q, x) PROVE Has(q \o r, x)
  BY <1>1, <1>2, <1>4 DEF Has
<1>5. ASSUME NEW x, Has(r, x) PROVE Has(q \o r, x)
  <2>1. PICK j \in 1..Len(r) : r[j] = x
    BY <1>5 DEF Has
  <2>2. Len(q) + j \in 1..Len(q) + Len(r) /\ (q \o r)[Len(q) + j] = r[j]
    BY <1>1, <1>2
  <2> QED
    BY <1>2, <2>1, <2>2 DEF Has
<1>6. ASSUME FibersOnce(q), FibersOnce(r),
             \A x \in Task : x.kind = "fiber" => ~(Has(q, x) /\ Has(r, x))
      PROVE  FibersOnce(q \o r)
  <2> SUFFICES ASSUME NEW j \in 1..Len(q) + Len(r), NEW k \in 1..Len(q) + Len(r),
                      (q \o r)[j] = (q \o r)[k], (q \o r)[j].kind = "fiber"
               PROVE  j = k
    BY <1>2 DEF FibersOnce
  <2>1. CASE j <= Len(q) /\ k <= Len(q)
    BY <1>1, <1>2, <1>6, <2>1 DEF FibersOnce
  <2>2. CASE j > Len(q) /\ k > Len(q)
    <3>1. j - Len(q) \in 1..Len(r) /\ k - Len(q) \in 1..Len(r)
      BY <1>1, <2>2
    <3>2. (q \o r)[j] = r[j - Len(q)] /\ (q \o r)[k] = r[k - Len(q)]
      BY <1>1, <1>2, <2>2
    <3>3. j - Len(q) = k - Len(q)
      BY <1>6, <3>1, <3>2 DEF FibersOnce
    <3> QED
      BY <1>1, <3>3
  <2>3. CASE j <= Len(q) /\ k > Len(q)
    <3>1. j \in 1..Len(q) /\ k - Len(q) \in 1..Len(r)
      BY <1>1, <2>3
    <3>2. Has(q, q[j]) /\ Has(r, q[j]) /\ q[j] \in Task /\ q[j].kind = "fiber"
      BY <1>1, <1>2, <2>3, <3>1 DEF Has
    <3> QED
      BY <1>6, <3>2
  <2>4. CASE k <= Len(q) /\ j > Len(q)
    <3>1. k \in 1..Len(q) /\ j - Len(q) \in 1..Len(r)
      BY <1>1, <2>4
    <3>2. Has(q, q[k]) /\ Has(r, q[k]) /\ q[k] \in Task /\ q[k].kind = "fiber"
      BY <1>1, <1>2, <2>4, <3>1 DEF Has
    <3> QED
      BY <1>6, <3>2
  <2> QED
    BY <1>1, <2>1, <2>2, <2>3, <2>4
<1> QED
  BY <1>2, <1>3, <1>4, <1>5, <1>6

-----------------------------------------------------------------------------
(* triggerEvent *)

\* The fibers of the events that are triggered, each once.
LEMMA WaitingHas ==
    ASSUME TypeOK, ContextInv, ContextOnce, NEW fd \in Fd, NEW which \in SUBSET events[fd]
    PROVE  /\ Waiting(fd, which) \in Seq(Task)
           /\ \A x : Has(Waiting(fd, which), x) <=> \E e \in which : x = FiberTask(context[fd][e])
           /\ FibersOnce(Waiting(fd, which))
<1> DEFINE task(e) == IF e \in which THEN <<FiberTask(context[fd][e])>> ELSE <<>>
<1>1. Waiting(fd, which) = task("READ") \o task("WRITE")
  BY DEF Waiting
<1>2. which \subseteq Event
  BY DEF TypeOK
<1>3. \A e \in Event : e \in which => FiberTask(context[fd][e]) \in Task
  BY <1>2 DEF TypeOK, ContextInv, FiberTask, Task
<1>4. ASSUME NEW e \in Event
      PROVE  /\ task(e) \in Seq(Task)
             /\ \A x : Has(task(e), x) <=> e \in which /\ x = FiberTask(context[fd][e])
             /\ FibersOnce(task(e))
  BY <1>3 DEF Has, FibersOnce
<1>5. context[fd]["READ"] # context[fd]["WRITE"] \/ "READ" \notin which \/ "WRITE" \notin which
  BY <1>2 DEF ContextOnce, ContextInv, Event
<1>6. FiberTask(context[fd]["READ"]) # FiberTask(context[fd]["WRITE"])
      \/ "READ" \notin which \/ "WRITE" \notin which
  BY <1>5 DEF FiberTask
<1> HIDE DEF task
<1>7. "READ" \in Event /\ "WRITE" \in Event
  BY DEF Event
<1>8. /\ task("READ") \o task("WRITE") \in Seq(Task)
      /\ \A x : Has(task("READ") \o task("WRITE"), x) <=> Has(task("READ"), x) \/ Has(task("WRITE"), x)
      /\ FibersOnce(task("READ") \o task("WRITE"))
  BY <1>4, <1>6, <1>7, ConcatHas
<1>9. \A x : Has(task("READ") \o task("WRITE"), x) <=> \E e \in which : x = FiberTask(context[fd][e])
  BY <1>2, <1>4, <1>7, <1>8 DEF Event
<1> QED
  BY <1>1, <1>8, <1>9

\* Only finitely many events can be waited for.
LEMMA WaitedFinite == IsFiniteSet(Waited) /\ Cardinality(Waited) \in Nat
<1>1. IsFiniteSet(Event)
  <2>1. IsFiniteSet({"READ"}) /\ IsFiniteSet({"WRITE"})
    BY FS_Singleton
  <2>2. Event = {"READ"} \cup {"WRITE"}
    BY DEF Event
  <2> QED
    BY <2>1, <2>2, FS_Union
<1>2. IsFiniteSet(Fd \X Event)
  BY <1>1, FS_Product, ThreadAssumption
<1>3. Waited \in SUBSET (Fd \X Event)
  BY DEF Waited
<1> QED
  BY <1>2, <1>3, FS_Subset, FS_CardinalityType

\* The count goes down by the events that are no longer waited for.
LEMMA TriggerCounts ==
    ASSUME TypeOK, Counted, NEW fd \in Fd, NEW which \in SUBSET events[fd], Trigger(fd, which)
    PROVE  m_pendingEventCount' \in Nat /\ Counted'
<1> DEFINE gone == {fd} \X which
<1>1. IsFiniteSet(which)
  <2>1. IsFiniteSet(Event)
    <3>1. IsFiniteSet({"READ"}) /\ IsFiniteSet({"WRITE"})
      BY FS_Singleton
    <3>2. Event = {"READ"} \cup {"WRITE"}
      BY DEF Event
    <3> QED
      BY <3>1, <3>2, FS_Union
  <2>2. which \in SUBSET Event
    BY DEF TypeOK
  <2> QED
    BY <2>1, <2>2, FS_Subset
<1>2. IsFiniteSet(Waited) /\ Cardinality(Waited) \in Nat
  BY WaitedFinite
<1>3. Cardinality(gone) = Cardinality(which) /\ Cardinality(which) \in Nat
  <2>1. IsFiniteSet({fd}) /\ Cardinality({fd}) = 1
    BY FS_Singleton
  <2>2. Cardinality(which) \in Nat
    BY <1>1, FS_CardinalityType
  <2>3. Cardinality({fd} \X which) = 1 * Cardinality(which)
    BY <1>1, <2>1, FS_Product
  <2> QED
    BY <2>2, <2>3
<1>4. gone \subseteq Waited
  BY DEF Waited, TypeOK
<1>5. Waited' = Waited \ gone
  BY DEF Waited, TypeOK, Trigger
<1> HIDE DEF gone
<1>6. Cardinality(Waited') = Cardinality(Waited) - Cardinality(gone) /\ Cardinality(Waited') \in Nat
  <2>1. Waited \cap gone = gone
    BY <1>4
  <2>2. /\ IsFiniteSet(Waited \ gone)
        /\ Cardinality(Waited \ gone) = Cardinality(Waited) - Cardinality(Waited \cap gone)
    BY <1>2, FS_Difference
  <2>3. Cardinality(Waited \ gone) \in Nat
    BY <2>2, FS_CardinalityType
  <2> QED
    BY <1>5, <2>1, <2>2, <2>3
<1> QED
  BY <1>2, <1>3, <1>6 DEF Counted, Trigger

\* The fibers move from their contexts to the queue, and nothing else moves.
LEMMA TriggerMoves ==
    ASSUME TypeOK, ContextInv, ContextOnce, QueuedOnce, OnePlace,
           NEW fd \in Fd, NEW which \in SUBSET events[fd], Trigger(fd, which)
    PROVE  /\ events' \in [Fd -> SUBSET Event] /\ context' \in [Fd -> [Event -> Fiber \cup {None}]]
           /\ m_fibers' \in Seq(Task)
           /\ ContextInv' /\ ContextOnce' /\ QueuedOnce'
           /\ \A f \in Fiber :
                 /\ (InContext(f) \/ Queued(FiberTask(f)))' <=> InContext(f) \/ Queued(FiberTask(f))
                 /\ ~(InContext(f)' /\ Queued(FiberTask(f))')
                 /\ Queued(TimeoutTask(f))' <=> Queued(TimeoutTask(f))
<1>1. /\ events \in [Fd -> SUBSET Event] /\ context \in [Fd -> [Event -> Fiber \cup {None}]]
      /\ m_fibers \in Seq(Task) /\ None \notin Fiber
  BY TimedAssumption DEF TypeOK
<1>2. /\ events' \in [Fd -> SUBSET Event]
      /\ \A c \in Fd : events'[c] = IF c = fd THEN events[c] \ which ELSE events[c]
  BY <1>1 DEF Trigger
<1>3. /\ context' \in [Fd -> [Event -> Fiber \cup {None}]]
      /\ \A c \in Fd, e \in Event : context'[c][e] = IF c = fd /\ e \in which THEN None ELSE context[c][e]
  BY <1>1 DEF Trigger
<1>4. /\ Waiting(fd, which) \in Seq(Task)
      /\ \A x : Has(Waiting(fd, which), x) <=> \E e \in which : x = FiberTask(context[fd][e])
      /\ FibersOnce(Waiting(fd, which))
  BY WaitingHas
<1>5. \A e \in which : e \in Event /\ context[fd][e] \in Fiber
  BY <1>1 DEF ContextInv
<1>6. /\ m_fibers' \in Seq(Task)
      /\ \A x : Has(m_fibers', x) <=> Has(m_fibers, x) \/ \E e \in which : x = FiberTask(context[fd][e])
  BY <1>1, <1>4, ConcatHas DEF Trigger
<1>7. FibersOnce(m_fibers')
  <2>1. ASSUME NEW x \in Task, Has(m_fibers, x), Has(Waiting(fd, which), x)
        PROVE  FALSE
    <3>1. PICK e \in which : x = FiberTask(context[fd][e])
      BY <1>4, <2>1
    <3> QED
      BY <1>5, <2>1, <3>1 DEF OnePlace, InContext, Queued
  <2> QED
    BY <1>1, <1>4, <2>1, ConcatHas DEF Trigger, QueuedOnce
<1>8. ContextInv' /\ ContextOnce'
  <2>1. ContextInv'
    BY <1>2, <1>3 DEF ContextInv
  <2>2. ContextOnce'
    BY <1>3 DEF ContextOnce
  <2> QED
    BY <2>1, <2>2
<1>9. ASSUME NEW f \in Fiber
      PROVE  /\ InContext(f)' <=> \E c \in Fd, e \in Event : context[c][e] = f /\ ~(c = fd /\ e \in which)
             /\ Queued(FiberTask(f))' <=> Queued(FiberTask(f)) \/ \E e \in which : f = context[fd][e]
             /\ Queued(TimeoutTask(f))' <=> Queued(TimeoutTask(f))
  BY <1>1, <1>3, <1>5, <1>6 DEF InContext, Queued, FiberTask, TimeoutTask
<1>10. ASSUME NEW f \in Fiber
       PROVE  /\ (InContext(f) \/ Queued(FiberTask(f)))' <=> InContext(f) \/ Queued(FiberTask(f))
              /\ ~(InContext(f)' /\ Queued(FiberTask(f))')
  BY <1>1, <1>5, <1>9 DEF InContext, ContextOnce, OnePlace
<1> QED
  BY <1>2, <1>3, <1>6, <1>7, <1>8, <1>9, <1>10 DEF QueuedOnce

-----------------------------------------------------------------------------
(* What a step does to the places of fibers *)

\* Contexts and queue stay in order, and a fiber that is in one of them was.
PlacesKept ==
    /\ ContextInv' /\ ContextOnce' /\ QueuedOnce'
    /\ \A f \in Fiber :
          /\ (InContext(f) \/ Queued(FiberTask(f)))' <=> InContext(f) \/ Queued(FiberTask(f))
          /\ ~(InContext(f)' /\ Queued(FiberTask(f))')

PlaceTypes ==
    /\ events \in [Fd -> SUBSET Event] /\ context \in [Fd -> [Event -> Fiber \cup {None}]]
    /\ m_fibers \in Seq(Task) /\ m_pendingEventCount \in Nat

\* A step that leaves contexts and queue alone.
LEMMA UntouchedPlaces ==
    ASSUME TypeOK, ContextInv, ContextOnce, QueuedOnce, OnePlace,
           UNCHANGED <<m_fibers, eventVars>>
    PROVE  /\ PlacesKept /\ PlaceTypes' /\ (Counted => Counted')
           /\ \A f \in Fiber : Queued(TimeoutTask(f))' <=> Queued(TimeoutTask(f))
<1>1. m_fibers' = m_fibers /\ events' = events /\ context' = context
      /\ m_pendingEventCount' = m_pendingEventCount
  BY DEF eventVars
<1>2. ContextInv' /\ ContextOnce' /\ QueuedOnce'
  BY <1>1 DEF ContextInv, ContextOnce, QueuedOnce
<1>3. PlaceTypes'
  BY <1>1 DEF PlaceTypes, TypeOK
<1>4. Counted => Counted'
  BY <1>1 DEF Counted, Waited
<1>5. \A x : Queued(x)' <=> Queued(x)
  BY <1>1 DEF Queued
<1>6. \A f \in Fiber : InContext(f)' <=> InContext(f)
  BY <1>1 DEF InContext
<1> QED
  BY <1>2, <1>3, <1>4, <1>5, <1>6 DEF PlacesKept, OnePlace

\* cancelEvent and cancelAll.
LEMMA CancelKeepsPlaces ==
    ASSUME TypeOK, ContextInv, ContextOnce, QueuedOnce, OnePlace, Counted,
           NEW fd \in Fd, NEW which, CancelEvents(fd, which)
    PROVE  /\ PlacesKept /\ PlaceTypes' /\ Counted'
           /\ \A f \in Fiber : Queued(TimeoutTask(f))' <=> Queued(TimeoutTask(f))
<1> DEFINE gone == events[fd] \cap which
<1>1. CASE gone # {} /\ registered[fd]
  <2>1. gone \in SUBSET events[fd] /\ Trigger(fd, gone)
    BY <1>1 DEF CancelEvents
  <2> HIDE DEF gone
  <2> QED
    BY <2>1, TriggerMoves, TriggerCounts DEF PlacesKept, PlaceTypes
<1>2. CASE ~(gone # {} /\ registered[fd])
  BY <1>2, UntouchedPlaces DEF CancelEvents
<1> QED
  BY <1>1, <1>2

\* do_io returns: only timeout callbacks in the queue change.
LEMMA ReturnKeepsPlaces ==
    ASSUME TypeOK, ContextInv, ContextOnce, QueuedOnce, OnePlace,
           NEW f \in Fiber, Return(f), UNCHANGED eventVars
    PROVE  /\ PlacesKept /\ PlaceTypes' /\ (Counted => Counted')
           /\ \A g \in Fiber : Queued(TimeoutTask(g))' => Queued(TimeoutTask(g)) /\ g # f
<1>1. /\ events' = events /\ context' = context /\ m_pendingEventCount' = m_pendingEventCount
      /\ None \notin Fiber
  BY TimedAssumption DEF eventVars
<1>2. Len(m_fibers) \in Nat /\ \A k \in 1..Len(m_fibers) : m_fibers[k] \in Task
  BY LenProperties, ElementOfSeq DEF TypeOK
<1>3. /\ m_fibers' \in Seq(Task) /\ Len(m_fibers') = Len(m_fibers)
      /\ \A k \in 1..Len(m_fibers) :
            m_fibers'[k] = IF m_fibers[k] = TimeoutTask(f) THEN ExpiredTask ELSE m_fibers[k]
  <2>1. ExpiredTask \in Task
    BY DEF Task
  <2>2. m_fibers' \in [1..Len(m_fibers) -> Task]
    BY <1>2, <2>1 DEF Return
  <2>3. m_fibers' \in Seq(Task)
    BY <1>2, <2>2, SeqDef
  <2>4. DOMAIN m_fibers' = 1..Len(m_fibers') /\ Len(m_fibers') \in Nat
    BY <2>3, LenProperties
  <2>5. Len(m_fibers') = Len(m_fibers)
    BY <1>2, <2>2, <2>4
  <2> QED
    BY <1>2, <2>3, <2>5 DEF Return
<1>4. \A g \in Fiber : Queued(FiberTask(g))' <=> Queued(FiberTask(g))
  BY <1>1, <1>3 DEF Queued, Has, FiberTask, TimeoutTask, ExpiredTask
<1>5. \A g \in Fiber : Queued(TimeoutTask(g))' => Queued(TimeoutTask(g)) /\ g # f
  BY <1>1, <1>3 DEF Queued, Has, TimeoutTask, ExpiredTask
<1>6. QueuedOnce'
  BY <1>3 DEF QueuedOnce, FibersOnce, ExpiredTask
<1>7. ContextInv' /\ ContextOnce' /\ (Counted => Counted')
  BY <1>1 DEF ContextInv, ContextOnce, Counted, Waited
<1>8. \A g \in Fiber : InContext(g)' <=> InContext(g)
  BY <1>1 DEF InContext
<1>9. PlaceTypes'
  BY <1>1, <1>3 DEF PlaceTypes, TypeOK
<1> QED
  BY <1>4, <1>5, <1>6, <1>7, <1>8, <1>9 DEF PlacesKept, OnePlace

\* Timeout callbacks are put in the queue.
LEMMA ExpiryKeepsPlaces ==
    ASSUME TypeOK, ContextInv, ContextOnce, QueuedOnce, OnePlace,
           NEW expired \in SUBSET Fiber, NEW q \in Orders({TimeoutTask(f) : f \in expired}),
           m_fibers' = m_fibers \o q, UNCHANGED eventVars
    PROVE  /\ PlacesKept /\ PlaceTypes' /\ (Counted => Counted')
           /\ \A g \in Fiber : Queued(TimeoutTask(g))' => Queued(TimeoutTask(g)) \/ g \in expired
<1> DEFINE S == {TimeoutTask(f) : f \in expired}
<1>1. /\ events' = events /\ context' = context /\ m_pendingEventCount' = m_pendingEventCount
  BY DEF eventVars
<1>2. IsFiniteSet(S) /\ Cardinality(S) \in Nat
  <2> DEFINE h == [f \in expired |-> TimeoutTask(f)]
  <2>1. h \in Surjection(expired, S)
    BY DEF Surjection
  <2>2. IsFiniteSet(expired)
    BY ThreadAssumption, FS_Subset
  <2> HIDE DEF h
  <2>3. IsFiniteSet(S)
    BY <2>1, <2>2, FS_Surjection
  <2> QED
    BY <2>3, FS_CardinalityType
<1>3. S \subseteq Task /\ \A x \in S : x.kind = "timeout"
  BY DEF Task, TimeoutTask
<1>4. q \in [1..Cardinality(S) -> S]
  BY DEF Orders
<1>5. q \in Seq(S) /\ Len(q) \in Nat
  BY <1>2, <1>4, SeqDef, LenProperties
<1>6. q \in Seq(Task) /\ \A k \in 1..Len(q) : q[k] \in S
  BY <1>3, <1>5, SeqMonotonic, ElementOfSeq
<1>7. \A x : Has(q, x) => x \in S
  BY <1>6 DEF Has
<1>8. FibersOnce(q)
  BY <1>3, <1>6 DEF FibersOnce
<1>9. m_fibers \in Seq(Task)
  BY DEF TypeOK
<1>10. \A f \in expired : TimeoutTask(f).kind = "timeout"
  BY DEF TimeoutTask
<1>11. \A g \in Fiber : TimeoutTask(g) \in S => g \in expired
  BY DEF TimeoutTask
<1>12. \A g \in Fiber : FiberTask(g) \notin S
  BY DEF TimeoutTask, FiberTask
<1> HIDE DEF S
<1>13. /\ m_fibers' \in Seq(Task)
       /\ \A x : Has(m_fibers', x) <=> Has(m_fibers, x) \/ Has(q, x)
       /\ FibersOnce(m_fibers')
  BY <1>3, <1>6, <1>7, <1>8, <1>9, ConcatHas DEF QueuedOnce
<1>14. ContextInv' /\ ContextOnce' /\ (Counted => Counted')
  BY <1>1 DEF ContextInv, ContextOnce, Counted, Waited
<1>15. \A g \in Fiber : InContext(g)' <=> InContext(g)
  BY <1>1 DEF InContext
<1>16. PlaceTypes'
  BY <1>1, <1>13 DEF PlaceTypes, TypeOK
<1>17. \A g \in Fiber :
          /\ Queued(FiberTask(g))' <=> Queued(FiberTask(g))
          /\ Queued(TimeoutTask(g))' => Queued(TimeoutTask(g)) \/ g \in expired
  BY <1>7, <1>11, <1>12, <1>13 DEF Queued
<1> QED
  BY <1>13, <1>14, <1>15, <1>16, <1>17 DEF PlacesKept, OnePlace, QueuedOnce

\* A task that is no fiber is taken.
LEMMA CallbackTakenKeepsPlaces ==
    ASSUME TypeOK, ContextInv, ContextOnce, QueuedOnce, OnePlace,
           NEW k \in 1..Len(m_fibers), m_fibers[k].kind # "fiber",
           m_fibers' = Without(m_fibers, k), UNCHANGED eventVars
    PROVE  /\ PlacesKept /\ PlaceTypes' /\ (Counted => Counted')
           /\ \A g \in Fiber : Queued(TimeoutTask(g))' => Queued(TimeoutTask(g))
<1>1. /\ events' = events /\ context' = context /\ m_pendingEventCount' = m_pendingEventCount
      /\ m_fibers \in Seq(Task)
  BY DEF eventVars, TypeOK
<1>2. /\ m_fibers' \in Seq(Task)
      /\ \A x : Has(m_fibers', x) => Has(m_fibers, x)
      /\ \A x : Has(m_fibers, x) /\ x # m_fibers[k] => Has(m_fibers', x)
      /\ FibersOnce(m_fibers')
  BY <1>1, WithoutElements, WithoutHas DEF QueuedOnce
<1>3. \A g \in Fiber : FiberTask(g) # m_fibers[k]
  BY DEF FiberTask
<1>4. ContextInv' /\ ContextOnce' /\ (Counted => Counted')
  BY <1>1 DEF ContextInv, ContextOnce, Counted, Waited
<1>5. \A g \in Fiber : InContext(g)' <=> InContext(g)
  BY <1>1 DEF InContext
<1>6. PlaceTypes'
  BY <1>1, <1>2 DEF PlaceTypes, TypeOK
<1> QED
  BY <1>2, <1>3, <1>4, <1>5, <1>6 DEF PlacesKept, OnePlace, QueuedOnce, Queued

-----------------------------------------------------------------------------
(* Which fibers wait, and in whose hands they are *)

HandsKept ==
    \A t \in Thread : /\ doing'[t] = "resume" <=> doing[t] = "resume"
                      /\ doing[t] = "resume" => who'[t] = who[t]

WaitersKept ==
    \A f \in Fiber : pc'[f] \in {"new", "yield", "wait"} <=> pc[f] \in {"new", "yield", "wait"}

\* A step that changes neither keeps every fiber in one place.
LEMMA KeptInOnePlace ==
    ASSUME OnePlace, HandsOnce, PlacesKept, HandsKept, WaitersKept
    PROVE  OnePlace' /\ HandsOnce'
<1>1. HandsOnce'
  BY DEF HandsOnce, HandsKept
<1>2. \A f \in Fiber : InHands(f)' <=> InHands(f)
  BY DEF InHands, HandsKept
<1>3. OnePlace'
  BY <1>2 DEF OnePlace, PlacesKept, WaitersKept
<1> QED
  BY <1>1, <1>3

\* A step that leaves the kernel's side and the results of epoll_wait alone.
LEMMA NothingMissed ==
    ASSUME NoMissedEvent, UNCHANGED <<events, ready, registered, listed, todo>>
    PROVE  NoMissedEvent'
BY DEF NoMissedEvent

\* epoll_ctl MOD or DEL on a descriptor: what is left and ready is listed again.
LEMMA NarrowMissesNothing ==
    ASSUME TypeOK, NoMissedEvent, NEW fd \in Fd, NEW left,
           events' = [events EXCEPT ![fd] = left], Narrow(fd, left),
           \A x \in Thread : \A r \in todo[x] : r.fd # fd => r \in todo'[x]
    PROVE  NoMissedEvent'
<1> SUFFICES ASSUME NEW c \in Fd, NEW e \in events'[c] \cap ready'[c], registered'[c]
             PROVE  \/ c \in listed'
                    \/ \E x \in Thread : \E r \in todo'[x] : r.fd = c /\ (e \in r.events \/ r.hangup)
  BY DEF NoMissedEvent
<1>1. CASE c = fd
  BY <1>1 DEF TypeOK, Narrow, Relist
<1>2. CASE c # fd
  <2>1. e \in events[c] \cap ready[c] /\ registered[c] /\ (c \in listed => c \in listed')
    BY <1>2 DEF TypeOK, Narrow, Relist
  <2>2. CASE c \in listed
    BY <2>1, <2>2
  <2>3. CASE \E x \in Thread : \E r \in todo[x] : r.fd = c /\ (e \in r.events \/ r.hangup)
    BY <1>2, <2>3
  <2> QED
    BY <2>1, <2>2, <2>3 DEF NoMissedEvent
<1> QED
  BY <1>1, <1>2

\* cancelEvent and cancelAll, on the kernel's side.
LEMMA CancelMissesNothing ==
    ASSUME TypeOK, NoMissedEvent, NEW fd \in Fd, NEW which, CancelEvents(fd, which), todo' = todo
    PROVE  /\ NoMissedEvent'
           /\ UNCHANGED <<opened, ready, hangup>>
           /\ registered' \in [Fd -> BOOLEAN] /\ listed' \subseteq Fd
<1>1. CASE events[fd] \cap which # {} /\ registered[fd]
  <2>1. /\ Trigger(fd, events[fd] \cap which)
        /\ Narrow(fd, events[fd] \ (events[fd] \cap which))
    BY <1>1 DEF CancelEvents
  <2>2. events' = [events EXCEPT ![fd] = events[fd] \ (events[fd] \cap which)]
    BY <2>1 DEF Trigger
  <2>3. NoMissedEvent'
    BY <2>1, <2>2, NarrowMissesNothing
  <2>4. registered' \in [Fd -> BOOLEAN] /\ listed' \subseteq Fd /\ UNCHANGED <<opened, ready, hangup>>
    BY <2>1 DEF Narrow, Relist, TypeOK
  <2> QED
    BY <2>3, <2>4
<1>2. CASE ~(events[fd] \cap which # {} /\ registered[fd])
  <2>1. UNCHANGED <<events, ready, registered, listed, todo, opened, hangup>>
    BY <1>2 DEF CancelEvents, eventVars, kernelVars
  <2> QED
    BY <2>1, NothingMissed DEF TypeOK
<1> QED
  BY <1>1, <1>2

\* What do_io's return sets.
LEMMA ReturnTypes ==
    ASSUME TypeOK, NEW f \in Fiber, Return(f)
    PROVE  /\ pc' \in [Fiber -> {"new", "out", "try", "add", "yield", "wait", "back", "closing", "done"}]
           /\ want' \in [Fiber -> (Fd \X Event) \cup {None}] /\ cancelled' \in [Fiber -> BOOLEAN]
BY DEF TypeOK, Return

\* run() marks the fiber it has left HOLD: its places are what they were.
LEMMA HoldKeeps ==
    ASSUME Inv, NEW t \in Thread, Hold(t)
    PROVE  Inv'
<1>1. /\ PlacesKept /\ PlaceTypes' /\ Counted'
      /\ \A g \in Fiber : Queued(TimeoutTask(g))' <=> Queued(TimeoutTask(g))
  BY UntouchedPlaces DEF Inv, Hold, eventVars, fiberVars
<1>2. HandsKept /\ WaitersKept
  BY DEF Inv, HandsKept, WaitersKept, TypeOK, ThreadInv, Hold, threadVars, fiberVars
<1>3. OnePlace' /\ HandsOnce'
  BY <1>1, <1>2, KeptInOnePlace DEF Inv
<1>4. TypeOK'
  BY <1>1 DEF Inv, TypeOK, PlaceTypes, ThreadInv, FiberInv, Hold, threadVars, fiberVars, bounds,
     eventVars, kernelVars
<1>5. ThreadInv'
  BY DEF Inv, TypeOK, ThreadInv, FiberInv, AloneOnThread, Hold, threadVars, fiberVars, bounds,
     eventVars, kernelVars
<1>6. FiberInv'
  BY <1>1 DEF Inv, TypeOK, ThreadInv, FiberInv, Hold, threadVars, fiberVars, bounds, eventVars,
     kernelVars
<1>7. AloneOnThread'
  BY DEF Inv, TypeOK, ThreadInv, AloneOnThread, Hold, threadVars, fiberVars, bounds, eventVars,
     kernelVars
<1>8. NoMissedEvent'
  BY NothingMissed DEF Inv, Hold, threadVars, fiberVars, bounds, eventVars, kernelVars
<1>9. NeverAborts'
  BY DEF Inv, NeverAborts, Hold
<1> QED
  BY <1>1, <1>3, <1>4, <1>5, <1>6, <1>7, <1>8, <1>9 DEF Inv, PlacesKept

\* A fiber whose callback returned is in no place and needs none.
LEMMA FinishKeeps ==
    ASSUME Inv, NEW t \in Thread, Finish(t)
    PROVE  Inv'
<1>1. /\ PlacesKept /\ PlaceTypes' /\ Counted'
      /\ \A g \in Fiber : Queued(TimeoutTask(g))' <=> Queued(TimeoutTask(g))
  BY UntouchedPlaces DEF Inv, Finish, eventVars, fiberVars
<1>2. HandsKept /\ WaitersKept
  BY DEF Inv, HandsKept, WaitersKept, TypeOK, ThreadInv, Finish, threadVars, fiberVars
<1>3. OnePlace' /\ HandsOnce'
  BY <1>1, <1>2, KeptInOnePlace DEF Inv
<1>4. TypeOK'
  BY <1>1 DEF Inv, TypeOK, PlaceTypes, ThreadInv, FiberInv, Finish, threadVars, fiberVars, bounds,
     eventVars, kernelVars
<1>5. ThreadInv'
  BY DEF Inv, TypeOK, ThreadInv, FiberInv, AloneOnThread, Finish, threadVars, fiberVars, bounds,
     eventVars, kernelVars
<1>6. FiberInv'
  BY <1>1 DEF Inv, TypeOK, ThreadInv, FiberInv, Finish, threadVars, fiberVars, bounds, eventVars,
     kernelVars
<1>7. AloneOnThread'
  BY DEF Inv, TypeOK, ThreadInv, AloneOnThread, Finish, threadVars, fiberVars, bounds, eventVars,
     kernelVars
<1>8. NoMissedEvent'
  BY NothingMissed DEF Inv, Finish, threadVars, fiberVars, bounds, eventVars, kernelVars
<1>9. NeverAborts'
  BY DEF Inv, NeverAborts, Finish
<1> QED
  BY <1>1, <1>3, <1>4, <1>5, <1>6, <1>7, <1>8, <1>9 DEF Inv, PlacesKept

\* A fiber that begins a call keeps running on its thread.
LEMMA CallKeeps ==
    ASSUME Inv, NEW t \in Thread, NEW f \in Fiber, NEW fd \in Fd, NEW e \in Event, Call(t, f, fd, e)
    PROVE  Inv'
<1>1. /\ PlacesKept /\ PlaceTypes' /\ Counted'
      /\ \A g \in Fiber : Queued(TimeoutTask(g))' <=> Queued(TimeoutTask(g))
  BY UntouchedPlaces DEF Inv, Call, eventVars, fiberVars
<1>2. HandsKept /\ WaitersKept
  BY DEF Inv, HandsKept, WaitersKept, TypeOK, ThreadInv, Call, Runs, threadVars, fiberVars
<1>3. OnePlace' /\ HandsOnce'
  BY <1>1, <1>2, KeptInOnePlace DEF Inv
<1>4. TypeOK'
  BY <1>1, CallAssumption DEF Inv, TypeOK, PlaceTypes, ThreadInv, FiberInv, Call, Runs, threadVars,
     fiberVars, bounds, eventVars, kernelVars
<1>5. ThreadInv'
  BY DEF Inv, TypeOK, ThreadInv, FiberInv, AloneOnThread, Call, Runs, threadVars, fiberVars, bounds,
     eventVars, kernelVars
<1>6. FiberInv'
  BY <1>1 DEF Inv, TypeOK, ThreadInv, FiberInv, Call, Runs, threadVars, fiberVars, bounds,
     eventVars, kernelVars
<1>7. AloneOnThread'
  BY DEF Inv, TypeOK, ThreadInv, AloneOnThread, Call, Runs, threadVars, fiberVars, bounds,
     eventVars, kernelVars
<1>8. NoMissedEvent'
  BY NothingMissed DEF Inv, Call, Runs, threadVars, fiberVars, bounds, eventVars, kernelVars
<1>9. NeverAborts'
  BY DEF Inv, NeverAborts, Call, Runs
<1> QED
  BY <1>1, <1>3, <1>4, <1>5, <1>6, <1>7, <1>8, <1>9 DEF Inv, PlacesKept

\* After EAGAIN do_io adds a timer; nobody else knows of the fiber yet.
LEMMA TryAgainKeeps ==
    ASSUME Inv, NEW t \in Thread, NEW f \in Fiber, TryAgain(t, f)
    PROVE  Inv'
<1>1. /\ PlacesKept /\ PlaceTypes' /\ Counted'
      /\ \A g \in Fiber : Queued(TimeoutTask(g))' <=> Queued(TimeoutTask(g))
  BY UntouchedPlaces DEF Inv, TryAgain, eventVars, fiberVars
<1>2. HandsKept /\ WaitersKept
  BY DEF Inv, HandsKept, WaitersKept, TypeOK, ThreadInv, TryAgain, Runs, threadVars, fiberVars
<1>3. OnePlace' /\ HandsOnce'
  BY <1>1, <1>2, KeptInOnePlace DEF Inv
<1>4. TypeOK'
  BY <1>1 DEF Inv, TypeOK, PlaceTypes, ThreadInv, FiberInv, TryAgain, Runs, threadVars, fiberVars,
     bounds, eventVars, kernelVars
<1>5. ThreadInv'
  BY DEF Inv, TypeOK, ThreadInv, FiberInv, AloneOnThread, TryAgain, Runs, threadVars, fiberVars,
     bounds, eventVars, kernelVars
<1>6. FiberInv'
  BY <1>1 DEF Inv, TypeOK, ThreadInv, FiberInv, TryAgain, Runs, threadVars, fiberVars, bounds,
     eventVars, kernelVars
<1>7. AloneOnThread'
  BY DEF Inv, TypeOK, ThreadInv, AloneOnThread, TryAgain, Runs, threadVars, fiberVars, bounds,
     eventVars, kernelVars
<1>8. NoMissedEvent'
  BY NothingMissed DEF Inv, TryAgain, Runs, threadVars, fiberVars, bounds, eventVars, kernelVars
<1>9. NeverAborts'
  BY DEF Inv, NeverAborts, TryAgain, Runs
<1> QED
  BY <1>1, <1>3, <1>4, <1>5, <1>6, <1>7, <1>8, <1>9 DEF Inv, PlacesKept

\* The fiber yields: it waits in a context, in the queue or in a thread's hands
\* already, and its thread has still to mark it HOLD.
LEMMA YieldKeeps ==
    ASSUME Inv, NEW t \in Thread, NEW f \in Fiber, Yield(t, f)
    PROVE  Inv'
<1>1. /\ PlacesKept /\ PlaceTypes' /\ Counted'
      /\ \A g \in Fiber : Queued(TimeoutTask(g))' <=> Queued(TimeoutTask(g))
  BY UntouchedPlaces DEF Inv, Yield, eventVars, fiberVars
<1>2. HandsKept /\ WaitersKept
  BY DEF Inv, HandsKept, WaitersKept, TypeOK, ThreadInv, Yield, Runs, threadVars, fiberVars
<1>3. OnePlace' /\ HandsOnce'
  BY <1>1, <1>2, KeptInOnePlace DEF Inv
<1>4. TypeOK'
  BY <1>1 DEF Inv, TypeOK, PlaceTypes, ThreadInv, FiberInv, Yield, Runs, threadVars, fiberVars,
     bounds, eventVars, kernelVars
<1>5. ThreadInv'
  BY DEF Inv, TypeOK, ThreadInv, FiberInv, AloneOnThread, Yield, Runs, threadVars, fiberVars,
     bounds, eventVars, kernelVars
<1>6. FiberInv'
  BY <1>1 DEF Inv, TypeOK, ThreadInv, FiberInv, Yield, Runs, threadVars, fiberVars, bounds,
     eventVars, kernelVars
<1>7. AloneOnThread'
  BY DEF Inv, TypeOK, ThreadInv, AloneOnThread, Yield, Runs, threadVars, fiberVars, bounds,
     eventVars, kernelVars
<1>8. NoMissedEvent'
  BY NothingMissed DEF Inv, Yield, Runs, threadVars, fiberVars, bounds, eventVars, kernelVars
<1>9. NeverAborts'
  BY DEF Inv, NeverAborts, Yield, Runs
<1> QED
  BY <1>1, <1>3, <1>4, <1>5, <1>6, <1>7, <1>8, <1>9 DEF Inv, PlacesKept

\* The system call close takes the descriptor out of the epoll set.
LEMMA ClosingKeeps ==
    ASSUME Inv, NEW t \in Thread, NEW f \in Fiber, Closing(t, f)
    PROVE  Inv'
<1>1. /\ PlacesKept /\ PlaceTypes' /\ Counted'
      /\ \A g \in Fiber : Queued(TimeoutTask(g))' <=> Queued(TimeoutTask(g))
  BY UntouchedPlaces DEF Inv, Closing, eventVars, fiberVars
<1>2. HandsKept /\ WaitersKept
  BY DEF Inv, HandsKept, WaitersKept, TypeOK, ThreadInv, Closing, Runs, threadVars, fiberVars
<1>3. OnePlace' /\ HandsOnce'
  BY <1>1, <1>2, KeptInOnePlace DEF Inv
<1>4. TypeOK'
  BY <1>1 DEF Inv, TypeOK, PlaceTypes, ThreadInv, FiberInv, Closing, Runs, threadVars, fiberVars,
     bounds, eventVars, kernelVars
<1>5. ThreadInv'
  BY DEF Inv, TypeOK, ThreadInv, FiberInv, AloneOnThread, Closing, Runs, threadVars, fiberVars,
     bounds, eventVars, kernelVars
<1>6. FiberInv'
  BY <1>1 DEF Inv, TypeOK, ThreadInv, FiberInv, Closing, Runs, threadVars, fiberVars, bounds,
     eventVars, kernelVars
<1>7. AloneOnThread'
  BY DEF Inv, TypeOK, ThreadInv, AloneOnThread, Closing, Runs, threadVars, fiberVars, bounds,
     eventVars, kernelVars
<1>8. NoMissedEvent'
  BY DEF Inv, NoMissedEvent, TypeOK, Closing, threadVars, fiberVars, bounds, eventVars, kernelVars
<1>9. NeverAborts'
  BY DEF Inv, NeverAborts, Closing, Runs
<1> QED
  BY <1>1, <1>3, <1>4, <1>5, <1>6, <1>7, <1>8, <1>9 DEF Inv, PlacesKept

\* A descriptor that is opened again has no events.
LEMMA OpensKeeps ==
    ASSUME Inv, NEW t \in Thread, NEW f \in Fiber, NEW fd \in Fd, Opens(t, f, fd)
    PROVE  Inv'
<1>1. /\ PlacesKept /\ PlaceTypes' /\ Counted'
      /\ \A g \in Fiber : Queued(TimeoutTask(g))' <=> Queued(TimeoutTask(g))
  BY UntouchedPlaces DEF Inv, Opens, eventVars, fiberVars
<1>2. HandsKept /\ WaitersKept
  BY DEF Inv, HandsKept, WaitersKept, TypeOK, ThreadInv, Opens, Runs, threadVars, fiberVars
<1>3. OnePlace' /\ HandsOnce'
  BY <1>1, <1>2, KeptInOnePlace DEF Inv
<1>4. TypeOK'
  BY <1>1 DEF Inv, TypeOK, PlaceTypes, ThreadInv, FiberInv, Opens, Runs, threadVars, fiberVars,
     bounds, eventVars, kernelVars
<1>5. ThreadInv'
  BY DEF Inv, TypeOK, ThreadInv, FiberInv, AloneOnThread, Opens, Runs, threadVars, fiberVars,
     bounds, eventVars, kernelVars
<1>6. FiberInv'
  BY <1>1 DEF Inv, TypeOK, ThreadInv, FiberInv, Opens, Runs, threadVars, fiberVars, bounds,
     eventVars, kernelVars
<1>7. AloneOnThread'
  BY DEF Inv, TypeOK, ThreadInv, AloneOnThread, Opens, Runs, threadVars, fiberVars, bounds,
     eventVars, kernelVars
<1>8. NoMissedEvent'
  BY DEF Inv, NoMissedEvent, TypeOK, Opens, threadVars, fiberVars, bounds, eventVars, kernelVars
<1>9. NeverAborts'
  BY DEF Inv, NeverAborts, Opens, Runs
<1> QED
  BY <1>1, <1>3, <1>4, <1>5, <1>6, <1>7, <1>8, <1>9 DEF Inv, PlacesKept

\* A thread that finds nothing to take goes idle.
LEMMA IdleKeeps ==
    ASSUME Inv, NEW t \in Thread, Idle(t)
    PROVE  Inv'
<1>1. /\ PlacesKept /\ PlaceTypes' /\ Counted'
      /\ \A g \in Fiber : Queued(TimeoutTask(g))' <=> Queued(TimeoutTask(g))
  BY UntouchedPlaces DEF Inv, Idle, eventVars, fiberVars
<1>2. HandsKept /\ WaitersKept
  BY DEF Inv, HandsKept, WaitersKept, TypeOK, ThreadInv, Idle, threadVars, fiberVars
<1>3. OnePlace' /\ HandsOnce'
  BY <1>1, <1>2, KeptInOnePlace DEF Inv
<1>4. TypeOK'
  BY <1>1 DEF Inv, TypeOK, PlaceTypes, ThreadInv, FiberInv, Idle, threadVars, fiberVars, bounds,
     eventVars, kernelVars
<1>5. ThreadInv'
  BY DEF Inv, TypeOK, ThreadInv, FiberInv, AloneOnThread, Idle, threadVars, fiberVars, bounds,
     eventVars, kernelVars
<1>6. FiberInv'
  BY <1>1 DEF Inv, TypeOK, ThreadInv, FiberInv, Idle, threadVars, fiberVars, bounds, eventVars,
     kernelVars
<1>7. AloneOnThread'
  BY DEF Inv, TypeOK, ThreadInv, AloneOnThread, Idle, threadVars, fiberVars, bounds, eventVars,
     kernelVars
<1>8. NoMissedEvent'
  BY NothingMissed DEF Inv, Idle, threadVars, fiberVars, bounds, eventVars, kernelVars
<1>9. NeverAborts'
  BY DEF Inv, NeverAborts, Idle
<1> QED
  BY <1>1, <1>3, <1>4, <1>5, <1>6, <1>7, <1>8, <1>9 DEF Inv, PlacesKept

\* epoll_wait moves the ready list into the results of the thread: an event
\* waited for that was listed is among them.
LEMMA EpollWaitKeeps ==
    ASSUME Inv, NEW t \in Thread, EpollWait(t)
    PROVE  Inv'
<1>1. /\ PlacesKept /\ PlaceTypes' /\ Counted'
      /\ \A g \in Fiber : Queued(TimeoutTask(g))' <=> Queued(TimeoutTask(g))
  BY UntouchedPlaces DEF Inv, EpollWait, eventVars, fiberVars
<1>2. HandsKept /\ WaitersKept
  BY DEF Inv, HandsKept, WaitersKept, TypeOK, ThreadInv, EpollWait, threadVars, fiberVars
<1>3. OnePlace' /\ HandsOnce'
  BY <1>1, <1>2, KeptInOnePlace DEF Inv
<1>4. TypeOK'
  <2>1. \A fd \in Fd : [fd |-> fd, events |-> ready[fd] \cap events[fd], hangup |-> hangup[fd]] \in Result
    BY DEF Inv, TypeOK, Result
  <2>2. listed \subseteq Fd
    BY DEF Inv, TypeOK
  <2> DEFINE S == {[fd |-> fd, events |-> ready[fd] \cap events[fd], hangup |-> hangup[fd]] :
                     fd \in {d \in listed : ready[d] \cap events[d] # {} \/ hangup[d]}}
  <2>3. S \in SUBSET Result
    BY <2>1, <2>2
  <2>4. todo' = [todo EXCEPT ![t] = S]
    BY DEF EpollWait
  <2> HIDE DEF S
  <2>5. todo' \in [Thread -> SUBSET Result]
    BY <2>3, <2>4 DEF Inv, TypeOK
  <2> QED
    BY <1>1, <2>5 DEF Inv, TypeOK, PlaceTypes, EpollWait, threadVars, fiberVars, bounds, eventVars,
       kernelVars
<1>5. ThreadInv'
  BY DEF Inv, TypeOK, ThreadInv, FiberInv, AloneOnThread, EpollWait, threadVars, fiberVars, bounds,
     eventVars, kernelVars
<1>6. FiberInv'
  BY <1>1 DEF Inv, TypeOK, ThreadInv, FiberInv, EpollWait, threadVars, fiberVars, bounds, eventVars,
     kernelVars
<1>7. AloneOnThread'
  BY DEF Inv, TypeOK, ThreadInv, AloneOnThread, EpollWait, threadVars, fiberVars, bounds, eventVars,
     kernelVars
<1>8. NoMissedEvent'
  <2> SUFFICES ASSUME NEW c \in Fd, NEW e \in events[c] \cap ready[c], registered[c]
               PROVE  \E x \in Thread : \E r \in todo'[x] : r.fd = c /\ (e \in r.events \/ r.hangup)
    BY DEF NoMissedEvent, EpollWait, eventVars
  <2>1. CASE c \in listed
    <3> DEFINE r == [fd |-> c, events |-> ready[c] \cap events[c], hangup |-> hangup[c]]
    <3>1. r \in todo'[t]
      BY <2>1 DEF Inv, TypeOK, EpollWait
    <3>2. r.fd = c /\ e \in r.events
      OBVIOUS
    <3> QED
      BY <3>1, <3>2
  <2>2. CASE \E x \in Thread : \E r \in todo[x] : r.fd = c /\ (e \in r.events \/ r.hangup)
    <3>1. todo[t] = {} /\ \A x \in Thread : x # t => todo'[x] = todo[x]
      BY DEF Inv, TypeOK, ThreadInv, EpollWait
    <3> QED
      BY <2>2, <3>1
  <2> QED
    BY <2>1, <2>2 DEF Inv, NoMissedEvent
<1>9. NeverAborts'
  BY DEF Inv, NeverAborts, EpollWait
<1> QED
  BY <1>1, <1>3, <1>4, <1>5, <1>6, <1>7, <1>8, <1>9 DEF Inv, PlacesKept

\* The idle fiber leaves epoll's results when it has handled them all.
LEMMA IdleEndsKeeps ==
    ASSUME Inv, NEW t \in Thread, IdleEnds(t)
    PROVE  Inv'
<1>1. /\ PlacesKept /\ PlaceTypes' /\ Counted'
      /\ \A g \in Fiber : Queued(TimeoutTask(g))' <=> Queued(TimeoutTask(g))
  BY UntouchedPlaces DEF Inv, IdleEnds, eventVars, fiberVars
<1>2. HandsKept /\ WaitersKept
  BY DEF Inv, HandsKept, WaitersKept, TypeOK, ThreadInv, IdleEnds, threadVars, fiberVars
<1>3. OnePlace' /\ HandsOnce'
  BY <1>1, <1>2, KeptInOnePlace DEF Inv
<1>4. TypeOK'
  BY <1>1 DEF Inv, TypeOK, PlaceTypes, ThreadInv, FiberInv, IdleEnds, threadVars, fiberVars, bounds,
     eventVars, kernelVars
<1>5. ThreadInv'
  BY DEF Inv, TypeOK, ThreadInv, FiberInv, AloneOnThread, IdleEnds, threadVars, fiberVars, bounds,
     eventVars, kernelVars
<1>6. FiberInv'
  BY <1>1 DEF Inv, TypeOK, ThreadInv, FiberInv, IdleEnds, threadVars, fiberVars, bounds, eventVars,
     kernelVars
<1>7. AloneOnThread'
  BY DEF Inv, TypeOK, ThreadInv, AloneOnThread, IdleEnds, threadVars, fiberVars, bounds, eventVars,
     kernelVars
<1>8. NoMissedEvent'
  BY NothingMissed DEF Inv, IdleEnds, threadVars, fiberVars, bounds, eventVars, kernelVars
<1>9. NeverAborts'
  BY DEF Inv, NeverAborts, IdleEnds
<1> QED
  BY <1>1, <1>3, <1>4, <1>5, <1>6, <1>7, <1>8, <1>9 DEF Inv, PlacesKept

\* do_io returns: what is left of its timer is an expired callback.
LEMMA TryDoneKeeps ==
    ASSUME Inv, NEW t \in Thread, NEW f \in Fiber, TryDone(t, f)
    PROVE  Inv'
<1>1. /\ PlacesKept /\ PlaceTypes' /\ Counted'
      /\ \A g \in Fiber : Queued(TimeoutTask(g))' => Queued(TimeoutTask(g)) /\ g # f
  BY ReturnKeepsPlaces DEF Inv, TryDone, eventVars
<1>2. HandsKept /\ WaitersKept
  BY DEF Inv, HandsKept, WaitersKept, TypeOK, ThreadInv, TryDone, Runs, Return, threadVars,
     fiberVars
<1>3. OnePlace' /\ HandsOnce'
  BY <1>1, <1>2, KeptInOnePlace DEF Inv
<1>4. TypeOK'
  <2>1. \E c \in Fd, e \in Event : ready' = ready \/ ready' = [ready EXCEPT ![c] = @ \ {e}]
    BY DEF Inv, FiberInv, TryDone, Runs
  <2>2. ready' \in [Fd -> SUBSET Event]
    <3>1. PICK c \in Fd, e \in Event : ready' = ready \/ ready' = [ready EXCEPT ![c] = @ \ {e}]
      BY <2>1
    <3>2. ready \in [Fd -> SUBSET Event] /\ ready[c] \ {e} \in SUBSET Event
      BY DEF Inv, TypeOK
    <3> QED
      BY <3>1, <3>2
  <2> QED
    BY <1>1, <2>2, ReturnTypes DEF Inv, TypeOK, PlaceTypes, TryDone, threadVars, bounds, eventVars
<1>5. ThreadInv'
  BY DEF Inv, TypeOK, ThreadInv, FiberInv, AloneOnThread, TryDone, Runs, Return, threadVars,
     fiberVars, bounds, eventVars, kernelVars
<1>6. FiberInv'
  BY <1>1 DEF Inv, TypeOK, ThreadInv, FiberInv, TryDone, Runs, Return, threadVars, fiberVars,
     bounds, eventVars, kernelVars
<1>7. AloneOnThread'
  BY DEF Inv, TypeOK, ThreadInv, AloneOnThread, TryDone, Runs, Return, threadVars, fiberVars,
     bounds, eventVars, kernelVars
<1>8. NoMissedEvent'
  <2>1. UNCHANGED <<events, registered, listed, todo>>
    BY DEF TryDone, threadVars, eventVars
  <2>2. \E c, e : ready' = ready \/ ready' = [ready EXCEPT ![c] = @ \ {e}]
    BY DEF TryDone
  <2>3. \A c \in Fd : ready'[c] \subseteq ready[c]
    BY <2>2 DEF Inv, TypeOK
  <2> QED
    BY <2>1, <2>3 DEF Inv, NoMissedEvent, TypeOK
<1>9. NeverAborts'
  BY DEF Inv, NeverAborts, TryDone, Runs, Return
<1> QED
  BY <1>1, <1>3, <1>4, <1>5, <1>6, <1>7, <1>8, <1>9 DEF Inv, PlacesKept

\* addEvent refuses: nothing was counted, no context changed.
LEMMA AddFailsKeeps ==
    ASSUME Inv, NEW t \in Thread, NEW f \in Fiber, AddFails(t, f)
    PROVE  Inv'
<1>1. /\ PlacesKept /\ PlaceTypes' /\ Counted'
      /\ \A g \in Fiber : Queued(TimeoutTask(g))' => Queued(TimeoutTask(g)) /\ g # f
  BY ReturnKeepsPlaces DEF Inv, AddFails, eventVars
<1>2. HandsKept /\ WaitersKept
  BY DEF Inv, HandsKept, WaitersKept, TypeOK, ThreadInv, AddFails, Runs, Return, threadVars,
     fiberVars
<1>3. OnePlace' /\ HandsOnce'
  BY <1>1, <1>2, KeptInOnePlace DEF Inv
<1>4. TypeOK'
  BY <1>1 DEF Inv, TypeOK, PlaceTypes, ThreadInv, FiberInv, AddFails, Runs, Return, threadVars,
     fiberVars, bounds, eventVars, kernelVars
<1>5. ThreadInv'
  BY DEF Inv, TypeOK, ThreadInv, FiberInv, AloneOnThread, AddFails, Runs, Return, threadVars,
     fiberVars, bounds, eventVars, kernelVars
<1>6. FiberInv'
  BY <1>1 DEF Inv, TypeOK, ThreadInv, FiberInv, AddFails, Runs, Return, threadVars, fiberVars,
     bounds, eventVars, kernelVars
<1>7. AloneOnThread'
  BY DEF Inv, TypeOK, ThreadInv, AloneOnThread, AddFails, Runs, Return, threadVars, fiberVars,
     bounds, eventVars, kernelVars
<1>8. NoMissedEvent'
  BY NothingMissed DEF Inv, AddFails, Runs, Return, threadVars, fiberVars, bounds, eventVars,
     kernelVars
<1>9. NeverAborts'
  BY DEF Inv, NeverAborts, AddFails, Runs, Return
<1> QED
  BY <1>1, <1>3, <1>4, <1>5, <1>6, <1>7, <1>8, <1>9 DEF Inv, PlacesKept

\* A resumed fiber returns or tries again.
LEMMA BackKeeps ==
    ASSUME Inv, NEW t \in Thread, NEW f \in Fiber, Back(t, f)
    PROVE  Inv'
<1>1. /\ PlacesKept /\ PlaceTypes' /\ Counted'
      /\ \A g \in Fiber : Queued(TimeoutTask(g))' => Queued(TimeoutTask(g)) /\ (g # f \/ ~cancelled[f])
  <2>1. CASE cancelled[f]
    BY <2>1, ReturnKeepsPlaces DEF Inv, Back
  <2>2. CASE ~cancelled[f]
    BY <2>2, UntouchedPlaces DEF Inv, Back
  <2> QED
    BY <2>1, <2>2
<1>2. HandsKept /\ WaitersKept
  BY DEF Inv, HandsKept, WaitersKept, TypeOK, ThreadInv, Back, Runs, Return, threadVars, fiberVars
<1>3. OnePlace' /\ HandsOnce'
  BY <1>1, <1>2, KeptInOnePlace DEF Inv
<1>4. TypeOK'
  <2>1. /\ pc' \in [Fiber -> {"new", "out", "try", "add", "yield", "wait", "back", "closing", "done"}]
        /\ want' \in [Fiber -> (Fd \X Event) \cup {None}] /\ cancelled' \in [Fiber -> BOOLEAN]
    <3>1. CASE cancelled[f]
      BY <3>1, ReturnTypes DEF Inv, Back
    <3>2. CASE ~cancelled[f]
      BY <3>2 DEF Inv, Back, TypeOK
    <3> QED
      BY <3>1, <3>2
  <2> QED
    BY <1>1, <2>1 DEF Inv, TypeOK, PlaceTypes, Back, threadVars, bounds, eventVars, kernelVars
<1>5. ThreadInv'
  BY DEF Inv, TypeOK, ThreadInv, FiberInv, AloneOnThread, Back, Runs, Return, threadVars, fiberVars,
     bounds, eventVars, kernelVars
<1>6. FiberInv'
  BY <1>1 DEF Inv, TypeOK, ThreadInv, FiberInv, Back, Runs, Return, threadVars, fiberVars, bounds,
     eventVars, kernelVars
<1>7. AloneOnThread'
  BY DEF Inv, TypeOK, ThreadInv, AloneOnThread, Back, Runs, Return, threadVars, fiberVars, bounds,
     eventVars, kernelVars
<1>8. NoMissedEvent'
  BY NothingMissed DEF Inv, Back, Runs, Return, threadVars, fiberVars, bounds, eventVars, kernelVars
<1>9. NeverAborts'
  BY DEF Inv, NeverAborts, Back, Runs, Return
<1> QED
  BY <1>1, <1>3, <1>4, <1>5, <1>6, <1>7, <1>8, <1>9 DEF Inv, PlacesKept

\* Another fiber cancels events: those that waited for them go to the queue.
LEMMA CancelByKeeps ==
    ASSUME Inv, NEW t \in Thread, NEW f \in Fiber, NEW fd \in Fd, NEW which, CancelBy(t, f, fd, which)
    PROVE  Inv'
<1>1. /\ PlacesKept /\ PlaceTypes' /\ Counted'
      /\ \A g \in Fiber : Queued(TimeoutTask(g))' <=> Queued(TimeoutTask(g))
  BY CancelKeepsPlaces DEF Inv, CancelBy
<1>2. HandsKept /\ WaitersKept
  BY DEF Inv, HandsKept, WaitersKept, TypeOK, ThreadInv, CancelBy, Runs, threadVars, fiberVars
<1>3. OnePlace' /\ HandsOnce'
  BY <1>1, <1>2, KeptInOnePlace DEF Inv
<1>4. TypeOK'
  <2>1. UNCHANGED <<opened, ready, hangup>> /\ registered' \in [Fd -> BOOLEAN] /\ listed' \subseteq Fd
    BY CancelMissesNothing DEF Inv, CancelBy, threadVars
  <2> QED
    BY <1>1, <2>1, CallAssumption DEF Inv, TypeOK, PlaceTypes, CancelBy, threadVars, fiberVars,
       bounds
<1>5. ThreadInv'
  BY DEF Inv, TypeOK, ThreadInv, FiberInv, AloneOnThread, CancelBy, Runs, threadVars, fiberVars,
     bounds, eventVars, kernelVars
<1>6. FiberInv'
  BY <1>1 DEF Inv, TypeOK, ThreadInv, FiberInv, CancelBy, Runs, threadVars, fiberVars, bounds,
     eventVars, kernelVars
<1>7. AloneOnThread'
  BY DEF Inv, TypeOK, ThreadInv, AloneOnThread, CancelBy, Runs, threadVars, fiberVars, bounds,
     eventVars, kernelVars
<1>8. NoMissedEvent'
  BY CancelMissesNothing DEF Inv, CancelBy, threadVars
<1>9. NeverAborts'
  BY DEF Inv, NeverAborts, CancelBy, Runs
<1> QED
  BY <1>1, <1>3, <1>4, <1>5, <1>6, <1>7, <1>8, <1>9 DEF Inv, PlacesKept

\* close cancels everything on the descriptor first.
LEMMA CloseKeeps ==
    ASSUME Inv, NEW t \in Thread, NEW f \in Fiber, NEW fd \in Fd, Close(t, f, fd)
    PROVE  Inv'
<1>1. /\ PlacesKept /\ PlaceTypes' /\ Counted'
      /\ \A g \in Fiber : Queued(TimeoutTask(g))' <=> Queued(TimeoutTask(g))
  BY CancelKeepsPlaces DEF Inv, Close
<1>2. HandsKept /\ WaitersKept
  BY DEF Inv, HandsKept, WaitersKept, TypeOK, ThreadInv, Close, Runs, threadVars, fiberVars
<1>3. OnePlace' /\ HandsOnce'
  BY <1>1, <1>2, KeptInOnePlace DEF Inv
<1>4. TypeOK'
  <2>1. UNCHANGED <<opened, ready, hangup>> /\ registered' \in [Fd -> BOOLEAN] /\ listed' \subseteq Fd
    BY CancelMissesNothing DEF Inv, Close, threadVars
  <2>2. want' \in [Fiber -> (Fd \X Event) \cup {None}] /\ closes' \in [Fd -> 0..MaxClose]
    BY CallAssumption DEF Inv, TypeOK, Close, Event
  <2> QED
    BY <1>1, <2>1, <2>2, CallAssumption DEF Inv, TypeOK, PlaceTypes, Close, threadVars, fiberVars,
       bounds
<1>5. ThreadInv'
  BY DEF Inv, TypeOK, ThreadInv, FiberInv, AloneOnThread, Close, Runs, threadVars, fiberVars,
     bounds, eventVars, kernelVars
<1>6. FiberInv'
  BY <1>1 DEF Inv, TypeOK, ThreadInv, FiberInv, Close, Runs, Event, threadVars
<1>7. AloneOnThread'
  BY DEF Inv, TypeOK, ThreadInv, AloneOnThread, Close, Runs, threadVars, fiberVars, bounds,
     eventVars, kernelVars
<1>8. NoMissedEvent'
  BY CancelMissesNothing DEF Inv, Close, threadVars
<1>9. NeverAborts'
  BY DEF Inv, NeverAborts, Close, Runs
<1> QED
  BY <1>1, <1>3, <1>4, <1>5, <1>6, <1>7, <1>8, <1>9 DEF Inv, PlacesKept

\* The timeout's cancelEvent hands on whoever waits by now, once.
LEMMA TimeoutCancelsKeeps ==
    ASSUME Inv, NEW t \in Thread, TimeoutCancels(t)
    PROVE  Inv'
<1>1. /\ PlacesKept /\ PlaceTypes' /\ Counted'
      /\ \A g \in Fiber : Queued(TimeoutTask(g))' <=> Queued(TimeoutTask(g))
  BY CancelKeepsPlaces DEF Inv, ThreadInv, TimeoutCancels
<1>2. HandsKept /\ WaitersKept
  BY DEF Inv, HandsKept, WaitersKept, TypeOK, ThreadInv, TimeoutCancels, threadVars, fiberVars
<1>3. OnePlace' /\ HandsOnce'
  BY <1>1, <1>2, KeptInOnePlace DEF Inv
<1>4. TypeOK'
  <2>1. UNCHANGED <<opened, ready, hangup>> /\ registered' \in [Fd -> BOOLEAN] /\ listed' \subseteq Fd
    BY CancelMissesNothing DEF Inv, ThreadInv, TimeoutCancels, threadVars
  <2> QED
    BY <1>1, <2>1 DEF Inv, TypeOK, PlaceTypes, TimeoutCancels, threadVars, fiberVars, bounds
<1>5. ThreadInv'
  BY DEF Inv, TypeOK, ThreadInv, FiberInv, AloneOnThread, TimeoutCancels, threadVars, fiberVars,
     bounds, eventVars, kernelVars
<1>6. FiberInv'
  BY <1>1 DEF Inv, TypeOK, ThreadInv, FiberInv, TimeoutCancels, threadVars, fiberVars, bounds,
     eventVars, kernelVars
<1>7. AloneOnThread'
  BY DEF Inv, TypeOK, ThreadInv, AloneOnThread, TimeoutCancels, threadVars, fiberVars, bounds,
     eventVars, kernelVars
<1>8. NoMissedEvent'
  BY CancelMissesNothing DEF Inv, ThreadInv, TimeoutCancels
<1>9. NeverAborts'
  BY DEF Inv, NeverAborts, TimeoutCancels
<1> QED
  BY <1>1, <1>3, <1>4, <1>5, <1>6, <1>7, <1>8, <1>9 DEF Inv, PlacesKept

\* An event that happens while it is waited for is listed.
LEMMA BecomesReadyKeeps ==
    ASSUME Inv, NEW fd \in Fd, NEW e \in Event, BecomesReady(fd, e)
    PROVE  Inv'
<1>1. /\ PlacesKept /\ PlaceTypes' /\ Counted'
      /\ \A g \in Fiber : Queued(TimeoutTask(g))' <=> Queued(TimeoutTask(g))
  BY UntouchedPlaces DEF Inv, BecomesReady, eventVars
<1>2. OnePlace' /\ HandsOnce'
  <2>1. HandsKept /\ WaitersKept
    BY DEF HandsKept, WaitersKept, BecomesReady, threadVars, fiberVars
  <2> QED
    BY <1>1, <2>1, KeptInOnePlace DEF Inv
<1>3. TypeOK'
  BY <1>1 DEF Inv, TypeOK, PlaceTypes, BecomesReady, threadVars, fiberVars, bounds, eventVars
<1>4. ThreadInv' /\ FiberInv' /\ AloneOnThread' /\ NeverAborts'
  BY <1>1 DEF Inv, ThreadInv, FiberInv, AloneOnThread, NeverAborts, BecomesReady, threadVars,
     fiberVars
<1>5. NoMissedEvent'
  BY DEF Inv, TypeOK, NoMissedEvent, BecomesReady, threadVars, eventVars
<1> QED
  BY <1>1, <1>2, <1>3, <1>4, <1>5 DEF Inv, PlacesKept

\* A hang-up lists the descriptor if it is registered.
LEMMA HangsUpKeeps ==
    ASSUME Inv, NEW fd \in Fd, HangsUp(fd)
    PROVE  Inv'
<1>1. /\ PlacesKept /\ PlaceTypes' /\ Counted'
      /\ \A g \in Fiber : Queued(TimeoutTask(g))' <=> Queued(TimeoutTask(g))
  BY UntouchedPlaces DEF Inv, HangsUp, eventVars
<1>2. OnePlace' /\ HandsOnce'
  <2>1. HandsKept /\ WaitersKept
    BY DEF HandsKept, WaitersKept, HangsUp, threadVars, fiberVars
  <2> QED
    BY <1>1, <2>1, KeptInOnePlace DEF Inv
<1>3. TypeOK'
  BY <1>1 DEF Inv, TypeOK, PlaceTypes, HangsUp, threadVars, fiberVars, bounds, eventVars
<1>4. ThreadInv' /\ FiberInv' /\ AloneOnThread' /\ NeverAborts'
  BY <1>1 DEF Inv, ThreadInv, FiberInv, AloneOnThread, NeverAborts, HangsUp, threadVars, fiberVars
<1>5. NoMissedEvent'
  BY DEF Inv, TypeOK, NoMissedEvent, HangsUp, threadVars, eventVars
<1> QED
  BY <1>1, <1>2, <1>3, <1>4, <1>5 DEF Inv, PlacesKept

\* Callbacks of expired timers are queued; no fiber moves.
LEMMA ListExpiredKeeps ==
    ASSUME Inv, NEW t \in Thread, ListExpired(t)
    PROVE  Inv'
<1>1. PICK expired \in SUBSET {f \in Fiber : timer[f]} :
          /\ timer' = [f \in Fiber |-> timer[f] /\ f \notin expired]
          /\ \E q \in Orders({TimeoutTask(f) : f \in expired}) : m_fibers' = m_fibers \o q
  BY DEF ListExpired
<1>2. PICK q \in Orders({TimeoutTask(f) : f \in expired}) : m_fibers' = m_fibers \o q
  BY <1>1
<1>3. expired \in SUBSET Fiber /\ UNCHANGED eventVars
  BY DEF ListExpired
<1>4. /\ PlacesKept /\ PlaceTypes' /\ Counted'
      /\ \A g \in Fiber : Queued(TimeoutTask(g))' => Queued(TimeoutTask(g)) \/ g \in expired
  BY <1>2, <1>3, ExpiryKeepsPlaces DEF Inv
<1>5. OnePlace' /\ HandsOnce'
  <2>1. HandsKept /\ WaitersKept
    BY DEF Inv, TypeOK, HandsKept, WaitersKept, ListExpired
  <2> QED
    BY <1>4, <2>1, KeptInOnePlace DEF Inv
<1>6. timer' \in [Fiber -> BOOLEAN] /\ \A f \in Fiber : timer'[f] => timer[f]
  BY <1>1 DEF Inv, TypeOK
<1>7. TypeOK'
  BY <1>4, <1>6 DEF Inv, TypeOK, PlaceTypes, ListExpired, bounds, kernelVars
<1>8. ThreadInv' /\ AloneOnThread' /\ NeverAborts'
  BY DEF Inv, TypeOK, ThreadInv, AloneOnThread, NeverAborts, ListExpired
<1>9. FiberInv'
  BY <1>1, <1>4, <1>6 DEF Inv, FiberInv, ListExpired
<1>10. NoMissedEvent'
  BY NothingMissed DEF Inv, ListExpired, eventVars, kernelVars
<1> QED
  BY <1>4, <1>5, <1>7, <1>8, <1>9, <1>10 DEF Inv, PlacesKept

\* A callback is taken: it marks the call cancelled or finds it over.
LEMMA TimeoutKeeps ==
    ASSUME Inv, NEW t \in Thread, Timeout(t)
    PROVE  Inv'
<1>1. PICK k \in 1..Len(m_fibers) :
          /\ m_fibers[k].kind # "fiber"
          /\ m_fibers' = Without(m_fibers, k)
          /\ IF m_fibers[k] = ExpiredTask \/ cancelled[m_fibers[k].fiber]
             THEN UNCHANGED <<doing, target, cancelled>>
             ELSE /\ cancelled' = [cancelled EXCEPT ![m_fibers[k].fiber] = TRUE]
                  /\ doing' = [doing EXCEPT ![t] = "timeout"]
                  /\ target' = [target EXCEPT ![t] = want[m_fibers[k].fiber]]
  BY DEF Timeout
<1>2. UNCHANGED eventVars
  BY DEF Timeout
<1>3. /\ PlacesKept /\ PlaceTypes' /\ Counted'
      /\ \A g \in Fiber : Queued(TimeoutTask(g))' => Queued(TimeoutTask(g))
  BY <1>1, <1>2, CallbackTakenKeepsPlaces DEF Inv
<1>4. OnePlace' /\ HandsOnce'
  <2>1. HandsKept /\ WaitersKept
    BY <1>1 DEF Inv, TypeOK, HandsKept, WaitersKept, Timeout
  <2> QED
    BY <1>3, <2>1, KeptInOnePlace DEF Inv
<1>5. m_fibers[k] # ExpiredTask => want[m_fibers[k].fiber] \in Fd \X Event
  <2>1. m_fibers[k] \in Task
    BY ElementOfSeq DEF Inv, TypeOK
  <2>2. m_fibers[k] # ExpiredTask =>
            m_fibers[k].fiber \in Fiber /\ m_fibers[k] = TimeoutTask(m_fibers[k].fiber)
    BY <1>1, <2>1 DEF Task, TimeoutTask
  <2> QED
    BY <2>2 DEF Inv, FiberInv, Queued, Has
<1>6. TypeOK'
  BY <1>1, <1>3, <1>5 DEF Inv, TypeOK, PlaceTypes, Timeout, bounds, kernelVars
<1>7. ThreadInv'
  BY <1>1, <1>5 DEF Inv, TypeOK, ThreadInv, Timeout
<1>8. FiberInv'
  BY <1>3 DEF Inv, FiberInv, Timeout
<1>9. AloneOnThread' /\ NeverAborts'
  BY <1>1 DEF Inv, TypeOK, AloneOnThread, NeverAborts, Timeout
<1>10. NoMissedEvent'
  BY NothingMissed DEF Inv, Timeout, eventVars, kernelVars
<1> QED
  BY <1>3, <1>4, <1>6, <1>7, <1>8, <1>9, <1>10 DEF Inv, PlacesKept

\* A result of epoll_wait hands on the fibers of its events, once, or fails its
\* assertion and stops the program.
LEMMA HandleEventKeeps ==
    ASSUME Inv, NEW t \in Thread, NEW r \in todo[t], HandleEvent(t, r)
    PROVE  Inv'
<1> DEFINE real == r.events \cup (IF r.hangup THEN events[r.fd] ELSE {})
<1>1. r \in Result /\ r.fd \in Fd /\ UNCHANGED <<doing, who, target, m_state, fiberVars>>
  BY DEF Inv, TypeOK, Result, HandleEvent
<1>2. CASE ~(events[r.fd] \cap real = {} \/ ~registered[r.fd]) /\ real \subseteq events[r.fd]
  <2>1. /\ Trigger(r.fd, real) /\ Narrow(r.fd, events[r.fd] \ real)
        /\ todo' = [todo EXCEPT ![t] = @ \ {r}] /\ aborted' = aborted /\ doing[t] = "events"
    BY <1>2 DEF HandleEvent
  <2> HIDE DEF real
  <2>2. /\ PlacesKept /\ PlaceTypes' /\ Counted'
        /\ \A g \in Fiber : Queued(TimeoutTask(g))' <=> Queued(TimeoutTask(g))
    BY <1>1, <1>2, <2>1, TriggerMoves, TriggerCounts DEF Inv, PlacesKept, PlaceTypes
  <2>3. NoMissedEvent'
    <3>1. events' = [events EXCEPT ![r.fd] = events[r.fd] \ real]
      BY <2>1 DEF Trigger
    <3>2. \A x \in Thread : \A s \in todo[x] : s.fd # r.fd => s \in todo'[x]
      BY <2>1 DEF Inv, TypeOK
    <3> QED
      BY <1>1, <2>1, <3>1, <3>2, NarrowMissesNothing DEF Inv
  <2>4. TypeOK'
    <3>1. /\ UNCHANGED <<opened, ready, hangup>> /\ registered' \in [Fd -> BOOLEAN]
          /\ listed' \subseteq Fd /\ todo' \in [Thread -> SUBSET Result]
      BY <1>1, <2>1 DEF Narrow, Relist, Inv, TypeOK
    <3> QED
      BY <1>1, <2>1, <2>2, <3>1 DEF Inv, TypeOK, PlaceTypes, fiberVars, bounds
  <2>5. ThreadInv'
    BY <1>1, <2>1 DEF Inv, TypeOK, ThreadInv, fiberVars
  <2>6. FiberInv' /\ AloneOnThread' /\ NeverAborts'
    BY <1>1, <2>1, <2>2 DEF Inv, FiberInv, AloneOnThread, NeverAborts, fiberVars
  <2>7. HandsKept /\ WaitersKept
    BY <1>1 DEF HandsKept, WaitersKept, fiberVars
  <2>8. OnePlace' /\ HandsOnce'
    BY <2>2, <2>7, KeptInOnePlace DEF Inv
  <2> QED
    BY <2>2, <2>3, <2>4, <2>5, <2>6, <2>8 DEF Inv, PlacesKept
<1>3. CASE ~(~(events[r.fd] \cap real = {} \/ ~registered[r.fd]) /\ real \subseteq events[r.fd])
  <2>1. /\ UNCHANGED <<m_fibers, eventVars, kernelVars>>
        /\ todo' = todo \/ (/\ events[r.fd] \cap real = {} \/ ~registered[r.fd]
                            /\ todo' = [todo EXCEPT ![t] = @ \ {r}])
        /\ doing[t] = "events" /\ aborted' \in {aborted, "trigger"}
    BY <1>3 DEF HandleEvent
  <2>2. /\ PlacesKept /\ PlaceTypes' /\ Counted'
        /\ \A g \in Fiber : Queued(TimeoutTask(g))' <=> Queued(TimeoutTask(g))
    BY <2>1, UntouchedPlaces DEF Inv
  <2>3. NoMissedEvent'
    <3>1. UNCHANGED <<events, ready, registered, listed>>
      BY <2>1 DEF eventVars, kernelVars
    <3>2. CASE todo' = todo
      BY <3>1, <3>2, NothingMissed DEF Inv
    <3>3. CASE /\ events[r.fd] \cap real = {} \/ ~registered[r.fd]
               /\ todo' = [todo EXCEPT ![t] = @ \ {r}]
      <4>1. \A e \in events[r.fd] : registered[r.fd] => ~(e \in r.events \/ r.hangup)
        BY <3>3
      <4>2. \A x \in Thread : \A s \in todo[x] : s = r \/ s \in todo'[x]
        BY <3>3 DEF Inv, TypeOK
      <4> QED
        BY <3>1, <4>1, <4>2 DEF Inv, NoMissedEvent
    <3> QED
      BY <2>1, <3>2, <3>3
  <2>4. TypeOK'
    <3>1. todo' \in [Thread -> SUBSET Result]
      BY <2>1 DEF Inv, TypeOK
    <3> QED
      BY <1>1, <2>1, <2>2, <3>1 DEF Inv, TypeOK, PlaceTypes, fiberVars, bounds, kernelVars
  <2>5. ThreadInv'
    BY <1>1, <2>1 DEF Inv, TypeOK, ThreadInv, fiberVars
  <2>6. FiberInv' /\ AloneOnThread' /\ NeverAborts'
    BY <1>1, <2>1, <2>2 DEF Inv, FiberInv, AloneOnThread, NeverAborts, fiberVars
  <2>7. HandsKept /\ WaitersKept
    BY <1>1 DEF HandsKept, WaitersKept, fiberVars
  <2>8. OnePlace' /\ HandsOnce'
    BY <2>2, <2>7, KeptInOnePlace DEF Inv
  <2> QED
    BY <2>2, <2>3, <2>4, <2>5, <2>6, <2>8 DEF Inv, PlacesKept
<1> QED
  BY <1>2, <1>3

\* Under the queue's lock a fiber goes from the queue into a thread's hands.
LEMMA TakeFiberKeeps ==
    ASSUME Inv, NEW t \in Thread, TakeFiber(t)
    PROVE  Inv'
<1>1. PICK k \in 1..Len(m_fibers) :
          /\ Eligible(m_fibers[k]) /\ m_fibers[k].kind = "fiber"
          /\ m_fibers' = Without(m_fibers, k)
          /\ doing' = [doing EXCEPT ![t] = "resume"]
          /\ who' = [who EXCEPT ![t] = m_fibers[k].fiber]
  BY DEF TakeFiber, NextTask
<1> DEFINE f == m_fibers[k].fiber
<1>2. f \in Fiber /\ m_fibers[k] = FiberTask(f) /\ m_state[f] # "EXEC" /\ Queued(FiberTask(f))
  <2>1. m_fibers[k] \in Task
    BY ElementOfSeq DEF Inv, TypeOK
  <2> QED
    BY <1>1, <2>1 DEF Task, FiberTask, ExpiredTask, Eligible, Queued, Has
<1> HIDE DEF f
<1>3. UNCHANGED <<todo, target, m_state, fiberVars, eventVars, kernelVars, aborted>> /\ doing[t] = "run"
  BY DEF TakeFiber
<1>4. /\ m_fibers' \in Seq(Task)
      /\ \A x : Has(m_fibers', x) => Has(m_fibers, x)
      /\ \A x : Has(m_fibers, x) /\ x # FiberTask(f) => Has(m_fibers', x)
      /\ FibersOnce(m_fibers') /\ ~Has(m_fibers', FiberTask(f))
  BY <1>1, <1>2, WithoutElements, WithoutHas DEF Inv, TypeOK, QueuedOnce
<1>5. /\ doing' = [doing EXCEPT ![t] = "resume"] /\ who' = [who EXCEPT ![t] = f]
      /\ doing \in [Thread -> {"run", "resume", "fiber", "hold", "timeout", "idle", "expire", "events"}]
      /\ who \in [Thread -> Fiber \cup {None}]
  BY <1>1 DEF Inv, TypeOK, f
<1>6. TypeOK'
  BY <1>2, <1>3, <1>4, <1>5 DEF Inv, TypeOK, fiberVars, bounds, eventVars, kernelVars
<1>7. ThreadInv'
  BY <1>2, <1>3, <1>5 DEF Inv, ThreadInv, fiberVars
<1>8. FiberInv'
  BY <1>3, <1>4 DEF Inv, FiberInv, Queued, fiberVars
<1>9. AloneOnThread' /\ NeverAborts'
  BY <1>3, <1>5 DEF Inv, AloneOnThread, NeverAborts
<1>10. ContextInv' /\ ContextOnce' /\ Counted' /\ QueuedOnce'
  BY <1>3, <1>4 DEF Inv, ContextInv, ContextOnce, Counted, Waited, QueuedOnce, eventVars
<1>11. \A g \in Fiber :
           /\ InContext(g)' <=> InContext(g)
           /\ Queued(FiberTask(g))' <=> Queued(FiberTask(g)) /\ g # f
           /\ InHands(g)' <=> InHands(g) \/ g = f
  <2>1. \A g \in Fiber : InContext(g)' <=> InContext(g)
    BY <1>3 DEF InContext, eventVars
  <2>2. \A g \in Fiber : Queued(FiberTask(g))' <=> Queued(FiberTask(g)) /\ g # f
    BY <1>4 DEF Queued, FiberTask
  <2>3. \A g \in Fiber : InHands(g)' <=> InHands(g) \/ g = f
    BY <1>3, <1>5 DEF InHands
  <2> QED
    BY <2>1, <2>2, <2>3
<1>12. ~InHands(f) /\ ~InContext(f)
  BY <1>2 DEF Inv, OnePlace
<1>13. HandsOnce'
  BY <1>5, <1>12 DEF Inv, HandsOnce, InHands
<1>14. OnePlace'
  BY <1>2, <1>3, <1>11, <1>12 DEF Inv, OnePlace, fiberVars
<1>15. NoMissedEvent'
  BY <1>3, NothingMissed DEF Inv, eventVars, kernelVars
<1> QED
  BY <1>6, <1>7, <1>8, <1>9, <1>10, <1>13, <1>14, <1>15 DEF Inv

\* Fiber::resume finds a fiber nobody runs: its assertion holds.
LEMMA ResumeKeeps ==
    ASSUME Inv, NEW t \in Thread, Resume(t)
    PROVE  Inv'
<1> DEFINE f == who[t]
<1>1. f \in Fiber /\ m_state[f] # "EXEC" /\ doing[t] = "resume" /\ InHands(f)
  BY DEF Inv, ThreadInv, Resume, InHands
<1>2. ~InContext(f) /\ ~Queued(FiberTask(f)) /\ pc[f] \in {"new", "wait"}
  BY <1>1 DEF Inv, OnePlace, FiberInv
<1>3. /\ m_state' = [m_state EXCEPT ![f] = "EXEC"]
      /\ doing' = [doing EXCEPT ![t] = "fiber"]
      /\ pc' = [pc EXCEPT ![f] = IF @ = "new" THEN "out" ELSE "back"]
      /\ UNCHANGED <<who, todo, target, m_fibers, want, cancelled, timer, bounds, eventVars,
                     kernelVars, aborted>>
  BY <1>1 DEF Resume
<1>4. /\ doing \in [Thread -> {"run", "resume", "fiber", "hold", "timeout", "idle", "expire", "events"}]
      /\ m_state \in [Fiber -> {"INIT", "EXEC", "HOLD", "TERM"}]
      /\ pc \in [Fiber -> {"new", "out", "try", "add", "yield", "wait", "back", "closing", "done"}]
  BY DEF Inv, TypeOK
<1>5. \A x \in Thread : x # t /\ doing[x] \in {"resume", "fiber", "hold"} => who[x] # f
  BY <1>1 DEF Inv, HandsOnce, ThreadInv
<1> HIDE DEF f
<1>6. TypeOK'
  BY <1>3 DEF Inv, TypeOK, bounds, eventVars, kernelVars
<1>7. who[t] = f /\ \A x \in Thread : who'[x] = who[x]
  BY <1>3 DEF f
<1>8. ThreadInv'
  BY <1>1, <1>2, <1>3, <1>4, <1>5, <1>7 DEF Inv, ThreadInv
<1>9. FiberInv'
  BY <1>1, <1>2, <1>3, <1>4 DEF Inv, FiberInv, Queued
<1>10. AloneOnThread' /\ NeverAborts'
  BY <1>3, <1>4, <1>5, <1>7 DEF Inv, AloneOnThread, NeverAborts
<1>11. ContextInv' /\ ContextOnce' /\ Counted' /\ QueuedOnce'
  BY <1>3 DEF Inv, ContextInv, ContextOnce, Counted, Waited, QueuedOnce, eventVars
<1>12. \A g \in Fiber :
           /\ InContext(g)' <=> InContext(g)
           /\ Queued(FiberTask(g))' <=> Queued(FiberTask(g))
           /\ InHands(g)' <=> InHands(g) /\ g # f
  <2>1. \A g \in Fiber : InContext(g)' <=> InContext(g)
    BY <1>3 DEF InContext, eventVars
  <2>2. \A g \in Fiber : Queued(FiberTask(g))' <=> Queued(FiberTask(g))
    BY <1>3 DEF Queued
  <2>3. \A g \in Fiber : InHands(g)' <=> InHands(g) /\ g # f
    BY <1>3, <1>4, <1>5, <1>7 DEF InHands
  <2> QED
    BY <2>1, <2>2, <2>3
<1>13. HandsOnce'
  BY <1>3, <1>4, <1>7 DEF Inv, HandsOnce
<1>14. OnePlace'
  BY <1>1, <1>2, <1>3, <1>4, <1>12 DEF Inv, OnePlace
<1>15. NoMissedEvent'
  BY <1>3, NothingMissed DEF Inv, eventVars, kernelVars
<1> QED
  BY <1>6, <1>8, <1>9, <1>10, <1>11, <1>13, <1>14, <1>15 DEF Inv

\* addEvent: the fiber goes into a context that is free.
LEMMA AddEventKeeps ==
    ASSUME Inv, NEW t \in Thread, NEW f \in Fiber, addEvent(t, f)
    PROVE  Inv'
<1>1. Runs(t, f, "add") /\ ~Refused(want[f][1], want[f][2])
  BY DEF addEvent
<1>2. PICK fd \in Fd, e \in Event : want[f] = <<fd, e>>
  BY <1>1 DEF Inv, FiberInv, Runs
<1>3. e \notin events[fd] /\ context[fd][e] = None /\ opened[fd]
  BY <1>1, <1>2 DEF Refused, Inv, ContextInv
<1>4. /\ events' = [events EXCEPT ![fd] = @ \cup {e}]
      /\ context' = [context EXCEPT ![fd][e] = f]
      /\ m_pendingEventCount' = m_pendingEventCount + 1
      /\ registered' = [registered EXCEPT ![fd] = TRUE]
      /\ listed' = Relist(fd, events[fd] \cup {e})
      /\ pc' = [pc EXCEPT ![f] = "yield"]
      /\ UNCHANGED <<threadVars, m_fibers, m_state, want, cancelled, timer, bounds,
                     opened, ready, hangup, aborted>>
  BY <1>2, <1>3 DEF addEvent
<1>5. /\ events \in [Fd -> SUBSET Event] /\ context \in [Fd -> [Event -> Fiber \cup {None}]]
      /\ pc \in [Fiber -> {"new", "out", "try", "add", "yield", "wait", "back", "closing", "done"}]
      /\ None \notin Fiber /\ m_pendingEventCount \in Nat
  BY TimedAssumption DEF Inv, TypeOK
<1>6. \A c \in Fd, g \in Event :
          /\ events'[c] = IF c = fd THEN events[c] \cup {e} ELSE events[c]
          /\ context'[c][g] = IF c = fd /\ g = e THEN f ELSE context[c][g]
  BY <1>4, <1>5
<1>7. ~InContext(f) /\ ~Queued(FiberTask(f)) /\ ~InHands(f)
  BY <1>1 DEF Inv, OnePlace, Runs
<1>8. ContextInv'
  <2> SUFFICES ASSUME NEW c \in Fd, NEW g \in Event
               PROVE  context'[c][g] # None <=> g \in events'[c]
    BY DEF ContextInv
  <2>1. context[c][g] # None <=> g \in events[c]
    BY DEF Inv, ContextInv
  <2>2. f # None /\ events'[c] = IF c = fd THEN events[c] \cup {e} ELSE events[c]
    BY <1>5, <1>6
  <2>3. context'[c][g] = IF c = fd /\ g = e THEN f ELSE context[c][g]
    BY <1>6
  <2> QED
    BY <2>1, <2>2, <2>3
<1>9. ContextOnce'
  <2> SUFFICES ASSUME NEW c \in Fd, NEW d \in Fd, NEW g \in Event, NEW h \in Event,
                      context'[c][g] = context'[d][h], context'[c][g] # None
               PROVE  c = d /\ g = h
    BY DEF ContextOnce
  <2>1. context[c][g] # f /\ context[d][h] # f
    BY <1>7 DEF InContext
  <2>2. /\ context'[c][g] = IF c = fd /\ g = e THEN f ELSE context[c][g]
        /\ context'[d][h] = IF d = fd /\ h = e THEN f ELSE context[d][h]
    BY <1>6
  <2>3. context[c][g] = context[d][h] /\ context[c][g] # None => c = d /\ g = h
    BY DEF Inv, ContextOnce
  <2> QED
    BY <2>1, <2>2, <2>3
<1>10. QueuedOnce' /\ HandsOnce' /\ AloneOnThread' /\ NeverAborts'
  BY <1>4 DEF Inv, QueuedOnce, HandsOnce, AloneOnThread, NeverAborts, threadVars
<1>11. \A g \in Fiber :
           /\ InContext(g)' <=> InContext(g) \/ g = f
           /\ Queued(FiberTask(g))' <=> Queued(FiberTask(g))
           /\ InHands(g)' <=> InHands(g)
  <2>1. ASSUME NEW g \in Fiber PROVE InContext(g)' <=> InContext(g) \/ g = f
    <3>1. context'[fd][e] = f
      BY <1>6
    <3>2. ASSUME NEW c \in Fd, NEW h \in Event, context[c][h] = g
          PROVE  context'[c][h] = g
      <4>1. ~(c = fd /\ h = e)
        BY <1>3, <1>5, <3>2
      <4> QED
        BY <1>6, <3>2, <4>1
    <3>3. ASSUME NEW c \in Fd, NEW h \in Event, context'[c][h] = g
          PROVE  g = f \/ context[c][h] = g
      BY <1>6, <3>3
    <3> QED
      BY <3>1, <3>2, <3>3 DEF InContext
  <2>2. \A g \in Fiber :
            /\ Queued(FiberTask(g))' <=> Queued(FiberTask(g))
            /\ InHands(g)' <=> InHands(g)
    BY <1>4 DEF Queued, InHands, threadVars
  <2> QED
    BY <2>1, <2>2
<1>12. OnePlace'
  BY <1>4, <1>5, <1>7, <1>11 DEF Inv, OnePlace
<1>13. Counted'
  <2>1. Waited' = Waited \cup {<<fd, e>>} /\ <<fd, e>> \notin Waited
    <3>1. ASSUME NEW c \in Fd, NEW g \in Event
          PROVE  g \in events'[c] <=> g \in events[c] \/ <<c, g>> = <<fd, e>>
      BY <1>6
    <3>2. ASSUME NEW p \in Fd \X Event
          PROVE  p \in Waited' <=> p \in Waited \/ p = <<fd, e>>
      <4>1. PICK c \in Fd, g \in Event : p = <<c, g>>
        OBVIOUS
      <4> QED
        BY <3>1, <4>1 DEF Waited
    <3> QED
      BY <1>3, <3>2 DEF Waited
  <2>2. IsFiniteSet(Waited)
    BY WaitedFinite
  <2>3. Cardinality(Waited \cup {<<fd, e>>}) = Cardinality(Waited) + 1
    BY <2>1, <2>2, FS_AddElement
  <2> QED
    BY <1>4, <2>1, <2>3 DEF Inv, Counted
<1>14. TypeOK'
  <2>1. listed' \subseteq Fd
    BY <1>4 DEF Inv, TypeOK, Relist
  <2>2. events' \in [Fd -> SUBSET Event]
    BY <1>4, <1>5
  <2>3. context' \in [Fd -> [Event -> Fiber \cup {None}]]
    <3>1. [context[fd] EXCEPT ![e] = f] \in [Event -> Fiber \cup {None}]
      BY <1>5
    <3> QED
      BY <1>4, <1>5, <3>1
  <2>4. /\ registered' \in [Fd -> BOOLEAN] /\ m_pendingEventCount' \in Nat
        /\ pc' \in [Fiber -> {"new", "out", "try", "add", "yield", "wait", "back", "closing", "done"}]
    BY <1>4, <1>5 DEF Inv, TypeOK
  <2> QED
    BY <1>4, <2>1, <2>2, <2>3, <2>4 DEF Inv, TypeOK, threadVars, bounds
<1>15. ThreadInv'
  BY <1>1, <1>4, <1>5 DEF Inv, ThreadInv, Runs, threadVars
<1>16. FiberInv'
  BY <1>1, <1>4, <1>5 DEF Inv, FiberInv, Runs, Queued, ThreadInv
<1>17. NoMissedEvent'
  <2> SUFFICES ASSUME NEW c \in Fd, NEW g \in events'[c] \cap ready'[c], registered'[c]
               PROVE  \/ c \in listed'
                      \/ \E x \in Thread : \E r \in todo'[x] : r.fd = c /\ (g \in r.events \/ r.hangup)
    BY DEF NoMissedEvent
  <2>1. CASE c = fd
    BY <1>4, <1>6, <2>1 DEF Relist
  <2>2. CASE c # fd
    <3>1. g \in events[c] \cap ready[c] /\ registered[c] /\ (c \in listed => c \in listed')
      BY <1>4, <1>6, <2>2 DEF Inv, TypeOK, Relist
    <3> QED
      BY <1>4, <3>1 DEF Inv, NoMissedEvent, threadVars
  <2> QED
    BY <2>1, <2>2
<1> QED
  BY <1>8, <1>9, <1>10, <1>12, <1>13, <1>14, <1>15, <1>16, <1>17 DEF Inv

-----------------------------------------------------------------------------
(* The invariant holds *)

\* At first every fiber is in the queue, once.
LEMMA InitQueue ==
    ASSUME NEW q \in Orders({FiberTask(f) : f \in Fiber})
    PROVE  /\ q \in Seq(Task) /\ FibersOnce(q)
           /\ \A f \in Fiber : Has(q, FiberTask(f)) /\ ~Has(q, TimeoutTask(f))
<1> DEFINE S == {FiberTask(f) : f \in Fiber}
           n == Cardinality(S)
<1>1. IsFiniteSet(S)
  <2> DEFINE h == [f \in Fiber |-> FiberTask(f)]
  <2>1. h \in Surjection(Fiber, S)
    BY DEF Surjection
  <2> HIDE DEF h
  <2> QED
    BY <2>1, ThreadAssumption, FS_Surjection
<1>2. S \subseteq Task /\ \A f \in Fiber : FiberTask(f) \in S /\ TimeoutTask(f) \notin S
  <2>1. \A f \in Fiber : FiberTask(f) \in Task
    BY DEF Task, FiberTask
  <2>2. \A f, g \in Fiber : FiberTask(g) # TimeoutTask(f)
    BY DEF FiberTask, TimeoutTask
  <2> QED
    BY <2>1, <2>2
<1>3. q \in [1..n -> S] /\ \A x \in S : \E k \in DOMAIN q : q[k] = x
  BY DEF Orders
<1> HIDE DEF S
<1>4. n \in Nat
  BY <1>1, FS_CardinalityType
<1>5. q \in Seq(S) /\ Len(q) = n
  BY <1>3, <1>4, SeqDef, LenProperties
<1>6. q \in Seq(Task) /\ \A k \in 1..n : q[k] \in S
  BY <1>2, <1>3, <1>5, SeqMonotonic
<1>7. q \in Injection(1..n, S)
  <2>1. q \in Surjection(1..n, S)
    BY <1>3 DEF Surjection
  <2>2. IsFiniteSet(1..n) /\ Cardinality(1..n) = n
    BY <1>4, FS_Interval
  <2> HIDE DEF n
  <2>3. Cardinality(1..n) = Cardinality(S)
    BY <2>2 DEF n
  <2> QED
    BY <2>1, <2>2, <2>3, FS_SurjSameCardinalityImpliesInj
<1>8. FibersOnce(q)
  <2>1. \A j, k \in 1..n : q[j] = q[k] => j = k
    BY <1>7 DEF Injection, IsInjective
  <2> QED
    BY <1>5, <2>1 DEF FibersOnce
<1>9. \A f \in Fiber : Has(q, FiberTask(f))
  BY <1>2, <1>3, <1>5 DEF Has
<1>10. \A f \in Fiber : ~Has(q, TimeoutTask(f))
  BY <1>2, <1>5, <1>6 DEF Has
<1> QED
  BY <1>6, <1>8, <1>9, <1>10

\* The invariant holds at first: nothing is waited for, nothing runs.
LEMMA InitInv == Init => Inv
<1> SUFFICES ASSUME Init PROVE Inv
  OBVIOUS
<1>1. m_fibers \in Seq(Task) /\ QueuedOnce
      /\ \A f \in Fiber : Queued(FiberTask(f)) /\ ~Queued(TimeoutTask(f))
  BY InitQueue DEF Init, QueuedOnce, Queued
<1>2. MaxCall \in Nat /\ MaxClose \in Nat /\ None \notin Fiber
  BY CallAssumption, TimedAssumption
<1>3. TypeOK
  <2>1. 0 \in 0..MaxCall /\ 0 \in 0..MaxClose
    BY <1>2
  <2>2. context \in [Fd -> [Event -> Fiber \cup {None}]]
    BY DEF Init
  <2> QED
    BY <1>1, <2>1, <2>2 DEF Init, TypeOK
<1>4. ThreadInv /\ AloneOnThread /\ HandsOnce /\ NeverAborts
  BY DEF Init, ThreadInv, AloneOnThread, HandsOnce, NeverAborts
<1>5. FiberInv
  BY <1>1 DEF Init, FiberInv
<1>6. ContextInv /\ ContextOnce /\ NoMissedEvent
  BY DEF Init, ContextInv, ContextOnce, NoMissedEvent
<1>7. \A f \in Fiber : ~InContext(f) /\ ~InHands(f) /\ pc[f] = "new"
  BY <1>2 DEF Init, InContext, InHands
<1>8. OnePlace
  BY <1>1, <1>7 DEF OnePlace
<1>9. Counted
  <2>1. Waited = {}
    BY DEF Init, Waited
  <2> QED
    BY <2>1, FS_EmptySet DEF Init, Counted
<1> QED
  BY <1>1, <1>3, <1>4, <1>5, <1>6, <1>8, <1>9 DEF Inv

\* Every step of a thread keeps the invariant.
LEMMA StepKeeps ==
    ASSUME Inv, NEW t \in Thread, Step(t)
    PROVE  Inv'
<1>1. ASSUME TakeFiber(t) \/ Resume(t) \/ Hold(t) \/ Finish(t) \/ Idle(t) PROVE Inv'
  BY <1>1, TakeFiberKeeps, ResumeKeeps, HoldKeeps, FinishKeeps, IdleKeeps
<1>2. ASSUME Timeout(t) \/ TimeoutCancels(t) \/ EpollWait(t) \/ ListExpired(t) \/ IdleEnds(t) PROVE Inv'
  BY <1>2, TimeoutKeeps, TimeoutCancelsKeeps, EpollWaitKeeps, ListExpiredKeeps, IdleEndsKeeps
<1>3. ASSUME NEW r \in todo[t], HandleEvent(t, r) PROVE Inv'
  BY <1>3, HandleEventKeeps
<1>4. ASSUME NEW f \in Fiber,
             TryDone(t, f) \/ TryAgain(t, f) \/ AddFails(t, f) \/ addEvent(t, f)
             \/ Yield(t, f) \/ Back(t, f) \/ Closing(t, f)
      PROVE  Inv'
  BY <1>4, TryDoneKeeps, TryAgainKeeps, AddFailsKeeps, AddEventKeeps, YieldKeeps, BackKeeps,
     ClosingKeeps
<1>5. ASSUME NEW f \in Fiber, NEW fd \in Fd, Close(t, f, fd) \/ Opens(t, f, fd) PROVE Inv'
  BY <1>5, CloseKeeps, OpensKeeps
<1>6. ASSUME NEW f \in Fiber, NEW fd \in Fd, NEW e \in Event, Call(t, f, fd, e) PROVE Inv'
  BY <1>6, CallKeeps
<1>7. ASSUME NEW f \in Fiber, NEW fd \in Fd, NEW which \in SUBSET Event, CancelBy(t, f, fd, which)
      PROVE  Inv'
  BY <1>7, CancelByKeeps
<1>8. \A e \in Event : {e} \in SUBSET Event
  OBVIOUS
<1> QED
  BY <1>1, <1>2, <1>3, <1>4, <1>5, <1>6, <1>7, <1>8 DEF Step

\* The invariant is inductive.
LEMMA NextInv == Inv /\ [Next]_vars => Inv'
<1> SUFFICES ASSUME Inv, [Next]_vars PROVE Inv'
  OBVIOUS
<1>1. ASSUME NEW fd \in Fd, HangsUp(fd) \/ \E e \in Event : BecomesReady(fd, e) PROVE Inv'
  BY <1>1, HangsUpKeeps, BecomesReadyKeeps
<1>2. CASE UNCHANGED vars
  <2>1. /\ UNCHANGED threadVars /\ UNCHANGED <<m_fibers, m_state, aborted>>
        /\ UNCHANGED <<pc, want, cancelled, timer, calls, closes>>
        /\ UNCHANGED <<events, context, m_pendingEventCount>>
        /\ UNCHANGED kernelVars
    BY <1>2 DEF vars, fiberVars, bounds, eventVars
  <2>2. TypeOK'
    BY <2>1 DEF Inv, TypeOK, threadVars, kernelVars
  <2>3. ThreadInv' /\ AloneOnThread' /\ HandsOnce' /\ NeverAborts'
    BY <2>1 DEF Inv, ThreadInv, AloneOnThread, HandsOnce, NeverAborts, threadVars
  <2>4. FiberInv' /\ QueuedOnce'
    BY <2>1 DEF Inv, FiberInv, Queued, QueuedOnce
  <2>5. ContextInv' /\ ContextOnce' /\ Counted'
    BY <2>1 DEF Inv, ContextInv, ContextOnce, Counted, Waited
  <2>6. OnePlace'
    BY <2>1 DEF Inv, OnePlace, InContext, Queued, InHands, threadVars
  <2>7. NoMissedEvent'
    BY <2>1 DEF Inv, NoMissedEvent, threadVars, kernelVars
  <2> QED
    BY <2>2, <2>3, <2>4, <2>5, <2>6, <2>7 DEF Inv
<1> QED
  BY <1>1, <1>2, StepKeeps DEF Next

\* The inductive invariant is invariant.
THEOREM InvInvariant == Spec => []Inv
  BY InitInv, NextInv, PTL DEF Spec

\* All variables keep their types: m_pendingEventCount, a size_t, never goes
\* below 0.
THEOREM TypeInvariant == Spec => []TypeOK
<1>1. Inv => TypeOK
  BY DEF Inv
<1> QED
  BY <1>1, InvInvariant, PTL

\* A fiber in one of the places is in no other.
LEMMA OneWakeup ==
    ASSUME Inv, NEW f \in Fiber, NEW x \in Wakeups(f), NEW y \in Wakeups(f)
    PROVE  x = y
<1> DEFINE C == {<<"context", p>> : p \in {c \in Fd \X Event : context[c[1]][c[2]] = f}}
           Q == {<<"queue", k>> : k \in {j \in 1..Len(m_fibers) : m_fibers[j] = FiberTask(f)}}
           H == {<<"thread", t>> : t \in {u \in Thread : doing[u] = "resume" /\ who[u] = f}}
<1>1. f # None /\ FiberTask(f).kind = "fiber"
  BY TimedAssumption DEF FiberTask
<1>2. \A a, b \in C : a = b
  <2> SUFFICES ASSUME NEW c \in Fd \X Event, NEW d \in Fd \X Event,
                      context[c[1]][c[2]] = f, context[d[1]][d[2]] = f
               PROVE  c = d
    OBVIOUS
  <2>1. c[1] = d[1] /\ c[2] = d[2]
    BY <1>1 DEF Inv, ContextOnce
  <2> QED
    BY <2>1
<1>3. \A a, b \in Q : a = b
  BY <1>1 DEF Inv, QueuedOnce, FibersOnce
<1>4. \A a, b \in H : a = b
  BY DEF Inv, HandsOnce
<1>5. C # {} => InContext(f)
  BY DEF InContext
<1>6. Q # {} => Queued(FiberTask(f))
  BY DEF Queued, Has
<1>7. H # {} => InHands(f)
  BY DEF InHands
<1>8. x \in C \cup Q \cup H /\ y \in C \cup Q \cup H
  BY DEF Wakeups
<1> HIDE DEF C, Q, H
<1>9. ~(C # {} /\ Q # {}) /\ ~(C # {} /\ H # {}) /\ ~(Q # {} /\ H # {})
  BY <1>5, <1>6, <1>7 DEF Inv, OnePlace
<1> QED
  BY <1>2, <1>3, <1>4, <1>8, <1>9

\* A fiber is in some place exactly when it waits or is about to.
LEMMA SomeWakeup ==
    ASSUME Inv, NEW f \in Fiber
    PROVE  Wakeups(f) # {} <=> pc[f] \in {"new", "yield", "wait"}
<1>1. InContext(f) <=> {c \in Fd \X Event : context[c[1]][c[2]] = f} # {}
  <2>1. ASSUME NEW fd \in Fd, NEW e \in Event, context[fd][e] = f
        PROVE  <<fd, e>> \in {c \in Fd \X Event : context[c[1]][c[2]] = f}
    BY <2>1
  <2>2. ASSUME NEW c \in Fd \X Event, context[c[1]][c[2]] = f PROVE InContext(f)
    BY <2>2 DEF InContext
  <2> QED
    BY <2>1, <2>2 DEF InContext
<1>2. Queued(FiberTask(f)) <=> {j \in 1..Len(m_fibers) : m_fibers[j] = FiberTask(f)} # {}
  BY DEF Queued, Has
<1>3. InHands(f) <=> {u \in Thread : doing[u] = "resume" /\ who[u] = f} # {}
  BY DEF InHands
<1>4. Wakeups(f) # {} <=> InContext(f) \/ Queued(FiberTask(f)) \/ InHands(f)
  <2> DEFINE C == {c \in Fd \X Event : context[c[1]][c[2]] = f}
             Q == {j \in 1..Len(m_fibers) : m_fibers[j] = FiberTask(f)}
             H == {u \in Thread : doing[u] = "resume" /\ who[u] = f}
  <2>1. Wakeups(f) = {<<"context", p>> : p \in C} \cup {<<"queue", k>> : k \in Q}
                     \cup {<<"thread", t>> : t \in H}
    BY DEF Wakeups
  <2>2. /\ InContext(f) <=> C # {}
        /\ Queued(FiberTask(f)) <=> Q # {}
        /\ InHands(f) <=> H # {}
    BY <1>1, <1>2, <1>3
  <2> HIDE DEF C, Q, H
  <2> QED
    BY <2>1, <2>2
<1> QED
  BY <1>4 DEF Inv, OnePlace

\* A fiber that waits is in exactly one place, whatever its event, its timeout,
\* a cancellation and a close do in which order: triggerEvent hands it on once.
THEOREM WokenOnceInvariant == Spec => []WokenOnce
<1>1. ASSUME Inv, NEW f \in Fiber
      PROVE  Cardinality(Wakeups(f)) = IF pc[f] \in {"new", "yield", "wait"} THEN 1 ELSE 0
  <2>1. CASE Wakeups(f) = {}
    <3>1. Cardinality(Wakeups(f)) = 0
      BY <2>1, FS_EmptySet
    <3> QED
      BY <1>1, <2>1, <3>1, SomeWakeup
  <2>2. CASE Wakeups(f) # {}
    <3>1. PICK x : x \in Wakeups(f)
      BY <2>2
    <3>2. Wakeups(f) = {x}
      BY <1>1, <3>1, OneWakeup
    <3>3. Cardinality({x}) = 1
      BY FS_Singleton
    <3> QED
      BY <1>1, <2>2, <3>2, <3>3, SomeWakeup
  <2> QED
    BY <2>1, <2>2
<1>2. Inv => WokenOnce
  BY <1>1 DEF WokenOnce
<1> QED
  BY <1>2, InvInvariant, PTL

\* No fiber runs on two threads, and Fiber::resume and addEvent never fail their
\* assertions, although an event may wake a fiber before it was left.
THEOREM RunsOnceInvariant == Spec => []RunsOnce
<1>1. Inv => RunsOnce
  BY DEF Inv, RunsOnce, NeverAborts, AloneOnThread
<1> QED
  BY <1>1, InvInvariant, PTL

\* m_pendingEventCount counts the events waited for.
THEOREM PendingCountedInvariant == Spec => []PendingCounted
<1>1. Inv => PendingCounted
  BY DEF Inv, PendingCounted, Counted, Waited
<1> QED
  BY <1>1, InvInvariant, PTL

\* An event that is waited for and has happened is reported, or about to be.
THEOREM NoMissedEventInvariant == Spec => []NoMissedEvent
<1>1. Inv => NoMissedEvent
  BY DEF Inv
<1> QED
  BY <1>1, InvInvariant, PTL
=============================================================================

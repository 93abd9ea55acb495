--------------------------- MODULE JobQueueProofs ---------------------------
(***************************************************************************)
(* For any number of threads and jobs: the inductive invariant QueueInv of *)
(* JobQueue, and from it that poll() always returns a job, that no wakeup  *)
(* is lost, and that the queue implements JobFifo.                         *)
(***************************************************************************)
EXTENDS JobQueue, FiniteSetTheorems, SequenceTheorems, TLAPS

\* A thread is in the critical section exactly when it holds the mutex.
Holding == \A t \in Threads : pc[t] \in Critical <=> mMutex = t

\* What a thread inside the critical section knows of the list and of its local.
Locals ==
  \A t \in Threads :
    /\ pc[t] = "front" => mQueue # <<>>
    /\ pc[t] = "pop" => mQueue # <<>> /\ func[t] = Head(mQueue)
    /\ pc[t] = "push" => func[t] \in Jobs

QueueInv == TypeOK /\ Holding /\ Locals /\ PollReturnsJob /\ NoLostWakeup

USE DEF Critical, Places, InsidePoll, InsideOther

-----------------------------------------------------------------------------
\* Type correctness and the facts of the critical section are preserved by
\* every step of the queue.
LEMMA CriticalStep ==
  ASSUME TypeOK, Holding, Locals, PollReturnsJob, QueueNext
  PROVE  TypeOK' /\ Holding' /\ Locals' /\ PollReturnsJob'
<1> USE QueueAssumption DEF TypeOK, Holding, Locals, PollReturnsJob
<1> PICK t \in Threads :
      \/ PollEnter(t)
      \/ \E j \in Jobs : EnqueueEnter(t, j)
      \/ InterruptEnter(t)
      \/ Continue(t)
      \/ SpuriousWakeup(t)
  BY DEF QueueNext
<1>1. CASE PollEnter(t)
  BY <1>1 DEF PollEnter, Lock
<1>2. CASE \E j \in Jobs : EnqueueEnter(t, j)
  BY <1>2 DEF EnqueueEnter, Lock
<1>3. CASE InterruptEnter(t)
  BY <1>3 DEF InterruptEnter, Lock
<1>4. CASE TestPredicate(t)
  BY <1>4 DEF TestPredicate, At
<1>5. CASE Reacquire(t)
  BY <1>5 DEF Reacquire, Lock
<1>6. CASE Front(t)
  <2>1. mQueue # <<>> /\ Head(mQueue) \in Jobs
    BY <1>6 DEF Front, At
  <2> QED
    BY <1>6, <2>1 DEF Front, At
<1>7. CASE PopFront(t)
  <2>1. mQueue # <<>> /\ func[t] = Head(mQueue)
    BY <1>7 DEF PopFront, At
  <2>2. Tail(mQueue) \in Seq(Jobs) /\ func[t] \in Jobs
    BY <2>1
  <2>3. Append(taken, func[t]) \in Seq(Jobs)
    BY <2>2
  <2>4. \A u \in Threads : pc[u] \in Critical => u = t
    BY <1>7 DEF PopFront, At
  <2> QED
    BY <1>7, <2>1, <2>2, <2>3, <2>4 DEF PopFront, At
<1>8. CASE PollReturn(t)
  BY <1>8 DEF PollReturn, At
<1>9. CASE PushBack(t)
  <2>1. /\ func[t] \in Jobs
        /\ Append(mQueue, func[t]) \in Seq(Jobs)
        /\ Append(submitted, func[t]) \in Seq(Jobs)
    BY <1>9 DEF PushBack, At
  <2>2. \A u \in Threads : pc[u] \in Critical => u = t
    BY <1>9 DEF PushBack, At
  <2> QED
    BY <1>9, <2>1, <2>2 DEF PushBack, At
<1>10. CASE NotifyOne(t)
  BY <1>10 DEF NotifyOne, Waiters
<1>11. CASE Unlock(t)
  BY <1>11 DEF Unlock, At
<1>12. CASE SpuriousWakeup(t)
  BY <1>12 DEF SpuriousWakeup, At
<1> QED
  BY <1>1, <1>2, <1>3, <1>4, <1>5, <1>6, <1>7, <1>8, <1>9, <1>10, <1>11, <1>12 DEF Continue

-----------------------------------------------------------------------------
\* Where the two sets of NoLostWakeup go when one thread moves from a place to
\* another: the only steps that touch Waiters are the two wakeups and going to sleep.
LEMMA FiniteComing == IsFiniteSet(Coming) /\ IsFiniteSet(Coming')
<1>1. Coming \in SUBSET Threads /\ Coming' \in SUBSET Threads
  BY DEF Coming
<1> QED
  BY <1>1, FS_Subset, QueueAssumption

\* Adding a thread to those on their way never breaks the bound.
LEMMA ComingGrows ==
  ASSUME TypeOK, NoLostWakeup,
         NEW t \in Threads, Coming' = Coming \cup {t},
         Waiters' # {} => Waiters # {}, mQueue' = mQueue
  PROVE  NoLostWakeup'
<1>1. Cardinality(Coming') >= Cardinality(Coming) /\ Cardinality(Coming) \in Nat /\ Cardinality(Coming') \in Nat
  BY FiniteComing, FS_AddElement, FS_CardinalityType
<1>2. Len(mQueue) \in Nat
  BY DEF TypeOK
<1> QED
  BY <1>1, <1>2 DEF NoLostWakeup

\* Nothing the bound speaks of changes.
LEMMA ComingSame ==
  ASSUME NoLostWakeup, Coming' = Coming, Waiters' = Waiters, mQueue' = mQueue
  PROVE  NoLostWakeup'
BY DEF NoLostWakeup

\* Every step of the queue preserves NoLostWakeup.
LEMMA WakeupStep ==
  ASSUME QueueInv, QueueNext
  PROVE  NoLostWakeup'
<1> USE DEF QueueInv, TypeOK
<1> PICK t \in Threads :
      \/ PollEnter(t)
      \/ \E j \in Jobs : EnqueueEnter(t, j)
      \/ InterruptEnter(t)
      \/ Continue(t)
      \/ SpuriousWakeup(t)
  BY DEF QueueNext
<1>1. CASE PollEnter(t)
  <2>1. Coming' = Coming \cup {t} /\ Waiters' = Waiters /\ mQueue' = mQueue
    BY <1>1 DEF PollEnter, Lock, Coming, Waiters
  <2> QED
    BY <2>1, ComingGrows
<1>2. CASE \E j \in Jobs : EnqueueEnter(t, j)
  <2>1. Coming' = Coming /\ Waiters' = Waiters /\ mQueue' = mQueue
    BY <1>2 DEF EnqueueEnter, Lock, Coming, Waiters
  <2> QED
    BY <2>1, ComingSame
<1>3. CASE InterruptEnter(t)
  <2>1. Coming' = Coming \cup {t} /\ Waiters' = Waiters /\ mQueue' = mQueue
    BY <1>3 DEF InterruptEnter, Lock, Coming, Waiters
  <2> QED
    BY <2>1, ComingGrows
<1>4. CASE TestPredicate(t)
  <2>1. CASE mQueue # <<>>
    <3>1. Coming' = Coming /\ Waiters' = Waiters /\ mQueue' = mQueue
      BY <1>4, <2>1 DEF TestPredicate, At, Coming, Waiters
    <3> QED
      BY <3>1, ComingSame
  <2>2. CASE mQueue = <<>>
    <3>1. Len(mQueue') = 0
      BY <1>4, <2>2 DEF TestPredicate
    <3>2. Cardinality(Coming') \in Nat
      BY FiniteComing, FS_CardinalityType
    <3> QED
      BY <3>1, <3>2 DEF NoLostWakeup
  <2> QED
    BY <2>1, <2>2
<1>5. CASE Reacquire(t)
  <2>1. Coming' = Coming /\ Waiters' = Waiters /\ mQueue' = mQueue
    BY <1>5 DEF Reacquire, Lock, Coming, Waiters
  <2> QED
    BY <2>1, ComingSame
<1>6. CASE Front(t)
  <2>1. mQueue # <<>>
    BY <1>6 DEF Front, At, Locals
  <2>2. Coming' = Coming /\ Waiters' = Waiters /\ mQueue' = mQueue
    BY <1>6, <2>1 DEF Front, At, Coming, Waiters
  <2> QED
    BY <2>2, ComingSame
<1>7. CASE PopFront(t)
  <2>1. t \in Coming /\ Coming' = Coming \ {t} /\ Waiters' = Waiters
    BY <1>7 DEF PopFront, At, Coming, Waiters
  <2>2. Len(mQueue') = Len(mQueue) - 1 /\ Len(mQueue) \in Nat
    BY <1>7 DEF PopFront, At, Locals
  <2>3. Cardinality(Coming') = Cardinality(Coming) - 1 /\ Cardinality(Coming) \in Nat
    BY <2>1, FiniteComing, FS_RemoveElement, FS_CardinalityType
  <2> QED
    BY <2>1, <2>2, <2>3 DEF NoLostWakeup
<1>8. CASE PollReturn(t)
  <2>1. Coming' = Coming /\ Waiters' = Waiters /\ mQueue' = mQueue
    BY <1>8 DEF PollReturn, At, Coming, Waiters
  <2> QED
    BY <2>1, ComingSame
<1>9. CASE PushBack(t)
  <2>1. t \notin Coming /\ Coming' = Coming \cup {t} /\ Waiters' = Waiters
    BY <1>9 DEF PushBack, At, Coming, Waiters
  <2>2. Len(mQueue') = Len(mQueue) + 1 /\ Len(mQueue) \in Nat
    BY <1>9 DEF PushBack
  <2>3. Cardinality(Coming') = Cardinality(Coming) + 1 /\ Cardinality(Coming) \in Nat
    BY <2>1, FiniteComing, FS_AddElement, FS_CardinalityType
  <2> QED
    BY <2>1, <2>2, <2>3 DEF NoLostWakeup
<1>10. CASE NotifyOne(t)
  <2>1. CASE Waiters = {}
    <3>1. Waiters' = {}
      BY <1>10, <2>1 DEF NotifyOne, Waiters
    <3> QED
      BY <3>1 DEF NoLostWakeup
  <2>2. CASE Waiters # {}
    <3>1. PICK w \in Waiters : pc' = [pc EXCEPT ![t] = "unlock", ![w] = "woken"]
      BY <1>10, <2>2 DEF NotifyOne
    <3>2. /\ t \in Coming /\ w \notin Coming
          /\ Coming' = (Coming \ {t}) \cup {w}
      BY <1>10, <3>1 DEF NotifyOne, Coming, Waiters
    <3>3. IsFiniteSet(Coming \ {t}) /\ Cardinality(Coming \ {t}) = Cardinality(Coming) - 1
      BY <3>2, FiniteComing, FS_RemoveElement
    <3>4. Cardinality(Coming') = Cardinality(Coming \ {t}) + 1 /\ Cardinality(Coming) \in Nat
      BY <3>2, <3>3, FiniteComing, FS_AddElement, FS_CardinalityType
    <3>5. mQueue' = mQueue
      BY <1>10 DEF NotifyOne
    <3> QED
      BY <2>2, <3>3, <3>4, <3>5 DEF NoLostWakeup
  <2> QED
    BY <2>1, <2>2
<1>11. CASE Unlock(t)
  <2>1. Coming' = Coming /\ Waiters' = Waiters /\ mQueue' = mQueue
    BY <1>11 DEF Unlock, At, Coming, Waiters
  <2> QED
    BY <2>1, ComingSame
<1>12. CASE SpuriousWakeup(t)
  <2>1. Coming' = Coming \cup {t} /\ t \in Waiters /\ mQueue' = mQueue
    BY <1>12 DEF SpuriousWakeup, At, Coming, Waiters
  <2> QED
    BY <2>1, ComingGrows
<1> QED
  BY <1>1, <1>2, <1>3, <1>4, <1>5, <1>6, <1>7, <1>8, <1>9, <1>10, <1>11, <1>12 DEF Continue
-----------------------------------------------------------------------------
\* The empty queue satisfies QueueInv.
LEMMA QueueInitInv == QueueInit => QueueInv
<1> SUFFICES ASSUME QueueInit PROVE QueueInv
  OBVIOUS
<1>1. TypeOK /\ Holding /\ Locals /\ PollReturnsJob
  BY QueueAssumption DEF QueueInit, TypeOK, Holding, Locals, PollReturnsJob
<1>2. Waiters = {}
  BY DEF QueueInit, Waiters
<1> QED
  BY <1>1, <1>2 DEF QueueInv, NoLostWakeup

\* Every step, and every stuttering step, preserves QueueInv.
LEMMA QueueInvStep == QueueInv /\ [QueueNext]_queueVars => QueueInv'
<1> SUFFICES ASSUME QueueInv, [QueueNext]_queueVars PROVE QueueInv'
  OBVIOUS
<1>1. CASE QueueNext
  BY <1>1, CriticalStep, WakeupStep DEF QueueInv
<1>2. CASE UNCHANGED queueVars
  BY <1>2 DEF queueVars, QueueInv, TypeOK, Holding, Locals, PollReturnsJob, NoLostWakeup, Waiters, Coming
<1> QED
  BY <1>1, <1>2

\* QueueInv holds in every reachable state.
THEOREM QueueInvariance == QueueSpec => []QueueInv
BY QueueInitInv, QueueInvStep, PTL DEF QueueSpec

\* Only jobs that were enqueued are in the list or handed out.
THEOREM QueueTypes == QueueSpec => []TypeOK
<1>1. QueueInv => TypeOK
  BY DEF QueueInv
<1> QED
  BY <1>1, QueueInvariance, PTL

\* poll() never returns null, in spite of interruptPoll() and of spurious wakeups.
THEOREM PollAlwaysReturnsJob == QueueSpec => []PollReturnsJob
<1>1. QueueInv => PollReturnsJob
  BY DEF QueueInv
<1> QED
  BY <1>1, QueueInvariance, PTL

\* While a thread sleeps, every job in the list has a thread on its way to it.
THEOREM WakeupsSuffice == QueueSpec => []NoLostWakeup
<1>1. QueueInv => NoLostWakeup
  BY DEF QueueInv
<1> QED
  BY <1>1, QueueInvariance, PTL
-----------------------------------------------------------------------------
\* A step of the queue is a step of the FIFO queue or leaves it alone.
LEMMA FifoStep ==
  ASSUME QueueInv, QueueNext
  PROVE  [Fifo!FifoNext]_Fifo!fifoVars
<1> USE DEF QueueInv, TypeOK, Fifo!fifoVars
<1> PICK t \in Threads :
      \/ PollEnter(t)
      \/ \E j \in Jobs : EnqueueEnter(t, j)
      \/ InterruptEnter(t)
      \/ Continue(t)
      \/ SpuriousWakeup(t)
  BY DEF QueueNext
<1>1. CASE PopFront(t)
  <2>1. mQueue # <<>> /\ func[t] = Head(mQueue)
    BY <1>1 DEF PopFront, At, Locals
  <2> QED
    BY <1>1, <2>1 DEF PopFront, Fifo!FifoNext, Fifo!Deliver
<1>2. CASE PushBack(t)
  <2>1. func[t] \in Jobs
    BY <1>2 DEF PushBack, At, Locals
  <2> QED
    BY <1>2, <2>1 DEF PushBack, Fifo!FifoNext, Fifo!Accept
<1>3. CASE ~PopFront(t) /\ ~PushBack(t)
  BY <1>3 DEF PollEnter, EnqueueEnter, InterruptEnter, Continue, TestPredicate, Reacquire,
              Front, PollReturn, NotifyOne, Unlock, SpuriousWakeup
<1> QED
  BY <1>1, <1>2, <1>3

\* The mutex and the condition variable implement the FIFO queue of JobFifo.
THEOREM QueueImplementsFifo == QueueSpec => ImplementsFifo
<1>1. QueueInit => Fifo!FifoInit
  BY DEF QueueInit, Fifo!FifoInit
<1>2. QueueInv /\ [QueueNext]_queueVars => [Fifo!FifoNext]_Fifo!fifoVars
  BY FifoStep DEF queueVars, Fifo!fifoVars
<1> QED
  BY <1>1, <1>2, QueueInvariance, PTL DEF QueueSpec, ImplementsFifo, Fifo!FifoSpec
-----------------------------------------------------------------------------
\* What has been pushed is what has been popped followed by what is in the list.
Conserved == submitted = taken \o mQueue

\* Moving the head of one sequence to the end of another keeps their concatenation.
LEMMA MoveHead ==
  ASSUME NEW S, NEW s \in Seq(S), NEW q \in Seq(S), q # <<>>
  PROVE  Append(s, Head(q)) \o Tail(q) = s \o q
<1> DEFINE l == Append(s, Head(q)) \o Tail(q)
           r == s \o q
<1>1. Head(q) \in S /\ Head(q) = q[1] /\ Tail(q) \in Seq(S) /\ Len(Tail(q)) = Len(q) - 1 /\ Len(q) \in Nat \ {0}
  BY EmptySeq, HeadTailProperties
<1>2. \A i \in 1..Len(q) - 1 : Tail(q)[i] = q[i + 1]
  BY <1>1, HeadTailProperties
<1>3. /\ Append(s, Head(q)) \in Seq(S)
      /\ Len(Append(s, Head(q))) = Len(s) + 1
      /\ \A i \in 1..Len(s) : Append(s, Head(q))[i] = s[i]
      /\ Append(s, Head(q))[Len(s) + 1] = Head(q)
  BY <1>1, AppendProperties
<1>4. /\ l \in Seq(S) /\ Len(l) = Len(s) + Len(q)
      /\ \A i \in 1..Len(l) : l[i] = IF i <= Len(s) + 1 THEN Append(s, Head(q))[i] ELSE Tail(q)[i - (Len(s) + 1)]
  BY <1>1, <1>3, ConcatProperties
<1>5. /\ r \in Seq(S) /\ Len(r) = Len(s) + Len(q)
      /\ \A i \in 1..Len(r) : r[i] = IF i <= Len(s) THEN s[i] ELSE q[i - Len(s)]
  BY ConcatProperties
<1>6. ASSUME NEW i \in 1..Len(l) PROVE l[i] = r[i]
  <2> Len(s) \in Nat /\ i \in Nat
    BY <1>4
  <2>1. CASE i <= Len(s)
    BY <2>1, <1>3, <1>4, <1>5
  <2>2. CASE i = Len(s) + 1
    BY <2>2, <1>1, <1>3, <1>4, <1>5
  <2>3. CASE i > Len(s) + 1
    <3>1. i - (Len(s) + 1) \in 1..Len(q) - 1 /\ (i - (Len(s) + 1)) + 1 = i - Len(s)
      BY <2>3, <1>1, <1>4
    <3>2. Tail(q)[i - (Len(s) + 1)] = q[i - Len(s)]
      BY <3>1, <1>2
    <3> QED
      BY <2>3, <3>2, <1>4, <1>5
  <2> QED
    BY <2>1, <2>2, <2>3
<1> HIDE DEF l, r
<1>7. l = r
  BY <1>4, <1>5, <1>6, SeqEqual
<1> QED
  BY <1>7 DEF l, r

\* Appending to the second of two sequences appends to their concatenation.
LEMMA AppendRight ==
  \A s, q \in Seq(Jobs), x \in Jobs : Append(s \o q, x) = s \o Append(q, x)
<1> SUFFICES ASSUME NEW s \in Seq(Jobs), NEW q \in Seq(Jobs), NEW x \in Jobs
             PROVE  Append(s \o q, x) = s \o Append(q, x)
  OBVIOUS
<1>1. s \o q \in Seq(Jobs) /\ <<x>> \in Seq(Jobs)
  BY ConcatProperties
<1>2. Append(s \o q, x) = (s \o q) \o <<x>> /\ Append(q, x) = q \o <<x>>
  BY <1>1, AppendIsConcat
<1> QED
  BY <1>1, <1>2, ConcatAssociative

\* Every step of the queue preserves Conserved.
LEMMA ConservedStep ==
  ASSUME QueueInv, Conserved, [QueueNext]_queueVars
  PROVE  Conserved'
<1> USE DEF Conserved, QueueInv, TypeOK
<1>1. CASE UNCHANGED <<mQueue, submitted, taken>>
  BY <1>1
<1>2. ASSUME NEW t \in Threads, PopFront(t)
      PROVE  Conserved'
  <2>1. mQueue # <<>> /\ func[t] = Head(mQueue)
    BY <1>2 DEF PopFront, At, Locals
  <2>2. mQueue' = Tail(mQueue) /\ taken' = Append(taken, Head(mQueue)) /\ submitted' = submitted
    BY <1>2, <2>1 DEF PopFront
  <2> QED
    BY <2>1, <2>2, MoveHead
<1>3. ASSUME NEW t \in Threads, PushBack(t)
      PROVE  Conserved'
  <2>1. func[t] \in Jobs
    BY <1>3 DEF PushBack, At, Locals
  <2>2. mQueue' = Append(mQueue, func[t]) /\ submitted' = Append(submitted, func[t]) /\ taken' = taken
    BY <1>3 DEF PushBack
  <2>3. Append(taken \o mQueue, func[t]) = taken \o Append(mQueue, func[t])
    BY <2>1, AppendRight, Zenon
  <2> QED
    BY <2>2, <2>3
<1>4. \/ UNCHANGED <<mQueue, submitted, taken>>
      \/ \E t \in Threads : PopFront(t) \/ PushBack(t)
  BY DEF QueueNext, queueVars, PollEnter, EnqueueEnter, InterruptEnter, Continue, TestPredicate, Reacquire,
         Front, PollReturn, NotifyOne, Unlock, SpuriousWakeup
<1> QED
  BY <1>1, <1>2, <1>3, <1>4

\* Every job that was enqueued has been polled once or is in the list, in order.
THEOREM NothingLostOrInvented == QueueSpec => []Conserved
<1>1. QueueInit => Conserved
  BY DEF QueueInit, Conserved
<1>2. QueueInv /\ Conserved /\ [QueueNext]_queueVars => Conserved'
  BY ConservedStep
<1> QED
  BY <1>1, <1>2, QueueInvariance, PTL DEF QueueSpec
=============================================================================

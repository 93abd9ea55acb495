------------------------ MODULE JobDispatcherProofs ------------------------
(***************************************************************************)
(* For any number of workers, clients and jobs: the dispatcher drives the  *)
(* queue only through its methods, so all that is proved of the queue      *)
(* holds under it; quit() cannot stop a worker that serves the queue; a    *)
(* single worker begins the jobs in the order they were enqueued; and      *)
(* however many workers there are, no job is lost and none begins twice.   *)
(***************************************************************************)
EXTENDS JobDispatcher, JobQueueProofs

USE DEF Critical, Places, InsidePoll, InsideOther

DispatcherTypes ==
  /\ mDestroyed \in BOOLEAN
  /\ seen \in [Workers -> BOOLEAN]
  /\ quitting \subseteq Threads
  /\ loop \in [Workers -> {"new", "check", "poll", "polling", "run", "exited", "crashed"}]
  /\ job \in [Workers -> Jobs \cup {NoJob}]
  /\ begun \in Seq(Jobs)

\* Where a worker may be in the queue's methods, by its place in mRunnable.
WorkerPlaces ==
  \A w \in Workers :
    /\ w \in quitting => loop[w] = "run" /\ pc[w] = "outside"
    /\ loop[w] \notin {"polling", "run"} => pc[w] = "outside"
    /\ loop[w] = "polling" => pc[w] \in InsidePoll \cup {"waiting", "woken", "outside"}
    /\ loop[w] = "run" => pc[w] \in InsideOther \cup {"outside"}
    /\ loop[w] = "polling" /\ pc[w] = "outside" => func[w] # NoJob

DispatcherInv == QueueInv /\ DispatcherTypes /\ WorkerPlaces

\* A step of the dispatcher is a step of the queue, or does not touch it.
LEMMA DispatcherStepsQueue == DispatcherNext => QueueNext \/ UNCHANGED queueVars
<1> SUFFICES ASSUME DispatcherNext PROVE QueueNext \/ UNCHANGED queueVars
  OBVIOUS
<1>1. ASSUME NEW w \in Workers,
             Start(w) \/ TestDestroyed(w) \/ CallPoll(w) \/ BeginJob(w) \/ EndJob(w)
      PROVE  QueueNext \/ UNCHANGED queueVars
  BY <1>1, DispatcherAssumption DEF Start, TestDestroyed, CallPoll, BeginJob, EndJob, QueueNext
<1>2. ASSUME NEW t \in Threads,
             Quit(t) \/ QuitInterrupts(t) \/ (\E j \in Jobs : Enqueue(t, j)) \/ QueueStep(t) \/ Spurious(t)
      PROVE  QueueNext \/ UNCHANGED queueVars
  BY <1>2 DEF Quit, QuitInterrupts, Enqueue, QueueStep, Spurious, QueueNext
<1> QED
  BY <1>1, <1>2 DEF DispatcherNext

\* So the dispatcher only ever uses the queue as the queue allows.
LEMMA DispatcherInvStep == QueueInv /\ [DispatcherNext]_vars => QueueInv'
BY DispatcherStepsQueue, QueueInvStep DEF vars

\* Every behaviour of the dispatcher is one of the queue: what is proved of the
\* queue alone holds while start(), quit(), the workers and the jobs use it.
THEOREM DispatcherImplementsQueue == DispatcherSpec => QueueSpec
<1>1. DispatcherInit => QueueInit
  BY DEF DispatcherInit
<1>2. [DispatcherNext]_vars => [QueueNext]_queueVars
  BY DispatcherStepsQueue DEF vars
<1> QED
  BY <1>1, <1>2, PTL DEF DispatcherSpec, QueueSpec

\* So with any number of workers the queue is still the FIFO queue of JobFifo, and
\* no worker sleeps while there is a job that nobody is on the way to.
THEOREM QueueHoldsUnderDispatcher == DispatcherSpec => ImplementsFifo /\ []NoLostWakeup
BY DispatcherImplementsQueue, QueueImplementsFifo, WakeupsSuffice

\* A step of one thread inside the queue keeps the dispatcher's own invariant.
LEMMA QueueStepPlaces ==
  ASSUME DispatcherInv, NEW t \in Threads, QueueStep(t)
  PROVE  DispatcherTypes' /\ WorkerPlaces'
<1> USE DispatcherAssumption, QueueAssumption
        DEF DispatcherInv, DispatcherTypes, WorkerPlaces, QueueInv, TypeOK, QueueStep, dispatcherVars
<1>1. CASE TestPredicate(t)
  BY <1>1 DEF TestPredicate, At
<1>2. CASE Reacquire(t)
  BY <1>2 DEF Reacquire, Lock
<1>3. CASE Front(t)
  BY <1>3 DEF Front, At
<1>4. CASE PopFront(t)
  BY <1>4 DEF PopFront, At
<1>5. CASE PollReturn(t)
  BY <1>5 DEF PollReturn, At, PollReturnsJob
<1>6. CASE PushBack(t)
  BY <1>6 DEF PushBack, At
<1>7. CASE NotifyOne(t)
  BY <1>7 DEF NotifyOne, Waiters
<1>8. CASE Unlock(t)
  BY <1>8 DEF Unlock, At
<1> QED
  BY <1>1, <1>2, <1>3, <1>4, <1>5, <1>6, <1>7, <1>8 DEF Continue

\* Every step of the dispatcher keeps the dispatcher's own invariant.
LEMMA DispatcherStep ==
  ASSUME DispatcherInv, DispatcherNext
  PROVE  DispatcherTypes' /\ WorkerPlaces'
<1> USE DispatcherAssumption, QueueAssumption
        DEF DispatcherInv, DispatcherTypes, WorkerPlaces, QueueInv, TypeOK, queueVars, Goto
<1>1. ASSUME NEW w \in Workers, Start(w)
      PROVE  DispatcherTypes' /\ WorkerPlaces'
  BY <1>1 DEF Start
<1>2. ASSUME NEW w \in Workers, TestDestroyed(w)
      PROVE  DispatcherTypes' /\ WorkerPlaces'
  BY <1>2 DEF TestDestroyed
<1>3. ASSUME NEW w \in Workers, CallPoll(w)
      PROVE  DispatcherTypes' /\ WorkerPlaces'
  BY <1>3 DEF CallPoll, PollEnter, Lock
<1>4. ASSUME NEW w \in Workers, BeginJob(w)
      PROVE  DispatcherTypes' /\ WorkerPlaces'
  <2>1. func[w] \in Jobs /\ Append(begun, func[w]) \in Seq(Jobs)
    BY <1>4 DEF BeginJob
  <2> QED
    BY <1>4, <2>1 DEF BeginJob
<1>5. ASSUME NEW w \in Workers, EndJob(w)
      PROVE  DispatcherTypes' /\ WorkerPlaces'
  BY <1>5 DEF EndJob, InClientCode
<1>6. ASSUME NEW t \in Threads, Quit(t)
      PROVE  DispatcherTypes' /\ WorkerPlaces'
  BY <1>6 DEF Quit, InClientCode
<1>7. ASSUME NEW t \in Threads, QuitInterrupts(t)
      PROVE  DispatcherTypes' /\ WorkerPlaces'
  BY <1>7 DEF QuitInterrupts, InterruptEnter, Lock
<1>8. ASSUME NEW t \in Threads, NEW j \in Jobs, Enqueue(t, j)
      PROVE  DispatcherTypes' /\ WorkerPlaces'
  BY <1>8 DEF Enqueue, InClientCode, EnqueueEnter, Lock, dispatcherVars
<1>9. ASSUME NEW t \in Threads, Spurious(t)
      PROVE  DispatcherTypes' /\ WorkerPlaces'
  BY <1>9 DEF Spurious, SpuriousWakeup, At, dispatcherVars
<1> QED
  BY <1>1, <1>2, <1>3, <1>4, <1>5, <1>6, <1>7, <1>8, <1>9, QueueStepPlaces DEF DispatcherNext

\* DispatcherInv holds in every reachable state.
THEOREM DispatcherInvariance == DispatcherSpec => []DispatcherInv
<1>1. DispatcherInit => DispatcherInv
  <2> SUFFICES ASSUME DispatcherInit PROVE DispatcherInv
    OBVIOUS
  <2>1. QueueInv
    BY QueueInitInv DEF DispatcherInit
  <2>2. DispatcherTypes
    <3>1. begun \in Seq(Jobs) /\ mDestroyed \in BOOLEAN /\ quitting \subseteq Threads
      BY EmptySeq DEF DispatcherInit
    <3>2. seen \in [Workers -> BOOLEAN] /\ job \in [Workers -> Jobs \cup {NoJob}]
      BY DEF DispatcherInit
    <3>3. loop \in [Workers -> {"new", "check", "poll", "polling", "run", "exited", "crashed"}]
      BY DEF DispatcherInit
    <3> QED
      BY <3>1, <3>2, <3>3 DEF DispatcherTypes
  <2>3. WorkerPlaces
    BY DispatcherAssumption DEF DispatcherInit, QueueInit, WorkerPlaces
  <2> QED
    BY <2>1, <2>2, <2>3 DEF DispatcherInv
<1>2. DispatcherInv /\ [DispatcherNext]_vars => DispatcherInv'
  <2> SUFFICES ASSUME DispatcherInv, [DispatcherNext]_vars PROVE DispatcherInv'
    OBVIOUS
  <2>1. QueueInv'
    BY DispatcherInvStep DEF DispatcherInv
  <2>2. CASE DispatcherNext
    BY <2>1, <2>2, DispatcherStep DEF DispatcherInv
  <2>3. CASE UNCHANGED vars
    BY <2>1, <2>3 DEF DispatcherInv, vars, queueVars, dispatcherVars, DispatcherTypes, WorkerPlaces
  <2> QED
    BY <2>2, <2>3
<1> QED
  BY <1>1, <1>2, PTL DEF DispatcherSpec

\* quit() cannot stop a worker that has reached its first poll(): it never
\* reads mDestroyed again and never leaves mRunnable but by an exception.
THEOREM QuitStopsNoWorker == DispatcherSpec => QuitCannotStopWorker
<1>1. DispatcherInv /\ [DispatcherNext]_vars
        => [\A w \in Workers : w \in Serving => loop'[w] \notin {"check", "exited"}]_vars
  <2> SUFFICES ASSUME DispatcherInv, DispatcherNext,
                      NEW w \in Workers, w \in Serving
               PROVE  loop'[w] \notin {"check", "exited"}
    OBVIOUS
  <2> USE DEF DispatcherInv, DispatcherTypes, WorkerPlaces, Serving, Goto
  <2>1. ASSUME NEW v \in Workers,
               Start(v) \/ TestDestroyed(v) \/ CallPoll(v) \/ BeginJob(v) \/ EndJob(v)
        PROVE  loop'[w] \notin {"check", "exited"}
    BY <2>1 DEF Start, TestDestroyed, CallPoll, BeginJob, EndJob
  <2>2. ASSUME NEW t \in Threads,
               Quit(t) \/ QuitInterrupts(t) \/ (\E j \in Jobs : Enqueue(t, j)) \/ QueueStep(t) \/ Spurious(t)
        PROVE  loop'[w] \notin {"check", "exited"}
    BY <2>2 DEF Quit, QuitInterrupts, Enqueue, QueueStep, Spurious, dispatcherVars
  <2> QED
    BY <2>1, <2>2 DEF DispatcherNext
<1> QED
  BY <1>1, DispatcherInvariance, PTL DEF DispatcherSpec, QuitCannotStopWorker
-----------------------------------------------------------------------------
(* The order in which a single worker begins the jobs. *)

\* Only a worker that mRunnable has sent there is inside poll().
OnlyWorkersPoll ==
  \A t \in Threads :
    pc[t] \in InsidePoll \cup {"waiting", "woken"} => t \in Workers /\ loop[t] = "polling"

\* The worker has a polled job that it has not begun.
Holds(w) == loop[w] = "polling" /\ pc[w] \in {"return", "outside"}

\* With one worker, the jobs begun are the jobs polled, but for the one it holds.
BegunTaken ==
  (\A u, v \in Started : u = v) =>
    /\ \A w \in Started : Holds(w) => taken = Append(begun, func[w])
    /\ (\A w \in Started : ~Holds(w)) => taken = begun

OrderInv == OnlyWorkersPoll /\ BegunTaken /\ Conserved

\* Steps of one thread inside the queue preserve the order.
LEMMA QueueStepOrder ==
  ASSUME DispatcherInv, OnlyWorkersPoll, BegunTaken, NEW t \in Threads, QueueStep(t)
  PROVE  OnlyWorkersPoll' /\ BegunTaken'
<1> USE DispatcherAssumption, QueueAssumption
        DEF DispatcherInv, DispatcherTypes, WorkerPlaces, QueueInv, TypeOK, QueueStep, dispatcherVars,
            OnlyWorkersPoll, BegunTaken, Holds, Started
<1>1. CASE TestPredicate(t)
  BY <1>1 DEF TestPredicate, At
<1>2. CASE Reacquire(t)
  BY <1>2 DEF Reacquire, Lock
<1>3. CASE Front(t)
  BY <1>3 DEF Front, At, Locals
<1>4. CASE PopFront(t)
  <2>1. t \in Workers /\ loop[t] = "polling" /\ t \in Started /\ ~Holds(t)
    BY <1>4 DEF PopFront, At
  <2>2. /\ taken' = Append(taken, func[t]) /\ func' = func /\ begun' = begun /\ loop' = loop
        /\ pc' = [pc EXCEPT ![t] = "return"]
    BY <1>4 DEF PopFront, At
  <2>3. OnlyWorkersPoll'
    BY <2>1, <2>2
  <2>4. ASSUME \A u, v \in Started : u = v
        PROVE  taken = begun /\ \A w \in Started : w = t
    BY <2>1, <2>4
  <2>5. BegunTaken'
    BY <2>1, <2>2, <2>4
  <2> QED
    BY <2>3, <2>5
<1>5. CASE PollReturn(t)
  BY <1>5 DEF PollReturn, At
<1>6. CASE PushBack(t)
  BY <1>6 DEF PushBack, At
<1>7. CASE NotifyOne(t)
  <2>1. /\ pc[t] = "notify" /\ pc' \in [Threads -> Places]
        /\ \A u \in Threads : \/ pc'[u] = pc[u]
                              \/ u = t /\ pc'[u] = "unlock"
                              \/ pc[u] = "waiting" /\ pc'[u] = "woken"
        /\ UNCHANGED <<func, taken, begun, loop>>
    BY <1>7 DEF NotifyOne, Waiters
  <2>2. OnlyWorkersPoll'
    BY <2>1
  <2>3. \A w \in Workers : Holds(w)' <=> Holds(w)
    BY <2>1
  <2>4. BegunTaken'
    BY <2>1, <2>3
  <2> QED
    BY <2>2, <2>4
<1>8. CASE Unlock(t)
  BY <1>8 DEF Unlock, At
<1> QED
  BY <1>1, <1>2, <1>3, <1>4, <1>5, <1>6, <1>7, <1>8 DEF Continue

\* Every step of the dispatcher preserves the order.
LEMMA OrderStep ==
  ASSUME DispatcherInv, OnlyWorkersPoll, BegunTaken, DispatcherNext
  PROVE  OnlyWorkersPoll' /\ BegunTaken'
<1> USE DispatcherAssumption, QueueAssumption
        DEF DispatcherInv, DispatcherTypes, WorkerPlaces, QueueInv, TypeOK, queueVars, Goto,
            OnlyWorkersPoll, BegunTaken, Holds, Started
<1>1. ASSUME NEW w \in Workers, Start(w)
      PROVE  OnlyWorkersPoll' /\ BegunTaken'
  BY <1>1 DEF Start
<1>2. ASSUME NEW w \in Workers, TestDestroyed(w)
      PROVE  OnlyWorkersPoll' /\ BegunTaken'
  BY <1>2 DEF TestDestroyed
<1>3. ASSUME NEW w \in Workers, CallPoll(w)
      PROVE  OnlyWorkersPoll' /\ BegunTaken'
  BY <1>3 DEF CallPoll, PollEnter, Lock
<1>4. ASSUME NEW w \in Workers, BeginJob(w)
      PROVE  OnlyWorkersPoll' /\ BegunTaken'
  <2>1. /\ Holds(w) /\ w \in Started
        /\ begun' = Append(begun, func[w]) /\ taken' = taken
        /\ loop' = [loop EXCEPT ![w] = "run"] /\ pc' = pc /\ func' = func
    BY <1>4 DEF BeginJob
  <2>2. OnlyWorkersPoll'
    BY <1>4, <2>1 DEF BeginJob
  <2>3. BegunTaken'
    BY <2>1
  <2> QED
    BY <2>2, <2>3
<1>5. ASSUME NEW w \in Workers, EndJob(w)
      PROVE  OnlyWorkersPoll' /\ BegunTaken'
  BY <1>5 DEF EndJob, InClientCode
<1>6. ASSUME NEW t \in Threads, Quit(t)
      PROVE  OnlyWorkersPoll' /\ BegunTaken'
  BY <1>6 DEF Quit, InClientCode
<1>7. ASSUME NEW t \in Threads, QuitInterrupts(t)
      PROVE  OnlyWorkersPoll' /\ BegunTaken'
  BY <1>7 DEF QuitInterrupts, InterruptEnter, Lock
<1>8. ASSUME NEW t \in Threads, NEW j \in Jobs, Enqueue(t, j)
      PROVE  OnlyWorkersPoll' /\ BegunTaken'
  BY <1>8 DEF Enqueue, InClientCode, EnqueueEnter, Lock, dispatcherVars
<1>9. ASSUME NEW t \in Threads, Spurious(t)
      PROVE  OnlyWorkersPoll' /\ BegunTaken'
  BY <1>9 DEF Spurious, SpuriousWakeup, At, dispatcherVars
<1> QED
  BY <1>1, <1>2, <1>3, <1>4, <1>5, <1>6, <1>7, <1>8, <1>9, QueueStepOrder DEF DispatcherNext

\* A sequence, or one that is longer by an element, continued: its own length of
\* the continuation is the sequence.
LEMMA PrefixOfConcat ==
  ASSUME NEW S, NEW s \in Seq(S), NEW q \in Seq(S)
  PROVE  /\ SubSeq(s \o q, 1, Len(s)) = s
         /\ \A x \in S : SubSeq(Append(s, x) \o q, 1, Len(s)) = s
<1>1. ASSUME NEW z \in Seq(S), Len(z) >= Len(s), \A i \in 1..Len(s) : z[i] = s[i]
      PROVE  SubSeq(z, 1, Len(s)) = s
  <2>1. Len(s) \in Nat /\ Len(z) \in Nat /\ \A i \in 1..Len(s) : z[i] \in S
    BY <1>1, LenProperties, ElementOfSeq
  <2>2. /\ SubSeq(z, 1, Len(s)) \in Seq(S)
        /\ Len(SubSeq(z, 1, Len(s))) = Len(s)
        /\ \A i \in 1..Len(s) : SubSeq(z, 1, Len(s))[i] = z[i]
    BY <2>1, SubSeqProperties
  <2> QED
    BY <1>1, <2>2, SeqEqual
<1>2. s \o q \in Seq(S) /\ Len(s \o q) >= Len(s) /\ \A i \in 1..Len(s) : (s \o q)[i] = s[i]
  BY ConcatProperties, LenProperties
<1>3. ASSUME NEW x \in S
      PROVE  SubSeq(Append(s, x) \o q, 1, Len(s)) = s
  <2> DEFINE a == Append(s, x)
  <2>1. a \in Seq(S) /\ Len(a) = Len(s) + 1 /\ \A i \in 1..Len(s) : a[i] = s[i]
    BY AppendProperties
  <2> HIDE DEF a
  <2>2. a \o q \in Seq(S) /\ Len(a \o q) >= Len(s) /\ \A i \in 1..Len(s) : (a \o q)[i] = s[i]
    BY <2>1, ConcatProperties, LenProperties
  <2>3. SubSeq(a \o q, 1, Len(s)) = s
    BY <2>2, <1>1
  <2> QED
    BY <2>3 DEF a
<1> QED
  BY <1>1, <1>2, <1>3

\* OrderInv holds in every reachable state.
LEMMA OrderInvariance == DispatcherSpec => []OrderInv
<1>1. DispatcherInit => OrderInv
  <2> SUFFICES ASSUME DispatcherInit PROVE OrderInv
    OBVIOUS
  <2>1. OnlyWorkersPoll
    BY DEF DispatcherInit, QueueInit, OnlyWorkersPoll
  <2>2. BegunTaken /\ Conserved
    BY DEF DispatcherInit, QueueInit, BegunTaken, Conserved, Started
  <2> QED
    BY <2>1, <2>2 DEF OrderInv
<1>2. DispatcherInv /\ OrderInv /\ [DispatcherNext]_vars => OrderInv'
  <2> SUFFICES ASSUME DispatcherInv, OrderInv, [DispatcherNext]_vars PROVE OrderInv'
    OBVIOUS
  <2>1. Conserved'
    BY DispatcherStepsQueue, ConservedStep DEF vars, DispatcherInv, OrderInv
  <2>2. CASE DispatcherNext
    BY <2>1, <2>2, OrderStep DEF OrderInv
  <2>3. CASE UNCHANGED vars
    BY <2>1, <2>3 DEF vars, queueVars, dispatcherVars, OrderInv, OnlyWorkersPoll, BegunTaken, Holds, Started
  <2> QED
    BY <2>2, <2>3
<1> QED
  BY <1>1, <1>2, DispatcherInvariance, PTL DEF DispatcherSpec

\* With a single start(), the jobs begin in the order in which they were enqueued.
THEOREM SingleWorkerKeepsOrder == DispatcherSpec => []OneWorkerInOrder
<1>1. DispatcherInv /\ OrderInv => OneWorkerInOrder
  <2> SUFFICES ASSUME DispatcherInv, OrderInv, \A u, v \in Started : u = v
               PROVE  begun = SubSeq(submitted, 1, Len(begun))
    BY DEF OneWorkerInOrder
  <2>1. begun \in Seq(Jobs) /\ mQueue \in Seq(Jobs) /\ submitted = taken \o mQueue
    BY DEF DispatcherInv, DispatcherTypes, QueueInv, TypeOK, OrderInv, Conserved
  <2>2. CASE taken = begun
    BY <2>1, <2>2, PrefixOfConcat
  <2>3. ASSUME NEW w \in Started, Holds(w)
        PROVE  begun = SubSeq(submitted, 1, Len(begun))
    <3>1. taken = Append(begun, func[w])
      BY <2>3 DEF OrderInv, BegunTaken
    <3>2. func[w] \in Jobs
      BY <2>3, DispatcherAssumption DEF Holds, Started, DispatcherInv, WorkerPlaces, QueueInv, TypeOK, PollReturnsJob
    <3>3. \A x \in Jobs : SubSeq(Append(begun, x) \o mQueue, 1, Len(begun)) = begun
      BY <2>1, PrefixOfConcat
    <3> QED
      BY <2>1, <3>1, <3>2, <3>3
  <2> QED
    BY <2>2, <2>3 DEF OrderInv, BegunTaken
<1> QED
  BY <1>1, OrderInvariance, DispatcherInvariance, PTL
-----------------------------------------------------------------------------
(* Every job is in exactly one place: in the list, in the hand of the      *)
(* worker that polled it, or begun.                                        *)

\* The places of a job in a sequence are finitely many.
LEMMA OccurrencesType ==
  ASSUME NEW S, NEW s \in Seq(S), NEW x
  PROVE  /\ IsFiniteSet({i \in DOMAIN s : s[i] = x})
         /\ Occurrences(s, x) \in Nat
<1>1. DOMAIN s = 1..Len(s) /\ Len(s) \in Nat
  BY LenProperties
<1>2. IsFiniteSet(1..Len(s))
  BY <1>1, FS_Interval
<1>3. IsFiniteSet({i \in DOMAIN s : s[i] = x})
  BY <1>1, <1>2, FS_Subset
<1> QED
  BY <1>3, FS_CardinalityType DEF Occurrences

\* Appending an element adds one occurrence of it and none of any other.
LEMMA OccurrencesAppend ==
  ASSUME NEW S, NEW s \in Seq(S), NEW e \in S, NEW x
  PROVE  Occurrences(Append(s, e), x) = Occurrences(s, x) + (IF e = x THEN 1 ELSE 0)
<1> DEFINE a == Append(s, e)
           A == {i \in DOMAIN a : a[i] = x}
           B == {i \in DOMAIN s : s[i] = x}
<1>1. DOMAIN s = 1..Len(s) /\ Len(s) \in Nat
  BY LenProperties
<1>2. /\ DOMAIN a = 1..(Len(s) + 1) /\ a[Len(s) + 1] = e
      /\ \A i \in 1..Len(s) : a[i] = s[i]
  BY <1>1, AppendProperties, LenProperties
<1> HIDE DEF a
<1>3. A = IF e = x THEN B \cup {Len(s) + 1} ELSE B
  BY <1>1, <1>2
<1>4. Len(s) + 1 \notin B /\ IsFiniteSet(B) /\ Cardinality(B) \in Nat
  <2>1. Len(s) + 1 \notin B
    BY <1>1
  <2>2. IsFiniteSet(B) /\ Cardinality(B) \in Nat
    BY OccurrencesType DEF Occurrences
  <2> QED
    BY <2>1, <2>2
<1>5. Cardinality(B \cup {Len(s) + 1}) = Cardinality(B) + 1
  <2> HIDE DEF B
  <2> QED
    BY <1>4, FS_AddElement
<1>6. Cardinality(A) = Cardinality(B) + (IF e = x THEN 1 ELSE 0)
  <2> HIDE DEF A, B
  <2> QED
    BY <1>3, <1>4, <1>5
<1> QED
  BY <1>6 DEF Occurrences, a

\* Removing the first element takes one occurrence of it away and no other.
LEMMA OccurrencesTail ==
  ASSUME NEW S, NEW s \in Seq(S), s # <<>>, NEW x
  PROVE  Occurrences(s, x) = Occurrences(Tail(s), x) + (IF Head(s) = x THEN 1 ELSE 0)
<1> DEFINE r == Tail(s)
           A == {i \in DOMAIN s : s[i] = x}
           B == {i \in DOMAIN r : r[i] = x}
           C == A \ {1}
           f == [i \in B |-> i + 1]
<1>1. DOMAIN s = 1..Len(s) /\ Len(s) \in Nat \ {0} /\ Head(s) = s[1]
  BY LenProperties, EmptySeq
<1>2. r \in Seq(S) /\ Len(r) = Len(s) - 1 /\ \A i \in 1..Len(r) : r[i] = s[i + 1]
  BY HeadTailProperties
<1>3. DOMAIN r = 1..(Len(s) - 1)
  BY <1>2, LenProperties
<1> HIDE DEF r
<1>4. /\ f \in [B -> C]
      /\ \A i, k \in B : f[i] = f[k] => i = k
      /\ \A k \in C : \E i \in B : f[i] = k
  <2>1. \A i \in B : i \in Nat /\ i + 1 \in C /\ f[i] = i + 1
    BY <1>1, <1>2, <1>3
  <2>2. ASSUME NEW k \in C PROVE \E i \in B : f[i] = k
    <3>1. k - 1 \in 1..(Len(s) - 1) /\ k = (k - 1) + 1
      BY <1>1
    <3>2. k - 1 \in B
      BY <1>1, <1>2, <1>3, <3>1
    <3> QED
      BY <2>1, <3>1, <3>2
  <2>3. f \in [B -> C]
    BY <2>1
  <2>4. \A i, k \in B : f[i] = f[k] => i = k
    <3> HIDE DEF f, B, C
    <3> QED
      BY <2>1
  <2> QED
    BY <2>2, <2>3, <2>4
<1>5. IsFiniteSet(B) /\ IsFiniteSet(A) /\ Cardinality(A) \in Nat /\ Cardinality(B) \in Nat
  BY <1>2, OccurrencesType DEF Occurrences
<1>6. Cardinality(C) = Cardinality(B)
  <2> HIDE DEF f, A, B, C
  <2>1. f \in Bijection(B, C)
    BY <1>4 DEF Bijection, Injection, Surjection, IsInjective
  <2>2. ExistsBijection(B, C)
    BY <2>1 DEF ExistsBijection
  <2> QED
    BY <1>5, <2>2, FS_Bijection
<1>7. Cardinality(C) = IF 1 \in A THEN Cardinality(A) - 1 ELSE Cardinality(A)
  <2> HIDE DEF A
  <2> QED
    BY <1>5, FS_RemoveElement
<1>8. 1 \in A <=> Head(s) = x
  BY <1>1
<1>9. Cardinality(A) = Cardinality(B) + (IF Head(s) = x THEN 1 ELSE 0)
  <2> HIDE DEF A, B, C
  <2> QED
    BY <1>5, <1>6, <1>7, <1>8
<1> QED
  BY <1>9 DEF Occurrences, r

\* A finite set that gains, or loses, the one element w.
LEMMA HandChanges ==
  ASSUME NEW W, NEW w, W \subseteq Workers
  PROVE  /\ Cardinality(W) \in Nat
         /\ w \notin W => Cardinality(W \cup {w}) = Cardinality(W) + 1
         /\ w \in W => Cardinality(W) = Cardinality(W \ {w}) + 1
<1>1. IsFiniteSet(W)
  BY FS_Subset, QueueAssumption, DispatcherAssumption
<1> QED
  BY <1>1, FS_AddElement, FS_RemoveElement, FS_CardinalityType

\* The count for one job.
Balanced(j) ==
  Occurrences(submitted, j) = Occurrences(mQueue, j) + Cardinality(InHand(j)) + Occurrences(begun, j)

\* Steps that leave the list, the histories and every hand as they are.
LEMMA BalanceKept ==
  ASSUME NEW j, Balanced(j), UNCHANGED <<submitted, mQueue, begun>>, InHand(j)' = InHand(j)
  PROVE  Balanced(j)'
BY DEF Balanced, Occurrences

\* What is in a worker's hand depends on its place only as far as it is, or is
\* not, past the pop.
LEMMA HandsKept ==
  ASSUME NEW j, UNCHANGED <<loop, func>>,
         \A w \in Workers : loop[w] = "polling" =>
            (pc'[w] \in {"return", "outside"} <=> pc[w] \in {"return", "outside"})
  PROVE  InHand(j)' = InHand(j)
BY DEF InHand

\* PopFront moves the first job of the list into the worker's hand.
LEMMA PopFrontBalance ==
  ASSUME DispatcherInv, OnlyWorkersPoll, NEW j \in Jobs, Balanced(j),
         NEW t \in Threads, PopFront(t), UNCHANGED dispatcherVars
  PROVE  Balanced(j)'
<1> USE DEF DispatcherInv, QueueInv, TypeOK
<1>1. /\ t \in Workers /\ loop[t] = "polling" /\ pc[t] = "pop"
      /\ mQueue # <<>> /\ func[t] = Head(mQueue) /\ mQueue' = Tail(mQueue)
      /\ pc' = [pc EXCEPT ![t] = "return"]
      /\ UNCHANGED <<loop, func, submitted, begun>>
  BY DEF PopFront, At, OnlyWorkersPoll, Locals, dispatcherVars
<1>2. Occurrences(mQueue, j) = Occurrences(Tail(mQueue), j) + (IF Head(mQueue) = j THEN 1 ELSE 0)
  BY <1>1, OccurrencesTail
<1>3. InHand(j)' = IF func[t] = j THEN InHand(j) \cup {t} ELSE InHand(j)
  BY <1>1 DEF InHand
<1>4. t \notin InHand(j) /\ InHand(j) \subseteq Workers
  BY <1>1 DEF InHand
<1>5. Cardinality(InHand(j)') = Cardinality(InHand(j)) + (IF func[t] = j THEN 1 ELSE 0)
  <2>1. CASE func[t] = j
    BY <1>3, <1>4, <2>1, HandChanges
  <2>2. CASE func[t] # j
    <3>1. InHand(j)' = InHand(j) /\ Cardinality(InHand(j)) \in Nat
      BY <1>3, <1>4, <2>2, HandChanges
    <3> QED
      BY <2>2, <3>1
  <2> QED
    BY <2>1, <2>2
<1>6. /\ Occurrences(mQueue, j)' = Occurrences(Tail(mQueue), j)
      /\ Occurrences(submitted, j)' = Occurrences(submitted, j)
      /\ Occurrences(begun, j)' = Occurrences(begun, j)
  BY <1>1 DEF Occurrences
<1>7. Tail(mQueue) \in Seq(Jobs)
  BY <1>1, HeadTailProperties
<1>8. Occurrences(Tail(mQueue), j) \in Nat /\ Occurrences(begun, j) \in Nat /\ Cardinality(InHand(j)) \in Nat
  BY <1>4, <1>7, OccurrencesType, HandChanges DEF DispatcherTypes
<1> QED
  BY <1>1, <1>2, <1>5, <1>6, <1>8 DEF Balanced

\* PushBack adds the job to the list and to the history of what was submitted.
LEMMA PushBackBalance ==
  ASSUME DispatcherInv, NEW j \in Jobs, Balanced(j),
         NEW t \in Threads, PushBack(t), UNCHANGED dispatcherVars
  PROVE  Balanced(j)'
<1> USE DEF DispatcherInv, QueueInv, TypeOK
<1>1. /\ pc[t] = "push" /\ pc' = [pc EXCEPT ![t] = "notify"] /\ func[t] \in Jobs
      /\ mQueue' = Append(mQueue, func[t]) /\ submitted' = Append(submitted, func[t])
      /\ func' = [func EXCEPT ![t] = NoJob] /\ UNCHANGED <<loop, begun>>
  BY DEF PushBack, At, Locals, dispatcherVars
<1>2. InHand(j)' = InHand(j)
  BY <1>1 DEF InHand
<1>3. /\ Occurrences(mQueue, j)' = Occurrences(mQueue, j) + (IF func[t] = j THEN 1 ELSE 0)
      /\ Occurrences(submitted, j)' = Occurrences(submitted, j) + (IF func[t] = j THEN 1 ELSE 0)
  <2>1. /\ Occurrences(mQueue, j)' = Occurrences(Append(mQueue, func[t]), j)
        /\ Occurrences(submitted, j)' = Occurrences(Append(submitted, func[t]), j)
    BY <1>1 DEF Occurrences
  <2> QED
    BY <1>1, <2>1, OccurrencesAppend
<1>4. Occurrences(begun, j)' = Occurrences(begun, j)
  BY <1>1 DEF Occurrences
<1>5. /\ Occurrences(mQueue, j) \in Nat /\ Occurrences(submitted, j) \in Nat
      /\ Occurrences(begun, j) \in Nat /\ Cardinality(InHand(j)) \in Nat
  <2>1. InHand(j) \subseteq Workers
    BY DEF InHand
  <2> QED
    BY <2>1, OccurrencesType, HandChanges DEF DispatcherTypes
<1> QED
  BY <1>2, <1>3, <1>4, <1>5 DEF Balanced

\* BeginJob empties the worker's hand into the jobs begun.
LEMMA BeginJobBalance ==
  ASSUME DispatcherInv, NEW j \in Jobs, Balanced(j), NEW w \in Workers, BeginJob(w)
  PROVE  Balanced(j)'
<1> USE DEF DispatcherInv, QueueInv, TypeOK
<1>1. /\ loop[w] = "polling" /\ pc[w] = "outside" /\ loop' = [loop EXCEPT ![w] = "run"]
      /\ func[w] \in Jobs /\ begun' = Append(begun, func[w])
      /\ UNCHANGED <<pc, func, mQueue, submitted>>
  BY DispatcherAssumption DEF BeginJob, Goto, WorkerPlaces, queueVars
<1>2. InHand(j)' = InHand(j) \ {w} /\ InHand(j) \subseteq Workers /\ (w \in InHand(j) <=> func[w] = j)
  BY <1>1 DEF InHand, DispatcherTypes
<1>3. Cardinality(InHand(j)) = Cardinality(InHand(j)') + (IF func[w] = j THEN 1 ELSE 0)
  <2>1. CASE func[w] = j
    BY <1>2, <2>1, HandChanges
  <2>2. CASE func[w] # j
    <3>1. InHand(j)' = InHand(j) /\ Cardinality(InHand(j)) \in Nat
      BY <1>2, <2>2, HandChanges
    <3> QED
      BY <2>2, <3>1
  <2> QED
    BY <2>1, <2>2
<1>4. Occurrences(begun, j)' = Occurrences(begun, j) + (IF func[w] = j THEN 1 ELSE 0)
  <2>1. Occurrences(begun, j)' = Occurrences(Append(begun, func[w]), j)
    BY <1>1 DEF Occurrences
  <2> QED
    BY <1>1, <2>1, OccurrencesAppend DEF DispatcherTypes
<1>5. /\ Occurrences(mQueue, j)' = Occurrences(mQueue, j)
      /\ Occurrences(submitted, j)' = Occurrences(submitted, j)
  BY <1>1 DEF Occurrences
<1>6. Occurrences(mQueue, j) \in Nat /\ Occurrences(begun, j) \in Nat /\ Cardinality(InHand(j)') \in Nat
  <2>1. InHand(j)' \subseteq Workers
    BY <1>2
  <2> QED
    BY <2>1, OccurrencesType, HandChanges DEF DispatcherTypes
<1> QED
  BY <1>3, <1>4, <1>5, <1>6 DEF Balanced

\* Every step of the dispatcher keeps the count of every job.
LEMMA BalanceStep ==
  ASSUME DispatcherInv, OnlyWorkersPoll, DispatcherNext, NEW j \in Jobs, Balanced(j)
  PROVE  Balanced(j)'
<1> USE DispatcherAssumption, QueueAssumption
        DEF DispatcherInv, DispatcherTypes, WorkerPlaces, QueueInv, TypeOK, queueVars, Goto
<1> DEFINE Same == UNCHANGED <<submitted, mQueue, begun>> /\ InHand(j)' = InHand(j)
<1>1. ASSUME NEW w \in Workers, Start(w) \/ TestDestroyed(w) \/ EndJob(w)
      PROVE  Same
  BY <1>1 DEF Start, TestDestroyed, EndJob, InHand
<1>2. ASSUME NEW w \in Workers, CallPoll(w)
      PROVE  Same
  BY <1>2 DEF CallPoll, PollEnter, Lock, InHand
<1>3. ASSUME NEW t \in Threads, Quit(t)
      PROVE  Same
  BY <1>3 DEF Quit, InHand
<1>4. ASSUME NEW t \in Threads, QuitInterrupts(t)
      PROVE  Same
  BY <1>4 DEF QuitInterrupts, InterruptEnter, Lock, InHand
<1>5. ASSUME NEW t \in Threads, NEW k \in Jobs, Enqueue(t, k)
      PROVE  Same
  BY <1>5 DEF Enqueue, InClientCode, EnqueueEnter, Lock, dispatcherVars, InHand
<1>6. ASSUME NEW t \in Threads, Spurious(t)
      PROVE  Same
  BY <1>6 DEF Spurious, SpuriousWakeup, At, dispatcherVars, InHand
<1>7. ASSUME NEW t \in Threads, QueueStep(t), ~PopFront(t), ~PushBack(t)
      PROVE  Same
  <2> USE <1>7 DEF QueueStep, dispatcherVars
  <2>1. CASE TestPredicate(t)
    BY <2>1 DEF TestPredicate, At, InHand
  <2>2. CASE Reacquire(t)
    BY <2>2 DEF Reacquire, Lock, InHand
  <2>3. CASE Front(t)
    BY <2>3 DEF Front, At, Locals, InHand
  <2>4. CASE PollReturn(t)
    BY <2>4 DEF PollReturn, At, InHand
  <2>5. CASE NotifyOne(t)
    <3>1. /\ pc[t] = "notify" /\ pc' \in [Threads -> Places]
          /\ \A u \in Threads : \/ pc'[u] = pc[u]
                                \/ u = t /\ pc'[u] = "unlock"
                                \/ pc[u] = "waiting" /\ pc'[u] = "woken"
          /\ UNCHANGED <<func, begun, loop, submitted, mQueue>>
      BY <2>5 DEF NotifyOne, Waiters
    <3> QED
      BY <3>1, HandsKept
  <2>6. CASE Unlock(t)
    BY <2>6 DEF Unlock, At, InHand
  <2> QED
    BY <2>1, <2>2, <2>3, <2>4, <2>5, <2>6 DEF Continue
<1>8. Same => Balanced(j)'
  BY BalanceKept
<1>9. ASSUME NEW t \in Threads, QueueStep(t)
      PROVE  Balanced(j)'
  <2>1. CASE PopFront(t)
    BY <1>9, <2>1, PopFrontBalance DEF QueueStep
  <2>2. CASE PushBack(t)
    BY <1>9, <2>2, PushBackBalance DEF QueueStep
  <2> HIDE DEF Same
  <2> QED
    BY <1>7, <1>8, <1>9, <2>1, <2>2
<1>10. ASSUME NEW w \in Workers, BeginJob(w)
       PROVE  Balanced(j)'
  BY <1>10, BeginJobBalance
<1> HIDE DEF Same
<1> QED
  BY <1>1, <1>2, <1>3, <1>4, <1>5, <1>6, <1>8, <1>9, <1>10 DEF DispatcherNext

\* Whatever the number of workers, clients and exceptions, and in whatever order
\* start(), quit() and enqueue() are called: a job that was enqueued is in the
\* list, in the hand of exactly one worker or begun, as often as it was enqueued.
THEOREM NoJobIsLost == DispatcherSpec => []NoJobLost
<1>1. DispatcherInit => NoJobLost
  <2> SUFFICES ASSUME DispatcherInit, NEW j \in Jobs PROVE Balanced(j)
    BY DEF NoJobLost, Balanced
  <2>1. Occurrences(<<>>, j) = 0
    BY FS_EmptySet DEF Occurrences
  <2>2. InHand(j) = {}
    BY DEF DispatcherInit, InHand
  <2>3. submitted = <<>> /\ mQueue = <<>> /\ begun = <<>>
    BY DEF DispatcherInit, QueueInit
  <2> QED
    BY <2>1, <2>2, <2>3, FS_EmptySet DEF Balanced
<1>2. DispatcherInv /\ OrderInv /\ NoJobLost /\ [DispatcherNext]_vars => NoJobLost'
  <2> SUFFICES ASSUME DispatcherInv, OrderInv, NoJobLost, [DispatcherNext]_vars
               PROVE  NoJobLost'
    OBVIOUS
  <2>1. CASE DispatcherNext
    <3>1. ASSUME NEW j \in Jobs PROVE Balanced(j)'
      BY <2>1, BalanceStep DEF NoJobLost, Balanced, OrderInv
    <3> QED
      BY <3>1 DEF NoJobLost, Balanced
  <2>2. CASE UNCHANGED vars
    BY <2>2 DEF vars, queueVars, dispatcherVars, NoJobLost, InHand, Occurrences
  <2> QED
    BY <2>1, <2>2
<1> QED
  BY <1>1, <1>2, OrderInvariance, DispatcherInvariance, PTL DEF DispatcherSpec
=============================================================================

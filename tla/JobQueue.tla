------------------------------ MODULE JobQueue ------------------------------
(***************************************************************************)
(* JobQueueImpl of JobQueue.hx: a list guarded by a mutex, with one        *)
(* condition variable that enqueue() and interruptPoll() notify and that   *)
(* poll() waits on.  A thread's pc is its place inside one of the three    *)
(* methods; a step is one statement of them, so every interleaving of the  *)
(* statements that the mutex allows is a behaviour.                        *)
(*                                                                         *)
(* submitted and taken are history variables: what has been pushed, and    *)
(* what poll() has popped, since the queue was created.                    *)
(***************************************************************************)
EXTENDS Naturals, Sequences, FiniteSets

CONSTANTS
  Threads,          \* the threads that may call the queue
  Jobs,             \* the functions they may enqueue
  NoThread,         \* "the mutex is free"
  NoJob,            \* nullptr
  MaxEnqueues       \* bound on the calls of enqueue() in a behaviour

ASSUME QueueAssumption ==
  /\ IsFiniteSet(Threads)
  /\ NoThread \notin Threads
  /\ NoJob \notin Jobs
  /\ MaxEnqueues \in Nat

VARIABLES
  mQueue,           \* std::list<std::function<void()>>
  mMutex,           \* the thread that holds the mutex, or NoThread
  pc,               \* each thread's place in the queue's methods
  func,             \* each thread's local: enqueue's argument, poll's result
  submitted,
  taken

queueVars == <<mQueue, mMutex, pc, func, submitted, taken>>

\* Places where a thread holds mMutex.
InsidePoll == {"test", "front", "pop", "return"}
InsideOther == {"push", "notify", "unlock"}
Critical == InsidePoll \cup InsideOther
Places == Critical \cup {"outside", "waiting", "woken"}

Waiters == {t \in Threads : pc[t] = "waiting"}

QueueInit ==
  /\ mQueue = <<>>
  /\ mMutex = NoThread
  /\ pc = [t \in Threads |-> "outside"]
  /\ func = [t \in Threads |-> NoJob]
  /\ submitted = <<>>
  /\ taken = <<>>

\* std::unique_lock<std::mutex> lock(mMutex), on the way from one place to another.
Lock(t, from, to) ==
  /\ pc[t] = from
  /\ mMutex = NoThread
  /\ mMutex' = t
  /\ pc' = [pc EXCEPT ![t] = to]

At(t, from, to) ==
  /\ pc[t] = from
  /\ pc' = [pc EXCEPT ![t] = to]
-----------------------------------------------------------------------------
(* Mutants: statements of the queue written wrong, which the properties    *)
(* below must notice.                                                      *)

\* push_back of a function that has been moved from.
PushBackMoved(t) ==
  /\ At(t, "push", "notify")
  /\ mQueue' = Append(mQueue, NoJob)
  /\ submitted' = Append(submitted, func[t])
  /\ UNCHANGED <<mMutex, func, taken>>

\* push_front instead of push_back.
PushFront(t) ==
  /\ At(t, "push", "notify")
  /\ mQueue' = <<func[t]>> \o mQueue
  /\ submitted' = Append(submitted, func[t])
  /\ func' = [func EXCEPT ![t] = NoJob]
  /\ UNCHANGED <<mMutex, taken>>

\* push_back without the notification.
PushBackSilently(t) ==
  /\ At(t, "push", "unlock")
  /\ mQueue' = Append(mQueue, func[t])
  /\ submitted' = Append(submitted, func[t])
  /\ func' = [func EXCEPT ![t] = NoJob]
  /\ UNCHANGED <<mMutex, taken>>

\* wait(lock) with an `if` around it, the predicate not tested again.
ReacquireUntested(t) ==
  /\ Lock(t, "woken", "front")
  /\ UNCHANGED <<mQueue, func, submitted, taken>>

\* notify_one() only when the list was empty before the push.
NotifyIfWasEmpty(t) ==
  /\ pc[t] = "notify"
  /\ \/ \E w \in Waiters : /\ Len(mQueue) = 1
                          /\ pc' = [pc EXCEPT ![t] = "unlock", ![w] = "woken"]
     \/ (Waiters = {} \/ Len(mQueue) # 1) /\ pc' = [pc EXCEPT ![t] = "unlock"]
  /\ UNCHANGED <<mQueue, mMutex, func, submitted, taken>>
-----------------------------------------------------------------------------
(* poll() *)

PollEnter(t) ==
  /\ Lock(t, "outside", "test")
  /\ func' = [func EXCEPT ![t] = NoJob]
  /\ UNCHANGED <<mQueue, submitted, taken>>

\* while (!pred()) wait(lock): going to sleep and freeing the mutex is one step.
TestPredicate(t) ==
  /\ \/ mQueue # <<>> /\ At(t, "test", "front") /\ UNCHANGED mMutex
     \/ mQueue = <<>> /\ At(t, "test", "waiting") /\ mMutex' = NoThread
  /\ UNCHANGED <<mQueue, func, submitted, taken>>

\* A condition variable may wake a thread that nobody notified.
SpuriousWakeup(t) ==
  /\ At(t, "waiting", "woken")
  /\ UNCHANGED <<mQueue, mMutex, func, submitted, taken>>

Reacquire(t) ==
  /\ Lock(t, "woken", "test")
  /\ UNCHANGED <<mQueue, func, submitted, taken>>

\* if (!mQueue.empty()) func = mQueue.front(); else return nullptr.
Front(t) ==
  /\ IF mQueue # <<>>
     THEN At(t, "front", "pop") /\ func' = [func EXCEPT ![t] = Head(mQueue)]
     ELSE At(t, "front", "return") /\ UNCHANGED func
  /\ UNCHANGED <<mQueue, mMutex, submitted, taken>>

PopFront(t) ==
  /\ At(t, "pop", "return")
  /\ mQueue' = Tail(mQueue)
  /\ taken' = Append(taken, func[t])
  /\ UNCHANGED <<mMutex, func, submitted>>

\* The caller finds the job it polled in func[t].
PollReturn(t) ==
  /\ At(t, "return", "outside")
  /\ mMutex' = NoThread
  /\ UNCHANGED <<mQueue, func, submitted, taken>>
-----------------------------------------------------------------------------
(* enqueue(function) and interruptPoll() *)

EnqueueEnter(t, j) ==
  /\ Len(submitted) < MaxEnqueues
  /\ Lock(t, "outside", "push")
  /\ func' = [func EXCEPT ![t] = j]
  /\ UNCHANGED <<mQueue, submitted, taken>>

PushBack(t) ==
  /\ At(t, "push", "notify")
  /\ mQueue' = Append(mQueue, func[t])
  /\ submitted' = Append(submitted, func[t])
  /\ func' = [func EXCEPT ![t] = NoJob]
  /\ UNCHANGED <<mMutex, taken>>

InterruptEnter(t) ==
  /\ Lock(t, "outside", "notify")
  /\ func' = [func EXCEPT ![t] = NoJob]
  /\ UNCHANGED <<mQueue, submitted, taken>>

\* notify_one() wakes one of the threads that wait, whichever it is.
NotifyOne(t) ==
  /\ pc[t] = "notify"
  /\ \/ \E w \in Waiters : pc' = [pc EXCEPT ![t] = "unlock", ![w] = "woken"]
     \/ Waiters = {} /\ pc' = [pc EXCEPT ![t] = "unlock"]
  /\ UNCHANGED <<mQueue, mMutex, func, submitted, taken>>

Unlock(t) ==
  /\ At(t, "unlock", "outside")
  /\ mMutex' = NoThread
  /\ UNCHANGED <<mQueue, func, submitted, taken>>
-----------------------------------------------------------------------------
\* The steps of a call once it has begun.
Continue(t) ==
  \/ TestPredicate(t) \/ Reacquire(t) \/ Front(t) \/ PopFront(t) \/ PollReturn(t)
  \/ PushBack(t) \/ NotifyOne(t) \/ Unlock(t)

QueueNext ==
  \E t \in Threads :
    \/ PollEnter(t)
    \/ \E j \in Jobs : EnqueueEnter(t, j)
    \/ InterruptEnter(t)
    \/ Continue(t)
    \/ SpuriousWakeup(t)

QueueSpec == QueueInit /\ [][QueueNext]_queueVars
-----------------------------------------------------------------------------
(* What the queue guarantees.                                              *)

\* Every variable has its type: only jobs that were passed to enqueue() are
\* ever in the list or handed out.
TypeOK ==
  /\ mQueue \in Seq(Jobs)
  /\ mMutex \in Threads \cup {NoThread}
  /\ pc \in [Threads -> Places]
  /\ func \in [Threads -> Jobs \cup {NoJob}]
  /\ submitted \in Seq(Jobs)
  /\ taken \in Seq(Jobs)

\* poll() never returns nullptr, whoever called interruptPoll() and whatever
\* woke it: wait() comes back only with a job in the list, which no other
\* thread can take before it does.  Its "return nullptr" branch is dead.
PollReturnsJob == \A t \in Threads : pc[t] = "return" => func[t] # NoJob

\* The threads that will look at the list without a further notification, and
\* the one about to notify.
Coming == {t \in Threads : pc[t] \in {"woken", "test", "front", "pop", "notify"}}

\* No wakeup is lost: while a thread sleeps in poll(), there are at least as
\* many threads on their way to the list as jobs in it, although notify_one
\* wakes a single thread, a thread that never slept may take the job first,
\* and interruptPoll() shares the condition variable.
NoLostWakeup == Waiters # {} => Len(mQueue) <= Cardinality(Coming)

Fifo == INSTANCE JobFifo WITH pending <- mQueue, delivered <- taken

\* With its locks and waits hidden, the list is a FIFO queue: a push is an
\* accepted job, a pop delivers the oldest one, everything else is invisible.
ImplementsFifo == Fifo!FifoSpec
=============================================================================

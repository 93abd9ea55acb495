--------------------------- MODULE JobDispatcher ---------------------------
(***************************************************************************)
(* JobDispatcher of JobDispatcher.hx over the queue of JobQueue: start()   *)
(* creates a Java thread that runs mRunnable, quit() sets mDestroyed and   *)
(* calls interruptPoll().  The dispatcher does not remember its thread, so *)
(* start() may be called again.  Jobs are client code: while one runs, its *)
(* thread may itself call enqueue() or quit().                             *)
(***************************************************************************)
EXTENDS JobQueue

CONSTANTS
  Workers,          \* the threads that start() can create
  Throwing          \* the jobs that end with an exception

ASSUME DispatcherAssumption == Workers \subseteq Threads /\ Throwing \subseteq Jobs

VARIABLES
  mDestroyed,       \* a plain field: quit() writes it, the workers read it
  seen,             \* mDestroyed as each worker's creation made it visible
  quitting,         \* the threads between mDestroyed = true and interruptPoll()
  loop,             \* each worker's place in mRunnable
  job,              \* each worker's local variable job
  begun             \* history: the jobs run() was called on

dispatcherVars == <<mDestroyed, seen, quitting, loop, job, begun>>
vars == <<queueVars, dispatcherVars>>

DispatcherInit ==
  /\ QueueInit
  /\ mDestroyed = FALSE
  /\ seen = [w \in Workers |-> FALSE]
  /\ quitting = {}
  /\ loop = [w \in Workers |-> "new"]
  /\ job = [w \in Workers |-> NoJob]
  /\ begun = <<>>

Goto(w, from, to) ==
  /\ loop[w] = from
  /\ loop' = [loop EXCEPT ![w] = to]

\* t runs client code: a job, or anything on a thread the dispatcher did not make.
InClientCode(t) ==
  /\ pc[t] = "outside"
  /\ t \notin quitting
  /\ t \in Workers => loop[t] = "run"
-----------------------------------------------------------------------------
(* The dispatcher's methods, and the client's use of the queue. *)

Start(w) ==
  /\ Goto(w, "new", "check")
  /\ seen' = [seen EXCEPT ![w] = mDestroyed]
  /\ UNCHANGED <<queueVars, mDestroyed, quitting, job, begun>>

Quit(t) ==
  /\ InClientCode(t)
  /\ mDestroyed' = TRUE
  /\ quitting' = quitting \cup {t}
  /\ UNCHANGED <<queueVars, seen, loop, job, begun>>

QuitInterrupts(t) ==
  /\ t \in quitting
  /\ InterruptEnter(t)
  /\ quitting' = quitting \ {t}
  /\ UNCHANGED <<mDestroyed, seen, loop, job, begun>>

Enqueue(t, j) ==
  /\ InClientCode(t)
  /\ EnqueueEnter(t, j)
  /\ UNCHANGED dispatcherVars
-----------------------------------------------------------------------------
(* Mutants. *)

\* The worker looks at mDestroyed after poll() and drops the job it got.
BeginJobUnlessDestroyed(w) ==
  /\ pc[w] = "outside"
  /\ Goto(w, "polling", IF mDestroyed THEN "exited" ELSE "run")
  /\ job' = [job EXCEPT ![w] = func[w]]
  /\ begun' = IF mDestroyed THEN begun ELSE Append(begun, func[w])
  /\ UNCHANGED <<queueVars, mDestroyed, seen, quitting>>

\* The worker catches the exception and runs the job again.
EndJobRetries(w) ==
  /\ InClientCode(w)
  /\ Goto(w, "run", IF job[w] \in Throwing THEN "run" ELSE "poll")
  /\ begun' = IF job[w] \in Throwing THEN Append(begun, job[w]) ELSE begun
  /\ UNCHANGED <<queueVars, mDestroyed, seen, quitting, job>>
-----------------------------------------------------------------------------
(* mRunnable *)

\* while (!isDestroyed()): the field is not volatile, so the worker may still
\* read the value it saw when it was created.
TestDestroyed(w) ==
  /\ \E d \in {seen[w], mDestroyed} : Goto(w, "check", IF d THEN "exited" ELSE "poll")
  /\ UNCHANGED <<queueVars, mDestroyed, seen, quitting, job, begun>>

CallPoll(w) ==
  /\ Goto(w, "poll", "polling")
  /\ PollEnter(w)
  /\ UNCHANGED <<mDestroyed, seen, quitting, job, begun>>

\* (job = mQueue.poll()) != null
BeginJob(w) ==
  /\ pc[w] = "outside"
  /\ Goto(w, "polling", IF func[w] = NoJob THEN "check" ELSE "run")
  /\ job' = [job EXCEPT ![w] = func[w]]
  /\ begun' = IF func[w] = NoJob THEN begun ELSE Append(begun, func[w])
  /\ UNCHANGED <<queueVars, mDestroyed, seen, quitting>>

\* job.run() returns, or throws: nothing catches, and the thread ends.
EndJob(w) ==
  /\ InClientCode(w)
  /\ Goto(w, "run", IF job[w] \in Throwing THEN "crashed" ELSE "poll")
  /\ job' = [job EXCEPT ![w] = NoJob]
  /\ UNCHANGED <<queueVars, mDestroyed, seen, quitting, begun>>

\* A statement of a queue method that t is inside of.
QueueStep(t) ==
  /\ Continue(t)
  /\ UNCHANGED dispatcherVars

Spurious(t) ==
  /\ SpuriousWakeup(t)
  /\ UNCHANGED dispatcherVars
-----------------------------------------------------------------------------
DispatcherNext ==
  \/ \E w \in Workers : Start(w) \/ TestDestroyed(w) \/ CallPoll(w) \/ BeginJob(w) \/ EndJob(w)
  \/ \E t \in Threads :
       \/ Quit(t)
       \/ QuitInterrupts(t)
       \/ \E j \in Jobs : Enqueue(t, j)
       \/ QueueStep(t)
       \/ Spurious(t)

\* A runnable thread runs, a mutex that is free again and again is obtained,
\* and a job ends after finitely many calls.
DispatcherFairness ==
  /\ \A w \in Workers :
       WF_vars(TestDestroyed(w)) /\ SF_vars(CallPoll(w)) /\ WF_vars(BeginJob(w)) /\ SF_vars(EndJob(w))
  /\ \A t \in Threads : SF_vars(QuitInterrupts(t)) /\ SF_vars(QueueStep(t))

DispatcherSpec == DispatcherInit /\ [][DispatcherNext]_vars /\ DispatcherFairness
-----------------------------------------------------------------------------
(* What a dispatcher guarantees.                                           *)

Started == {w \in Workers : loop[w] # "new"}
Serving == {w \in Workers : loop[w] \in {"poll", "polling", "run"}}

\* The workers that hold a job they have polled and not run yet.
InHand(j) ==
  {w \in Workers : loop[w] = "polling" /\ pc[w] \in {"return", "outside"} /\ func[w] = j}

Occurrences(s, j) == Cardinality({i \in DOMAIN s : s[i] = j})

\* Every job that was enqueued is in the list, in one worker's hand or begun:
\* none is lost, none runs twice, however many workers start() has made and
\* whichever of them have crashed.
NoJobLost ==
  \A j \in Jobs :
    Occurrences(submitted, j)
      = Occurrences(mQueue, j) + Cardinality(InHand(j)) + Occurrences(begun, j)

\* With a single start(), jobs begin in the order they were enqueued.  (With a
\* second one they need not, and two jobs may run at once.)
OneWorkerInOrder ==
  (\A u, v \in Started : u = v) => begun = SubSeq(submitted, 1, Len(begun))

\* quit() cannot stop a worker that has begun to poll: poll() never returns
\* null to it, so mRunnable never comes back to isDestroyed().
QuitCannotStopWorker == [][\A w \in Workers : w \in Serving => loop'[w] \notin {"check", "exited"}]_vars

\* As long as some worker serves the queue, before or after quit(), the list
\* drains: again and again every job enqueued so far has begun.  Clients
\* enqueue finitely often, so each of their jobs begins.
BacklogDrains == []<>(Len(begun) = Len(submitted) \/ Serving = {})
=============================================================================

------------------------------ MODULE JobFifo ------------------------------
(***************************************************************************)
(* What a job queue promises to the threads that share it: jobs come out   *)
(* once each, in the order in which they went in.  Nothing is said of      *)
(* locks or of waiting; JobQueue (the mutex and the condition variable of  *)
(* JobQueue.hx) is shown to implement this.                                *)
(***************************************************************************)
EXTENDS Sequences

CONSTANT Jobs       \* the functions a client may enqueue

VARIABLES
  pending,          \* jobs accepted and not handed out yet, oldest first
  delivered         \* jobs handed out by poll(), in that order

fifoVars == <<pending, delivered>>

FifoInit ==
  /\ pending = <<>>
  /\ delivered = <<>>

Accept(j) ==
  /\ pending' = Append(pending, j)
  /\ UNCHANGED delivered

Deliver ==
  /\ pending # <<>>
  /\ delivered' = Append(delivered, Head(pending))
  /\ pending' = Tail(pending)

FifoNext ==
  \/ \E j \in Jobs : Accept(j)
  \/ Deliver

FifoSpec == FifoInit /\ [][FifoNext]_fifoVars
=============================================================================

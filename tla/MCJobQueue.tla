----------------------------- MODULE MCJobQueue -----------------------------
(***************************************************************************)
(* JobQueue on four threads that may each call any method of the queue.    *)
(* The threads are interchangeable, and every property is a safety one.    *)
(***************************************************************************)
EXTENDS JobQueue, TLC

Symmetry == Permutations(Threads)
=============================================================================

---------------------------- MODULE MCThreadPool ----------------------------
(* Small instances of the thread pool for TLC. *)
EXTENDS ThreadPool, TLC

CONSTANTS t1, t2, t3

\* Threads are interchangeable; used in the run without liveness only.
ThreadSymmetry == Permutations(Threads)
=============================================================================

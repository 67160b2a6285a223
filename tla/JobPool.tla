------------------------------- MODULE JobPool -------------------------------
(***************************************************************************)
(* What a pool of workers promises, however its threads and wakeups work:  *)
(* jobs are taken in the order in which they were added, each of them once *)
(* and by one worker, a worker has one job at a time, and closing the pool *)
(* waits for the jobs that run and drops those that wait.                  *)
(***************************************************************************)
EXTENDS Naturals, Sequences

CONSTANTS Workers,
          Idle      \* what a worker has that has no job

VARIABLES count,    \* jobs added so far; they are numbered
          waiting,  \* those nobody has taken, in order
          running,  \* the job of every worker
          done,
          closed

vars == <<count, waiting, running, done, closed>>

Init ==
    /\ count = 0
    /\ waiting = <<>>
    /\ running = [w \in Workers |-> Idle]
    /\ done = {}
    /\ closed = FALSE

Add ==
    /\ ~closed
    /\ count' = count + 1
    /\ waiting' = Append(waiting, count + 1)
    /\ UNCHANGED <<running, done, closed>>

Take(w) ==
    /\ running[w] = Idle
    /\ waiting # <<>>
    /\ running' = [running EXCEPT ![w] = Head(waiting)]
    /\ waiting' = Tail(waiting)
    /\ UNCHANGED <<count, done, closed>>

Finish(w) ==
    /\ running[w] # Idle
    /\ done' = done \cup {running[w]}
    /\ running' = [running EXCEPT ![w] = Idle]
    /\ UNCHANGED <<count, waiting, closed>>

Close ==
    /\ ~closed
    /\ \A w \in Workers : running[w] = Idle
    /\ closed' = TRUE
    /\ waiting' = <<>>
    /\ UNCHANGED <<count, running, done>>

Next == Add \/ (\E w \in Workers : Take(w) \/ Finish(w)) \/ Close

Spec == Init /\ [][Next]_vars
=============================================================================

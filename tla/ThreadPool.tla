----------------------------- MODULE ThreadPool -----------------------------
(***************************************************************************)
(* The thread pool of src/util/thpool.c: worker threads that take jobs     *)
(* from one queue, a binary semaphore that wakes them, and the one thread  *)
(* (here the user) that creates the pool, adds jobs, waits for them and    *)
(* destroys the pool.  A job may add another one while it runs.            *)
(*                                                                         *)
(* One step is one critical section: of thcount_lock, of rwmutex (which    *)
(* encloses the post of the semaphore) or of the semaphore's own mutex;    *)
(* the unlocked reads of thpool_wait() and thpool_destroy() are steps of   *)
(* their own.  A thread is at one of these places:                         *)
(*   "init"    created, not counted in num_threads_alive yet               *)
(*   "loop"    about to read threads_keepalive in the while condition      *)
(*   "wait"    about to test v in thpool_bsem_wait()                       *)
(*   "asleep"  in pthread_cond_wait()                                      *)
(*   "token"   took the semaphore, about to read threads_keepalive again   *)
(*   "pull"    counted as working, about to take a job                     *)
(*   "run"     running its job                                             *)
(*   "done"    about to decrement num_threads_working                      *)
(*   "exit"    about to decrement num_threads_alive                        *)
(*   "unlock"  decremented it, about to release thcount_lock               *)
(*   "gone"    returned                                                    *)
(*                                                                         *)
(* Jobs are numbered in the order in which they are added.  The time-outs  *)
(* of the polling loops only change how often they poll: each set of loops *)
(* ends on one condition and is one loop here.                             *)
(***************************************************************************)
EXTENDS Integers, Sequences, FiniteSets

CONSTANTS Threads,   \* the threads of the pool
          NoJob,     \* what a thread holds when it holds no job
          MaxJobs,   \* bound on the jobs added in one behaviour
          MaxNested  \* bound on those that running jobs add

ASSUME ThreadPoolAssumption ==
    /\ IsFiniteSet(Threads) /\ Threads # {}
    /\ MaxJobs \in Nat
    /\ MaxNested \in Nat
    /\ NoJob \notin Nat

VARIABLES pc,         \* where each thread is
          job,        \* the job each thread has pulled
          queue,      \* the jobs in the ring, oldest first; len is its length
          v,          \* the binary semaphore queue_sem
          working,    \* num_threads_working
          alive,      \* num_threads_alive
          keepalive,  \* threads_keepalive
          user,       \* where the user's thread is
          added,      \* jobs added so far
          nested,     \* of these, by running jobs
          finished,   \* jobs whose function has returned
          fault       \* a thread called the callback of a job that is none

vars == <<pc, job, queue, v, working, alive, keepalive, user, added, nested,
          finished, fault>>

Places == {"init", "loop", "wait", "asleep", "token", "pull", "run", "done",
           "exit", "unlock", "gone"}
UserPlaces == {"starting", "ready", "wait1", "wait2", "waited", "ending", "freed"}

TypeOK ==
    /\ pc \in [Threads -> Places]
    /\ job \in [Threads -> Nat \cup {NoJob}]
    /\ queue \in Seq(Nat)
    /\ v \in {0, 1}
    /\ working \in Int
    /\ alive \in Int
    /\ keepalive \in BOOLEAN
    /\ user \in UserPlaces
    /\ added \in Nat
    /\ nested \in Nat
    /\ finished \in SUBSET Nat
    /\ fault \in BOOLEAN

\* thpool_init() has created the threads and waits for them to count themselves.
Init ==
    /\ pc = [t \in Threads |-> "init"]
    /\ job = [t \in Threads |-> NoJob]
    /\ queue = <<>>
    /\ v = 0
    /\ working = 0
    /\ alive = 0
    /\ keepalive = TRUE
    /\ user = "starting"
    /\ added = 0
    /\ nested = 0
    /\ finished = {}
    /\ fault = FALSE
-----------------------------------------------------------------------------
Goto(t, place) == pc' = [pc EXCEPT ![t] = place]

Asleep == {t \in Threads : pc[t] = "asleep"}

\* Faulty variant: nobody is signalled.
thpool_bsem_post_silent == v' = 1 /\ UNCHANGED pc

\* thpool_bsem_post() by the user or by the running job of a thread: v is set
\* and one sleeping thread, if there is one, is signalled.
thpool_bsem_post ==
    /\ v' = 1
    /\ IF Asleep = {} THEN UNCHANGED pc
       ELSE \E t \in Asleep : Goto(t, "wait")

\* The same from inside thpool_jobqueue_pull(), by thread u, which moves on.
thpool_bsem_post_by(u) ==
    /\ v' = 1
    /\ IF Asleep = {} THEN Goto(u, "run")
       ELSE \E t \in Asleep : pc' = [pc EXCEPT ![t] = "wait", ![u] = "run"]

\* Faulty variant: nobody is signalled.
thpool_bsem_post_all_silent == v' = 1 /\ UNCHANGED pc

thpool_bsem_post_all ==
    /\ v' = 1
    /\ pc' = [t \in Threads |-> IF pc[t] = "asleep" THEN "wait" ELSE pc[t]]

\* A thread tests the semaphore: it takes it, or goes to sleep.
thpool_bsem_wait(t) ==
    /\ pc[t] = "wait"
    /\ \/ v = 1 /\ v' = 0 /\ Goto(t, "token")
       \/ v = 0 /\ Goto(t, "asleep") /\ UNCHANGED v
    /\ UNCHANGED <<job, queue, working, alive, keepalive, user, added, nested, finished, fault>>

\* POSIX lets pthread_cond_wait() return for no reason.
SpuriousWakeup(t) ==
    /\ pc[t] = "asleep"
    /\ Goto(t, "wait")
    /\ UNCHANGED <<job, queue, v, working, alive, keepalive, user, added, nested, finished, fault>>

\* Faulty variant: ring_append() for ring_prepend(), a stack.
thpool_jobqueue_push_stack ==
    /\ queue' = <<added + 1>> \o queue
    /\ added' = added + 1
    /\ thpool_bsem_post

\* thpool_jobqueue_push(), under rwmutex.
thpool_jobqueue_push ==
    /\ queue' = Append(queue, added + 1)
    /\ added' = added + 1
    /\ thpool_bsem_post

\* Faulty variant: off by one.
PostsAgain_high == Len(queue) > 2

\* "more than one job in queue -> post it": the pull passes the semaphore on.
PostsAgain == Len(queue) > 1

\* thpool_jobqueue_pull(), under rwmutex.  On an empty ring it returns the
\* ring's head dressed up as a job, never NULL: the callback of that job is a
\* word of mymalloc()'s header, and the process dies calling it.
thpool_jobqueue_pull(t) ==
    /\ pc[t] = "pull"
    /\ \/ /\ queue = <<>>
          /\ fault' = TRUE
          /\ Goto(t, "run")
          /\ UNCHANGED <<job, queue, v>>
       \/ /\ queue # <<>>
          /\ job' = [job EXCEPT ![t] = Head(queue)]
          /\ queue' = Tail(queue)
          /\ IF PostsAgain THEN thpool_bsem_post_by(t)
             ELSE Goto(t, "run") /\ UNCHANGED v
          /\ UNCHANGED fault
    /\ UNCHANGED <<working, alive, keepalive, user, added, nested, finished>>
-----------------------------------------------------------------------------
\* thpool_thread_do(), from the top.
ThreadStarts(t) ==
    /\ pc[t] = "init"
    /\ alive' = alive + 1
    /\ Goto(t, "loop")
    /\ UNCHANGED <<job, queue, v, working, keepalive, user, added, nested, finished, fault>>

ThreadLoops(t) ==
    /\ pc[t] = "loop"
    /\ Goto(t, IF keepalive THEN "wait" ELSE "exit")
    /\ UNCHANGED <<job, queue, v, working, alive, keepalive, user, added, nested, finished, fault>>

ThreadAwake(t) ==
    /\ pc[t] = "token"
    /\ IF keepalive
       THEN Goto(t, "pull") /\ working' = working + 1
       ELSE Goto(t, "loop") /\ UNCHANGED working
    /\ UNCHANGED <<job, queue, v, alive, keepalive, user, added, nested, finished, fault>>

\* The job adds work of its own.
JobAddsWork(t) ==
    /\ pc[t] = "run"
    /\ added < MaxJobs
    /\ nested < MaxNested
    /\ nested' = nested + 1
    /\ thpool_jobqueue_push
    /\ UNCHANGED <<job, working, alive, keepalive, user, finished, fault>>

JobReturns(t) ==
    /\ pc[t] = "run"
    /\ finished' = finished \cup {job[t]}
    /\ job' = [job EXCEPT ![t] = NoJob]
    /\ Goto(t, "done")
    /\ UNCHANGED <<queue, v, working, alive, keepalive, user, added, nested, fault>>

\* Faulty variant: the counter is not decremented.
ThreadDone_uncounted(t) ==
    /\ pc[t] = "done"
    /\ Goto(t, "loop")
    /\ UNCHANGED <<job, queue, v, working, alive, keepalive, user, added, nested, finished, fault>>

ThreadDone(t) ==
    /\ pc[t] = "done"
    /\ working' = working - 1
    /\ Goto(t, "loop")
    /\ UNCHANGED <<job, queue, v, alive, keepalive, user, added, nested, finished, fault>>

ThreadExits(t) ==
    /\ \/ pc[t] = "exit" /\ alive' = alive - 1 /\ Goto(t, "unlock")
       \/ pc[t] = "unlock" /\ Goto(t, "gone") /\ UNCHANGED alive
    /\ UNCHANGED <<job, queue, v, working, keepalive, user, added, nested, finished, fault>>
-----------------------------------------------------------------------------
\* thpool_init() returns when all threads have counted themselves.
thpool_init ==
    /\ user = "starting"
    /\ alive = Cardinality(Threads)
    /\ user' = "ready"
    /\ UNCHANGED <<pc, job, queue, v, working, alive, keepalive, added, nested, finished, fault>>

AtHome == user \in {"ready", "waited"}

thpool_add_work ==
    /\ AtHome
    /\ added < MaxJobs
    /\ thpool_jobqueue_push
    /\ user' = "ready"
    /\ UNCHANGED <<job, working, alive, keepalive, nested, finished, fault>>

\* Faulty variant: the two reads in the other order.
thpool_wait_swapped ==
    /\ \/ AtHome /\ user' = "wait1"
       \/ user = "wait1" /\ working = 0 /\ user' = "wait2"
       \/ user = "wait2" /\ user' = IF queue = <<>> THEN "waited" ELSE "wait1"
    /\ UNCHANGED <<pc, job, queue, v, working, alive, keepalive, added, nested, finished, fault>>

\* thpool_wait() polls len || num_threads_working: two reads, no lock.
thpool_wait ==
    /\ \/ AtHome /\ user' = "wait1"
       \/ user = "wait1" /\ queue = <<>> /\ user' = "wait2"
       \/ user = "wait2" /\ user' = IF working = 0 THEN "waited" ELSE "wait1"
    /\ UNCHANGED <<pc, job, queue, v, working, alive, keepalive, added, nested, finished, fault>>

thpool_destroy ==
    /\ AtHome
    /\ keepalive' = FALSE
    /\ user' = "ending"
    /\ UNCHANGED <<pc, job, queue, v, working, alive, added, nested, finished, fault>>

\* Threads are woken until none is alive; then the queue and the pool are freed,
\* with the jobs that were not taken.
DestroyPolls ==
    /\ user = "ending"
    /\ alive # 0
    /\ thpool_bsem_post_all
    /\ UNCHANGED <<job, queue, working, alive, keepalive, user, added, nested, finished, fault>>

\* Faulty variant: the pool is freed at once.
DestroyFrees_early ==
    /\ user = "ending"
    /\ queue' = <<>>
    /\ v' = 0
    /\ user' = "freed"
    /\ UNCHANGED <<pc, job, working, alive, keepalive, added, nested, finished, fault>>

DestroyFrees ==
    /\ user = "ending"
    /\ alive = 0
    /\ queue' = <<>>
    /\ v' = 0
    /\ user' = "freed"
    /\ UNCHANGED <<pc, job, working, alive, keepalive, added, nested, finished, fault>>
-----------------------------------------------------------------------------
ThreadStep(t) ==
    \/ ThreadStarts(t)
    \/ ThreadLoops(t)
    \/ thpool_bsem_wait(t)
    \/ ThreadAwake(t)
    \/ thpool_jobqueue_pull(t)
    \/ JobReturns(t)
    \/ ThreadDone(t)
    \/ ThreadExits(t)

\* A call the user has begun goes on.
UserStep == thpool_init \/ (thpool_wait /\ ~AtHome) \/ DestroyPolls \/ DestroyFrees

Next ==
    /\ ~fault
    /\ \/ \E t \in Threads : ThreadStep(t) \/ SpuriousWakeup(t) \/ JobAddsWork(t)
       \/ thpool_init \/ thpool_add_work \/ thpool_wait \/ thpool_destroy
       \/ DestroyPolls \/ DestroyFrees

Spec == Init /\ [][Next]_vars

\* Every thread is scheduled and every job's function returns.
Fairness ==
    /\ \A t \in Threads : WF_vars(ThreadStep(t) /\ ~fault)
    /\ WF_vars(UserStep /\ ~fault)

FairSpec == Spec /\ Fairness
-----------------------------------------------------------------------------
Working == {t \in Threads : pc[t] \in {"pull", "run", "done"}}
Living == {t \in Threads : pc[t] \notin {"init", "unlock", "gone"}}
Held == {job[t] : t \in Threads} \ {NoJob}

(* Until the pool is freed every job added is in exactly one place: in the  *)
(* queue in the order of the calls, in the hands of one thread, or done     *)
(* (thpool_jobqueue_push, thpool_jobqueue_pull, thpool_thread_do).          *)
JobsAccounted ==
    user # "freed" =>
        /\ queue = [i \in 1..Len(queue) |-> added - Len(queue) + i]
        /\ finished \cup Held = 1..(added - Len(queue))
        /\ finished \cap Held = {}
        /\ \A t, u \in Threads : job[t] = job[u] => t = u \/ job[t] = NoJob

(* The two counters that thpool_wait() and thpool_destroy() poll without a  *)
(* lock count the threads that are working and those that still use the     *)
(* pool (num_threads_working, num_threads_alive).                           *)
CountersAgree ==
    /\ working = Cardinality(Working)
    /\ alive = Cardinality(Living)

(* When thpool_wait() returns, every job added before is done, although it  *)
(* reads the queue's length and the number of working threads one after the *)
(* other and without a lock ("Wait for all queued jobs to finish").  This   *)
(* supposes that no job adds another: one that does so between the two      *)
(* reads is not waited for.                                                 *)
WaitSound == user = "waited" /\ nested = 0 => finished = 1..added

(* No wakeup is lost, although v remembers only one post: while jobs are    *)
(* queued the semaphore is posted or a thread that took it has not pulled   *)
(* yet, and a posted semaphore has a thread that was signalled if any sleep *)
(* (thpool_bsem_post, thpool_bsem_wait, thpool_jobqueue_pull).              *)
NoLostWakeup ==
    ~fault /\ keepalive =>
        /\ queue # <<>> => v = 1 \/ \E t \in Threads : pc[t] \in {"token", "pull"}
        /\ v = 1 /\ Asleep # {} => \E t \in Threads : pc[t] = "wait"

(* No thread pulls from an empty queue: "if no jobs in queue" the pull must *)
(* not produce a job (thpool_jobqueue_pull, thpool_thread_do).              *)
NoEmptyPull == ~fault

(* When the pool's memory is freed no thread is going to touch its queue or *)
(* counters again: all that a thread may still have to do is to release     *)
(* thcount_lock (thpool_destroy).                                           *)
FreedWhenUnused ==
    user = "freed" => \A t \in Threads : pc[t] \in {"unlock", "gone"}

(* Every job added is run, unless the pool is destroyed first or a thread   *)
(* has pulled from an empty queue.                                          *)
AllJobsRun ==
    \A j \in 1..MaxJobs : added >= j ~> j \in finished \/ ~keepalive \/ fault

(* thpool_wait() returns, if it is not for ever given more to wait for.     *)
WaitReturns == user = "wait1" ~> user = "waited" \/ fault

(* thpool_destroy() returns: idle threads are woken, busy ones finish their *)
(* job, and all leave, however many jobs are still queued.                  *)
DestroyReturns == user = "ending" ~> user = "freed" \/ fault

Promise == INSTANCE JobPool WITH
    Workers <- Threads, Idle <- NoJob, count <- added, waiting <- queue, running <- job,
    done <- finished, closed <- (user = "freed")

(* The pool implements JobPool: with a binary semaphore, pulls that post    *)
(* again and jobs that add jobs, jobs start in the order of the calls, once *)
(* each, and thpool_destroy() drops only jobs that no thread has taken.     *)
ImplementsJobPool == Promise!Spec
=============================================================================

-------------------------- MODULE ThreadPoolProofs --------------------------
(***************************************************************************)
(* Proofs about the thread pool, for every set of threads and every number *)
(* of jobs.  Most steps only move a thread between places that no counter  *)
(* and no job depends on; they are dealt with by one lemma (QuietStep).    *)
(* The others are proved action by action.                                 *)
(***************************************************************************)
EXTENDS ThreadPool, FiniteSetTheorems, SequenceTheorems, TLAPS

\* Jobs that have left the queue.
Taken == 1..(added - Len(queue))

\* A thread holds a job exactly while it runs it.
JobPlaces ==
    \A t \in Threads : /\ job[t] # NoJob => pc[t] = "run"
                       /\ pc[t] = "run" /\ ~fault => job[t] # NoJob

\* JobsAccounted, job by job.
QueueInv ==
    /\ Len(queue) <= added
    /\ \A i \in 1..Len(queue) : queue[i] = added - Len(queue) + i

TakenInv ==
    /\ finished \subseteq Taken
    /\ \A t \in Threads : job[t] # NoJob => job[t] \in Taken /\ job[t] \notin finished
    /\ \A t, u \in Threads : job[t] = job[u] => t = u \/ job[t] = NoJob
    /\ \A j \in Taken : j \in finished \/ \E t \in Threads : job[t] = j

JobsInv == user # "freed" => QueueInv /\ TakenInv

\* Nobody uses the pool before all threads have started.
Started == user # "starting" => \A t \in Threads : pc[t] # "init"

\* As long as no job has added another, an empty queue stays empty while the
\* user waits.
WaitInv == user = "wait2" /\ nested = 0 => queue = <<>>

PInv ==
    /\ TypeOK
    /\ JobPlaces
    /\ CountersAgree
    /\ Started
    /\ JobsInv
    /\ WaitInv
    /\ WaitSound
    /\ FreedWhenUnused

(* The invariant of the proof says of jobs what JobsAccounted says.         *)
LEMMA JobsLemma == ASSUME TypeOK, JobsInv PROVE JobsAccounted
<1> SUFFICES ASSUME user # "freed" PROVE
        /\ queue = [i \in 1..Len(queue) |-> added - Len(queue) + i]
        /\ finished \cup Held = Taken
        /\ finished \cap Held = {}
        /\ \A t, u \in Threads : job[t] = job[u] => t = u \/ job[t] = NoJob
  BY DEF JobsAccounted, Taken
<1>1. QueueInv /\ TakenInv
  BY DEF JobsInv
<1>2. queue = [i \in 1..Len(queue) |-> added - Len(queue) + i]
  <2>1. queue \in [1..Len(queue) -> Nat]
    BY DEF TypeOK
  <2>2. QED
    BY <1>1, <2>1 DEF QueueInv
<1>3. NoJob \notin Taken
  BY ThreadPoolAssumption DEF TypeOK, Taken
<1>4. finished \cup Held = Taken /\ finished \cap Held = {}
  BY <1>1, <1>3 DEF TakenInv, Held
<1>5. QED
  BY <1>1, <1>2, <1>4 DEF TakenInv

LEMMA InitPInv == Init => PInv
<1> SUFFICES ASSUME Init PROVE PInv
  OBVIOUS
<1> USE ThreadPoolAssumption DEF Init
<1>1. TypeOK
  <2>1. pc \in [Threads -> Places] /\ user \in UserPlaces
    BY DEF Places, UserPlaces
  <2>2. job \in [Threads -> Nat \cup {NoJob}] /\ queue \in Seq(Nat)
    OBVIOUS
  <2>3. finished \in SUBSET Nat /\ keepalive \in BOOLEAN /\ fault \in BOOLEAN
    OBVIOUS
  <2>4. v \in {0, 1} /\ working \in Int /\ alive \in Int /\ added \in Nat /\ nested \in Nat
    OBVIOUS
  <2>5. QED
    BY <2>1, <2>2, <2>3, <2>4 DEF TypeOK
<1>2. CountersAgree
  <2>1. Working = {} /\ Living = {}
    BY DEF Working, Living
  <2>2. QED
    BY <2>1, FS_EmptySet DEF CountersAgree
<1>3. JobsInv
  BY DEF JobsInv, QueueInv, TakenInv, Taken
<1>4. QED
  BY <1>1, <1>2, <1>3 DEF PInv, JobPlaces, Started, WaitInv, WaitSound, FreedWhenUnused
-----------------------------------------------------------------------------
\* Two places that the invariant does not tell apart.
SameClass(p, q) ==
    /\ p \in {"pull", "run", "done"} <=> q \in {"pull", "run", "done"}
    /\ p \in {"unlock", "gone"} <=> q \in {"unlock", "gone"}
    /\ p = "init" <=> q = "init"
    /\ p = "run" <=> q = "run"

\* What the invariant says of jobs and of waiting depends on these only.
jobVars == <<job, queue, user, added, nested, finished, fault>>

(* Moves within a class do not disturb the invariant.                       *)
LEMMA QuietStep ==
    ASSUME PInv, TypeOK', \A t \in Threads : SameClass(pc[t], pc'[t]),
           UNCHANGED <<jobVars, working, alive>>
    PROVE  PInv'
<1> USE DEF PInv, jobVars, SameClass
<1>1. Working' = Working /\ Living' = Living
  BY DEF Working, Living
<1>2. CountersAgree'
  BY <1>1 DEF CountersAgree
<1>3. JobPlaces' /\ Started' /\ FreedWhenUnused'
  BY DEF JobPlaces, Started, FreedWhenUnused
<1>4. JobsInv' /\ WaitInv' /\ WaitSound'
  BY DEF JobsInv, QueueInv, TakenInv, Taken, WaitInv, WaitSound
<1>5. QED
  BY <1>2, <1>3, <1>4

(* A post of the semaphore types and moves nobody out of its class.         *)
LEMMA PostLemma ==
    ASSUME TypeOK, thpool_bsem_post
    PROVE  /\ pc' \in [Threads -> Places] /\ v' \in {0, 1}
           /\ \A t \in Threads : SameClass(pc[t], pc'[t])
BY DEF TypeOK, thpool_bsem_post, Asleep, Goto, Places, SameClass

LEMMA QuietActions ==
    ASSUME PInv, NEW t \in Threads,
           \/ thpool_bsem_wait(t)
           \/ SpuriousWakeup(t)
           \/ ThreadLoops(t)
           \/ ThreadAwake(t) /\ ~keepalive
           \/ DestroyPolls
    PROVE  PInv'
<1>1. TypeOK
  BY DEF PInv
<1>2. UNCHANGED <<jobVars, working, alive>>
  BY DEF thpool_bsem_wait, SpuriousWakeup, ThreadLoops, ThreadAwake, DestroyPolls, jobVars
<1>3. /\ pc' \in [Threads -> Places] /\ v' \in {0, 1} /\ keepalive' \in BOOLEAN
      /\ \A u \in Threads : SameClass(pc[u], pc'[u])
  <2>1. CASE thpool_bsem_wait(t)
    BY <1>1, <2>1 DEF thpool_bsem_wait, Goto, TypeOK, Places, SameClass
  <2>2. CASE SpuriousWakeup(t)
    BY <1>1, <2>2 DEF SpuriousWakeup, Goto, TypeOK, Places, SameClass
  <2>3. CASE ThreadLoops(t)
    BY <1>1, <2>3 DEF ThreadLoops, Goto, TypeOK, Places, SameClass
  <2>4. CASE ThreadAwake(t) /\ ~keepalive
    BY <1>1, <2>4 DEF ThreadAwake, Goto, TypeOK, Places, SameClass
  <2>5. CASE DestroyPolls
    BY <1>1, <2>5 DEF DestroyPolls, thpool_bsem_post_all, TypeOK, Places, SameClass
  <2>6. QED
    BY <2>1, <2>2, <2>3, <2>4, <2>5
<1>4. TypeOK'
  BY <1>1, <1>2, <1>3 DEF TypeOK, jobVars
<1>5. QED
  BY <1>2, <1>3, <1>4, QuietStep
-----------------------------------------------------------------------------
(* Threads that come and go, and those that work, move one counter by one.  *)
LEMMA CountersLemma ==
    ASSUME TypeOK, CountersAgree, NEW t \in Threads, NEW place \in Places, Goto(t, place)
    PROVE  /\ Working' = IF place \in {"pull", "run", "done"}
                         THEN Working \cup {t} ELSE Working \ {t}
           /\ Living' = IF place \notin {"init", "unlock", "gone"}
                        THEN Living \cup {t} ELSE Living \ {t}
           /\ IsFiniteSet(Working) /\ IsFiniteSet(Living)
           /\ Cardinality(Working \cup {t}) = IF t \in Working THEN working ELSE working + 1
           /\ Cardinality(Working \ {t}) = IF t \in Working THEN working - 1 ELSE working
           /\ Cardinality(Living \cup {t}) = IF t \in Living THEN alive ELSE alive + 1
           /\ Cardinality(Living \ {t}) = IF t \in Living THEN alive - 1 ELSE alive
<1>1. IsFiniteSet(Working) /\ IsFiniteSet(Living)
  BY FS_Subset, ThreadPoolAssumption DEF Working, Living
<1>2. /\ Working' = IF place \in {"pull", "run", "done"}
                    THEN Working \cup {t} ELSE Working \ {t}
      /\ Living' = IF place \notin {"init", "unlock", "gone"}
                   THEN Living \cup {t} ELSE Living \ {t}
  BY DEF Goto, TypeOK, Working, Living
<1>3. QED
  BY <1>1, <1>2, FS_AddElement, FS_RemoveElement DEF CountersAgree

\* ThreadStarts, ThreadAwake, ThreadDone and ThreadExits: the thread does not
\* touch any job.
LEMMA CountingStep ==
    ASSUME PInv, ~fault, NEW t \in Threads,
           \/ ThreadStarts(t)
           \/ ThreadAwake(t) /\ keepalive
           \/ ThreadDone(t)
           \/ ThreadExits(t)
    PROVE  PInv'
<1> USE DEF PInv
<1>1. UNCHANGED <<jobVars, v, keepalive>>
  BY DEF ThreadStarts, ThreadAwake, ThreadDone, ThreadExits, jobVars
<1>2. PICK place \in Places :
         /\ Goto(t, place)
         /\ place \notin {"init", "run"} /\ pc[t] # "run"
         /\ pc[t] \in {"unlock", "gone"} => place \in {"unlock", "gone"}
  BY DEF ThreadStarts, ThreadAwake, ThreadDone, ThreadExits, Places
<1>3. TypeOK'
  <2>1. pc' \in [Threads -> Places]
    BY <1>2 DEF TypeOK, Goto
  <2>2. working' \in Int /\ alive' \in Int
    BY DEF TypeOK, ThreadStarts, ThreadAwake, ThreadDone, ThreadExits
  <2>3. QED
    BY <1>1, <2>1, <2>2 DEF TypeOK, jobVars
<1>4. CountersAgree'
  <2>1. CASE ThreadStarts(t)
    <3>1. pc[t] = "init" /\ Goto(t, "loop") /\ alive' = alive + 1 /\ working' = working
      BY <2>1 DEF ThreadStarts
    <3>2. t \notin Working /\ t \notin Living /\ "loop" \in Places
      BY <3>1 DEF Working, Living, Places
    <3>3. Working' = Working \ {t} /\ Living' = Living \cup {t}
      BY <3>1, <3>2, CountersLemma
    <3>4. QED
      BY <3>1, <3>2, <3>3, CountersLemma DEF CountersAgree
  <2>2. CASE ThreadAwake(t) /\ keepalive
    <3>1. pc[t] = "token" /\ Goto(t, "pull") /\ working' = working + 1 /\ alive' = alive
      BY <2>2 DEF ThreadAwake
    <3>2. t \notin Working /\ t \in Living /\ "pull" \in Places
      BY <3>1 DEF Working, Living, Places
    <3>3. Working' = Working \cup {t} /\ Living' = Living \cup {t}
      BY <3>1, <3>2, CountersLemma
    <3>4. QED
      BY <3>1, <3>2, <3>3, CountersLemma DEF CountersAgree
  <2>3. CASE ThreadDone(t)
    <3>1. pc[t] = "done" /\ Goto(t, "loop") /\ working' = working - 1 /\ alive' = alive
      BY <2>3 DEF ThreadDone
    <3>2. t \in Working /\ t \in Living /\ "loop" \in Places
      BY <3>1 DEF Working, Living, Places
    <3>3. Working' = Working \ {t} /\ Living' = Living \cup {t}
      BY <3>1, <3>2, CountersLemma
    <3>4. QED
      BY <3>1, <3>2, <3>3, CountersLemma DEF CountersAgree
  <2>4. CASE ThreadExits(t) /\ pc[t] = "exit"
    <3>1. Goto(t, "unlock") /\ working' = working /\ alive' = alive - 1
      BY <2>4 DEF ThreadExits
    <3>2. t \notin Working /\ t \in Living /\ "unlock" \in Places
      BY <2>4 DEF Working, Living, Places
    <3>3. Working' = Working \ {t} /\ Living' = Living \ {t}
      BY <3>1, <3>2, CountersLemma
    <3>4. QED
      BY <3>1, <3>2, <3>3, CountersLemma DEF CountersAgree
  <2>5. CASE ThreadExits(t) /\ pc[t] # "exit"
    <3>1. pc[t] = "unlock" /\ Goto(t, "gone") /\ working' = working /\ alive' = alive
      BY <2>5 DEF ThreadExits
    <3>2. t \notin Working /\ t \notin Living /\ "gone" \in Places
      BY <3>1 DEF Working, Living, Places
    <3>3. Working' = Working \ {t} /\ Living' = Living \ {t}
      BY <3>1, <3>2, CountersLemma
    <3>4. QED
      BY <3>1, <3>2, <3>3, CountersLemma DEF CountersAgree
  <2>6. QED
    BY <2>1, <2>2, <2>3, <2>4, <2>5
<1>5. JobPlaces' /\ Started' /\ FreedWhenUnused'
  BY <1>1, <1>2 DEF jobVars, Goto, TypeOK, JobPlaces, Started, FreedWhenUnused
<1>6. JobsInv' /\ WaitInv' /\ WaitSound'
  BY <1>1 DEF jobVars, JobsInv, QueueInv, TakenInv, Taken, WaitInv, WaitSound
<1>7. QED
  BY <1>3, <1>4, <1>5, <1>6
-----------------------------------------------------------------------------
(* A push makes the queue one longer and takes no job out of it.            *)
LEMMA PushLemma ==
    ASSUME TypeOK, thpool_jobqueue_push
    PROVE  /\ queue' \in Seq(Nat) /\ added' \in Nat
           /\ Taken' = Taken
           /\ QueueInv => QueueInv'
<1>1. queue' = Append(queue, added + 1) /\ added' = added + 1
  BY DEF thpool_jobqueue_push
<1>2. /\ queue' \in Seq(Nat) /\ added' \in Nat
      /\ Len(queue') = Len(queue) + 1
      /\ Len(queue) \in Nat
  BY <1>1 DEF TypeOK
<1>3. Taken' = Taken
  BY <1>1, <1>2 DEF Taken, TypeOK
<1>4. ASSUME QueueInv, NEW i \in 1..Len(queue') PROVE queue'[i] = added' - Len(queue') + i
  <2>1. CASE i = Len(queue) + 1
    BY <1>1, <1>2, <2>1 DEF TypeOK
  <2>2. CASE i \in 1..Len(queue)
    BY <1>1, <1>2, <1>4, <2>2 DEF TypeOK, QueueInv
  <2>3. QED
    BY <1>2, <2>1, <2>2
<1>5. QED
  BY <1>1, <1>2, <1>3, <1>4 DEF QueueInv, TypeOK

(* The user or a job adds work.                                             *)
LEMMA PushStep ==
    ASSUME PInv, ~fault, thpool_jobqueue_push,
           UNCHANGED <<job, working, alive, keepalive, finished, fault>>,
           \/ AtHome /\ user' = "ready" /\ nested' = nested
           \/ user' = user /\ nested' = nested + 1 /\ \E t \in Threads : pc[t] = "run"
    PROVE  PInv'
<1> USE DEF PInv
<1>1. /\ pc' \in [Threads -> Places] /\ v' \in {0, 1}
      /\ \A u \in Threads : SameClass(pc[u], pc'[u])
  BY PostLemma DEF thpool_jobqueue_push
<1>2. user' \in UserPlaces /\ user # "freed" /\ user' # "freed" /\ nested' \in Nat
  BY DEF AtHome, TypeOK, UserPlaces, FreedWhenUnused
<1>3. TypeOK'
  BY <1>1, <1>2, PushLemma DEF TypeOK
<1>4. Working' = Working /\ Living' = Living
  BY <1>1 DEF SameClass, Working, Living
<1>5. CountersAgree'
  BY <1>4 DEF CountersAgree
<1>6. JobPlaces' /\ Started' /\ FreedWhenUnused'
  BY <1>1, <1>2 DEF SameClass, JobPlaces, Started, FreedWhenUnused, AtHome
<1>7. JobsInv'
  <2>1. QueueInv' /\ Taken' = Taken
    BY <1>2, PushLemma DEF JobsInv
  <2>2. TakenInv'
    BY <1>2, <2>1 DEF JobsInv, TakenInv
  <2>3. QED
    BY <2>1, <2>2 DEF JobsInv
<1>8. WaitInv' /\ WaitSound'
  BY DEF TypeOK, WaitInv, WaitSound
<1>9. QED
  BY <1>3, <1>5, <1>6, <1>7, <1>8
-----------------------------------------------------------------------------
(* The post inside a pull: the thread itself goes on to run its job.        *)
LEMMA PullPostLemma ==
    ASSUME TypeOK, NEW t \in Threads, pc[t] = "pull",
           thpool_bsem_post_by(t) \/ (Goto(t, "run") /\ UNCHANGED v)
    PROVE  /\ pc' \in [Threads -> Places] /\ v' \in {0, 1}
           /\ pc'[t] = "run"
           /\ \A u \in Threads : u = t \/ SameClass(pc[u], pc'[u])
           /\ Working' = Working /\ Living' = Living
<1>1. /\ pc' \in [Threads -> Places] /\ v' \in {0, 1}
      /\ pc'[t] = "run"
      /\ \A u \in Threads : u = t \/ SameClass(pc[u], pc'[u])
  BY DEF TypeOK, thpool_bsem_post_by, Asleep, Goto, Places, SameClass
<1>2. Working' = Working /\ Living' = Living
  BY <1>1 DEF Working, Living, SameClass
<1>3. QED
  BY <1>1, <1>2

(* A pull moves the oldest job from the queue into the hands of the thread. *)
LEMMA PullStep ==
    ASSUME PInv, ~fault, NEW t \in Threads, thpool_jobqueue_pull(t)
    PROVE  PInv'
<1> USE DEF PInv
<1>1. /\ pc[t] = "pull" /\ user # "freed"
      /\ UNCHANGED <<working, alive, keepalive, user, added, nested, finished>>
  BY DEF thpool_jobqueue_pull, FreedWhenUnused
<1>2. /\ pc' \in [Threads -> Places] /\ v' \in {0, 1}
      /\ pc'[t] = "run"
      /\ \A u \in Threads : u = t \/ SameClass(pc[u], pc'[u])
      /\ Working' = Working /\ Living' = Living
  BY <1>1, PullPostLemma DEF thpool_jobqueue_pull
<1>3. CountersAgree'
  BY <1>1, <1>2 DEF CountersAgree
<1>4. Started' /\ FreedWhenUnused'
  BY <1>1, <1>2 DEF SameClass, Started, FreedWhenUnused
<1>5. CASE queue = <<>>
  <2>1. fault' = TRUE /\ job' = job /\ queue' = queue
    BY <1>5 DEF thpool_jobqueue_pull
  <2>2. TypeOK'
    BY <1>1, <1>2, <2>1 DEF TypeOK
  <2>3. JobPlaces'
    BY <1>1, <1>2, <2>1 DEF SameClass, JobPlaces
  <2>4. JobsInv' /\ WaitInv' /\ WaitSound'
    BY <1>1, <2>1 DEF JobsInv, QueueInv, TakenInv, Taken, WaitInv, WaitSound
  <2>5. QED
    BY <1>3, <1>4, <2>2, <2>3, <2>4
<1>6. CASE queue # <<>>
  <2> DEFINE j == Head(queue)
             k == added - Len(queue)
  <2>1. /\ fault' = fault /\ queue' = Tail(queue)
        /\ job' = [job EXCEPT ![t] = j]
    BY <1>6 DEF thpool_jobqueue_pull
  <2>2. QueueInv /\ TakenInv
    BY <1>1 DEF JobsInv
  <2>3. /\ Len(queue) \in Nat \ {0} /\ queue[1] = j
        /\ Len(queue') = Len(queue) - 1
        /\ queue' \in Seq(Nat)
        /\ \A i \in 1..Len(queue') : queue'[i] = queue[i + 1]
    BY <1>6, <2>1 DEF TypeOK
  <2>4. /\ j = k + 1 /\ k \in Nat /\ j \in Nat
    BY <2>2, <2>3 DEF QueueInv, TypeOK
  <2>5. TypeOK'
    BY <1>1, <1>2, <2>1, <2>3, <2>4 DEF TypeOK
  <2>6. QueueInv'
    BY <1>1, <2>2, <2>3 DEF QueueInv, TypeOK
  <2>7. Taken = 1..k /\ Taken' = 1..k+1 /\ j \notin Taken /\ Taken' = Taken \cup {j}
    BY <1>1, <2>3, <2>4 DEF Taken, TypeOK
  <2>8. /\ job'[t] = j /\ j # NoJob
        /\ \A u \in Threads : u # t => job'[u] = job[u]
        /\ job[t] = NoJob
    BY <1>1, <2>1, <2>4, ThreadPoolAssumption DEF TypeOK, JobPlaces
  <2>9. TakenInv'
    <3> HIDE DEF j
    <3>1. j \notin finished /\ \A u \in Threads : job[u] # j
      BY <2>2, <2>7, <2>8 DEF TakenInv
    <3>2. finished' \subseteq Taken'
      BY <1>1, <2>2, <2>7 DEF TakenInv
    <3>3. \A u \in Threads : job'[u] # NoJob => job'[u] \in Taken' /\ job'[u] \notin finished'
      BY <1>1, <2>2, <2>7, <2>8, <3>1 DEF TakenInv
    <3>4. \A u, w \in Threads : job'[u] = job'[w] => u = w \/ job'[u] = NoJob
      BY <2>2, <2>8, <3>1 DEF TakenInv
    <3>5. ASSUME NEW i \in Taken' PROVE i \in finished' \/ \E u \in Threads : job'[u] = i
      <4>1. CASE i = j
        BY <2>8, <4>1
      <4>2. CASE i \in Taken
        <5>1. i # NoJob
          BY <4>2, ThreadPoolAssumption DEF Taken, TypeOK
        <5>2. QED
          BY <1>1, <2>2, <2>8, <4>2, <5>1 DEF TakenInv
      <4>3. QED
        BY <2>7, <3>5, <4>1, <4>2
    <3>6. QED
      BY <3>2, <3>3, <3>4, <3>5 DEF TakenInv
  <2>10. JobPlaces'
    BY <1>1, <1>2, <2>1, <2>8 DEF SameClass, JobPlaces
  <2>11. WaitInv' /\ WaitSound'
    BY <1>1, <1>6 DEF WaitInv, WaitSound
  <2>12. QED
    BY <1>3, <1>4, <2>5, <2>6, <2>9, <2>10, <2>11 DEF JobsInv
<1>7. QED
  BY <1>5, <1>6

(* A job that returns is finished and in nobody's hands.                    *)
LEMMA ReturnStep ==
    ASSUME PInv, ~fault, NEW t \in Threads, JobReturns(t)
    PROVE  PInv'
<1> USE DEF PInv
<1>1. /\ pc[t] = "run" /\ user # "freed" /\ Goto(t, "done")
      /\ finished' = finished \cup {job[t]}
      /\ job' = [job EXCEPT ![t] = NoJob]
      /\ UNCHANGED <<queue, v, working, alive, keepalive, user, added, nested, fault>>
  BY DEF JobReturns, FreedWhenUnused
<1>2. job[t] # NoJob /\ QueueInv /\ TakenInv
  BY <1>1 DEF JobPlaces, JobsInv
<1>3. job[t] \in Nat
  BY <1>2 DEF TypeOK
<1>4. TypeOK'
  <2>1. pc' \in [Threads -> Places]
    BY <1>1 DEF Goto, TypeOK, Places
  <2>2. job' \in [Threads -> Nat \cup {NoJob}] /\ finished' \in SUBSET Nat
    BY <1>1, <1>3 DEF TypeOK
  <2>3. QED
    BY <1>1, <2>1, <2>2 DEF TypeOK
<1>5. Working' = Working /\ Living' = Living
  BY <1>1 DEF Working, Living, Goto, TypeOK
<1>6. CountersAgree'
  BY <1>1, <1>5 DEF CountersAgree
<1>7. JobPlaces' /\ Started' /\ FreedWhenUnused'
  BY <1>1 DEF Goto, TypeOK, JobPlaces, Started, FreedWhenUnused
<1>8. /\ QueueInv' /\ Taken' = Taken
      /\ job'[t] = NoJob /\ \A u \in Threads : u # t => job'[u] = job[u]
  BY <1>1 DEF JobsInv, QueueInv, Taken, TypeOK
<1>9. TakenInv'
  <2>1. finished' \subseteq Taken'
    BY <1>1, <1>2, <1>8 DEF TakenInv
  <2>2. \A u \in Threads : job'[u] # NoJob => job'[u] \in Taken' /\ job'[u] \notin finished'
    BY <1>1, <1>2, <1>8 DEF TakenInv
  <2>3. \A u, w \in Threads : job'[u] = job'[w] => u = w \/ job'[u] = NoJob
    BY <1>2, <1>8 DEF TakenInv
  <2>4. \A i \in Taken' : i \in finished' \/ \E u \in Threads : job'[u] = i
    BY <1>1, <1>2, <1>8 DEF TakenInv
  <2>5. QED
    BY <2>1, <2>2, <2>3, <2>4 DEF TakenInv
<1>10. WaitInv' /\ WaitSound'
  <2>1. WaitInv'
    BY <1>1 DEF WaitInv
  <2>2. ASSUME user = "waited", nested = 0 PROVE finished' = 1..added
    <3>1. Len(queue) \in Nat /\ added \in Nat /\ Taken \subseteq 1..added
      BY DEF TypeOK, Taken
    <3>2. finished = 1..added /\ job[t] \in 1..added
      BY <1>2, <2>2, <3>1 DEF WaitSound, TakenInv
    <3>3. QED
      BY <1>1, <3>2
  <2>3. QED
    BY <1>1, <2>1, <2>2 DEF WaitSound
<1>11. QED
  BY <1>4, <1>6, <1>7, <1>8, <1>9, <1>10 DEF JobsInv
-----------------------------------------------------------------------------
(* When nobody works all jobs taken are finished.                           *)
LEMMA IdleLemma ==
    ASSUME PInv, user # "freed", working = 0
    PROVE  finished = Taken
<1>1. IsFiniteSet(Working)
  BY FS_Subset, ThreadPoolAssumption DEF Working
<1>2. Working = {}
  BY <1>1, FS_EmptySet DEF PInv, CountersAgree
<1>3. \A t \in Threads : job[t] = NoJob
  BY <1>2 DEF PInv, JobPlaces, Working
<1>4. NoJob \notin Taken
  BY ThreadPoolAssumption DEF Taken, PInv, TypeOK
<1>5. QED
  BY <1>3, <1>4 DEF PInv, JobsInv, TakenInv

(* The steps of the user's thread that add no job.                          *)
LEMMA UserSteps ==
    ASSUME PInv, ~fault, thpool_init \/ thpool_wait \/ thpool_destroy \/ DestroyFrees
    PROVE  PInv'
<1> USE DEF PInv
<1>1. UNCHANGED <<pc, job, working, alive, added, nested, finished, fault>>
  BY DEF thpool_init, thpool_wait, thpool_destroy, DestroyFrees
<1>2. /\ user' \in UserPlaces /\ keepalive' \in BOOLEAN /\ v' \in {0, 1}
      /\ queue' \in Seq(Nat)
      /\ user # "freed"
  <2>1. user' \in UserPlaces /\ user # "freed"
    BY DEF thpool_init, thpool_wait, thpool_destroy, DestroyFrees, UserPlaces, AtHome
  <2>2. v' \in {0, 1} /\ queue' \in Seq(Nat)
    <3>1. (v' = v \/ v' = 0) /\ (queue' = queue \/ queue' = <<>>)
      BY DEF thpool_init, thpool_wait, thpool_destroy, DestroyFrees
    <3>2. <<>> \in Seq(Nat)
      BY EmptySeq
    <3>3. QED
      BY <3>1, <3>2 DEF TypeOK
  <2>3. keepalive' \in BOOLEAN
    BY DEF thpool_init, thpool_wait, thpool_destroy, DestroyFrees, TypeOK
  <2>4. QED
    BY <2>1, <2>2, <2>3
<1>3. TypeOK'
  BY <1>1, <1>2 DEF TypeOK
<1>4. JobPlaces' /\ CountersAgree'
  BY <1>1 DEF JobPlaces, CountersAgree, Working, Living
<1>5. IsFiniteSet(Threads) /\ Living \subseteq Threads
  BY ThreadPoolAssumption DEF Living
<1>6. Started'
  <2>1. CASE thpool_init
    <3>1. Cardinality(Living) = Cardinality(Threads)
      BY <2>1 DEF thpool_init, CountersAgree
    <3>2. Living = Threads
      BY <1>5, <3>1, FS_Subset
    <3>3. QED
      BY <1>1, <3>2 DEF Started, Living
  <2>2. CASE ~thpool_init
    BY <1>1, <2>2 DEF thpool_wait, thpool_destroy, DestroyFrees, AtHome, Started
  <2>3. QED
    BY <2>1, <2>2
<1>7. JobsInv'
  BY <1>1, <1>2 DEF thpool_init, thpool_wait, thpool_destroy, DestroyFrees,
                    JobsInv, QueueInv, TakenInv, Taken
<1>8. WaitInv'
  BY <1>1 DEF thpool_init, thpool_wait, thpool_destroy, DestroyFrees, AtHome, WaitInv
<1>9. WaitSound'
  <2>1. CASE user' = "waited" /\ nested = 0
    <3>1. user = "wait2" /\ working = 0
      BY <2>1 DEF thpool_init, thpool_wait, thpool_destroy, DestroyFrees, AtHome
    <3>2. finished = Taken /\ queue = <<>>
      BY <2>1, <3>1, IdleLemma DEF WaitInv
    <3>3. Taken = 1..added
      BY <3>2 DEF Taken, TypeOK
    <3>4. QED
      BY <1>1, <3>2, <3>3 DEF WaitSound
  <2>2. QED
    BY <1>1, <2>1 DEF WaitSound
<1>10. FreedWhenUnused'
  <2>1. CASE DestroyFrees
    <3>1. alive = 0 /\ user = "ending"
      BY <2>1 DEF DestroyFrees
    <3>2. IsFiniteSet(Living)
      BY <1>5, FS_Subset
    <3>3. Living = {}
      BY <3>1, <3>2, FS_EmptySet DEF CountersAgree
    <3>4. QED
      BY <1>1, <3>1, <3>3 DEF Living, Started, FreedWhenUnused
  <2>2. CASE ~DestroyFrees
    BY <2>2 DEF thpool_init, thpool_wait, thpool_destroy, AtHome, FreedWhenUnused
  <2>3. QED
    BY <2>1, <2>2
<1>11. QED
  BY <1>3, <1>4, <1>6, <1>7, <1>8, <1>9, <1>10
-----------------------------------------------------------------------------
LEMMA NextPInv == PInv /\ [Next]_vars => PInv'
<1> SUFFICES ASSUME PInv, [Next]_vars PROVE PInv'
  OBVIOUS
<1>1. ASSUME ~fault, NEW t \in Threads, ThreadStep(t) PROVE PInv'
  <2>1. CASE ThreadAwake(t)
    BY <1>1, <2>1, CountingStep, QuietActions
  <2>2. CASE ThreadStarts(t) \/ ThreadDone(t) \/ ThreadExits(t)
    BY <1>1, <2>2, CountingStep
  <2>3. CASE ThreadLoops(t) \/ thpool_bsem_wait(t)
    BY <1>1, <2>3, QuietActions
  <2>4. CASE thpool_jobqueue_pull(t)
    BY <1>1, <2>4, PullStep
  <2>5. CASE JobReturns(t)
    BY <1>1, <2>5, ReturnStep
  <2>6. QED
    BY <1>1, <2>1, <2>2, <2>3, <2>4, <2>5 DEF ThreadStep
<1>2. ASSUME ~fault, NEW t \in Threads, SpuriousWakeup(t) PROVE PInv'
  BY <1>2, QuietActions
<1>3. ASSUME ~fault, NEW t \in Threads, JobAddsWork(t) PROVE PInv'
  BY <1>3, PushStep DEF JobAddsWork
<1>4. ASSUME ~fault, thpool_add_work PROVE PInv'
  BY <1>4, PushStep DEF thpool_add_work
<1>5. ASSUME ~fault, DestroyPolls PROVE PInv'
  <2>1. PICK t \in Threads : TRUE
    BY ThreadPoolAssumption
  <2>2. QED
    BY <1>5, <2>1, QuietActions
<1>6. ASSUME ~fault, thpool_init \/ thpool_wait \/ thpool_destroy \/ DestroyFrees
      PROVE PInv'
  BY <1>6, UserSteps
<1>7. CASE UNCHANGED vars
  BY <1>7 DEF vars, PInv, TypeOK, JobPlaces, CountersAgree, Working, Living, Started, JobsInv,
              QueueInv, TakenInv, Taken, WaitInv, WaitSound, FreedWhenUnused
<1>8. QED
  BY <1>1, <1>2, <1>3, <1>4, <1>5, <1>6, <1>7 DEF Next

(* The inductive invariant.                                                 *)
THEOREM PoolInvariance == Spec => []PInv
BY InitPInv, NextPInv, PTL DEF Spec

(* Every variable of the pool keeps its type; the semaphore stays binary.   *)
THEOREM PoolTypeCorrect == Spec => []TypeOK
<1>1. PInv => TypeOK
  BY DEF PInv
<1>2. QED
  BY <1>1, PoolInvariance, PTL

(* No job is lost, run twice or run out of order, for any number of threads *)
(* and jobs (thpool_jobqueue_push, thpool_jobqueue_pull, thpool_thread_do). *)
THEOREM JobsAccountedFor == Spec => []JobsAccounted
<1>1. PInv => JobsAccounted
  BY JobsLemma DEF PInv
<1>2. QED
  BY <1>1, PoolInvariance, PTL

(* The counters that are polled without a lock are exact.                   *)
THEOREM CountersExact == Spec => []CountersAgree
<1>1. PInv => CountersAgree
  BY DEF PInv
<1>2. QED
  BY <1>1, PoolInvariance, PTL

(* thpool_wait() returns only when all jobs are finished, unless a job adds *)
(* another.                                                                 *)
THEOREM WaitIsSound == Spec => []WaitSound
<1>1. PInv => WaitSound
  BY DEF PInv
<1>2. QED
  BY <1>1, PoolInvariance, PTL

(* thpool_destroy() frees the pool only when no thread uses its queue.      *)
THEOREM FreedAfterUse == Spec => []FreedWhenUnused
<1>1. PInv => FreedWhenUnused
  BY DEF PInv
<1>2. QED
  BY <1>1, PoolInvariance, PTL
-----------------------------------------------------------------------------
(* Pulling a job from a queue leaves it empty when it was the only one.     *)
LEMMA PulledQueue ==
    ASSUME TypeOK, queue # <<>>
    PROVE  /\ Len(queue) \in Nat
           /\ Len(queue) > 1 <=> Tail(queue) # <<>>
<1>1. queue \in Seq(Nat)
  BY DEF TypeOK
<1>2. /\ Len(queue) \in Nat /\ Tail(queue) \in Seq(Nat)
      /\ Len(Tail(queue)) = Len(queue) - 1
  BY <1>1, HeadTailProperties, LenProperties
<1>3. Tail(queue) = <<>> <=> Len(Tail(queue)) = 0
  BY <1>2, EmptySeq
<1>4. Len(queue) # 0
  BY <1>1, EmptySeq
<1>5. \A n \in Nat : n # 0 => (n > 1 <=> n - 1 # 0)
  OBVIOUS
<1>6. QED
  BY <1>2, <1>3, <1>4, <1>5, Zenon

(* A post leaves no sleeper without somebody who comes for the semaphore.   *)
LEMMA PostWakes ==
    ASSUME TypeOK, thpool_bsem_post
    PROVE  /\ v' = 1
           /\ Asleep' # {} => \E t \in Threads : pc'[t] = "wait"
BY DEF TypeOK, thpool_bsem_post, Asleep, Goto

(* No wakeup is lost, for any number of threads and jobs, although the      *)
(* semaphore remembers only one post (thpool_bsem_post, thpool_bsem_wait,   *)
(* thpool_jobqueue_pull).                                                   *)
THEOREM NoWakeupIsLost == Spec => []NoLostWakeup
<1>1. Init => NoLostWakeup
  BY DEF Init, NoLostWakeup
<1>2. TypeOK /\ NoLostWakeup /\ [Next]_vars => NoLostWakeup'
  <2> SUFFICES ASSUME TypeOK, NoLostWakeup, [Next]_vars, ~fault', keepalive'
               PROVE  /\ queue' # <<>> => v' = 1 \/ \E t \in Threads : pc'[t] \in {"token", "pull"}
                      /\ v' = 1 /\ Asleep' # {} => \E t \in Threads : pc'[t] = "wait"
    BY DEF NoLostWakeup
  <2>1. CASE thpool_jobqueue_push
    BY <2>1, PostWakes DEF thpool_jobqueue_push
  <2>2. ASSUME ~fault, NEW t \in Threads, thpool_jobqueue_pull(t)
        PROVE  /\ queue' # <<>> => v' = 1
               /\ v' = 1 /\ Asleep' # {} => \E u \in Threads : pc'[u] = "wait"
    <3>1. queue # <<>> /\ queue' = Tail(queue) /\ keepalive
      BY <2>2 DEF thpool_jobqueue_pull
    <3>2. CASE PostsAgain
      BY <2>2, <3>1, <3>2
         DEF thpool_jobqueue_pull, thpool_bsem_post_by, TypeOK, Asleep, Goto
    <3>3. CASE ~PostsAgain
      <4>1. queue' = <<>>
        BY <3>1, <3>3, PulledQueue DEF PostsAgain
      <4>2. Goto(t, "run") /\ v' = v /\ pc[t] = "pull"
        BY <2>2, <3>1, <3>3 DEF thpool_jobqueue_pull
      <4>3. QED
        BY <2>2, <3>1, <4>1, <4>2 DEF NoLostWakeup, TypeOK, Asleep, Goto
    <3>4. QED
      BY <3>2, <3>3
  <2>3. ASSUME ~fault, NEW t \in Threads,
               \/ ThreadStarts(t) \/ ThreadLoops(t) \/ thpool_bsem_wait(t) \/ ThreadAwake(t)
               \/ JobReturns(t) \/ ThreadDone(t) \/ ThreadExits(t) \/ SpuriousWakeup(t)
        PROVE  /\ queue' # <<>> => v' = 1 \/ \E u \in Threads : pc'[u] \in {"token", "pull"}
               /\ v' = 1 /\ Asleep' # {} => \E u \in Threads : pc'[u] = "wait"
    <3>1. keepalive /\ queue' = queue
      BY <2>3 DEF ThreadStarts, ThreadLoops, thpool_bsem_wait, ThreadAwake, JobReturns,
                  ThreadDone, ThreadExits, SpuriousWakeup
    <3>2. CASE thpool_bsem_wait(t)
      BY <2>3, <3>1, <3>2 DEF thpool_bsem_wait, NoLostWakeup, TypeOK, Asleep, Goto
    <3>3. CASE ThreadAwake(t)
      BY <2>3, <3>1, <3>3 DEF ThreadAwake, NoLostWakeup, TypeOK, Asleep, Goto
    <3>4. CASE ThreadStarts(t) \/ ThreadLoops(t)
      BY <2>3, <3>1, <3>4 DEF ThreadStarts, ThreadLoops, NoLostWakeup, TypeOK, Asleep, Goto
    <3>5. CASE JobReturns(t) \/ ThreadDone(t)
      BY <2>3, <3>1, <3>5 DEF JobReturns, ThreadDone, NoLostWakeup, TypeOK, Asleep, Goto
    <3>6. CASE ThreadExits(t) \/ SpuriousWakeup(t)
      BY <2>3, <3>1, <3>6 DEF ThreadExits, SpuriousWakeup, NoLostWakeup, TypeOK, Asleep, Goto
    <3>7. QED
      BY <2>3, <3>2, <3>3, <3>4, <3>5, <3>6
  <2>4. CASE ~fault /\ (thpool_init \/ thpool_wait)
    BY <2>4 DEF thpool_init, thpool_wait, NoLostWakeup, Asleep
  <2>5. CASE DestroyFrees
    BY <2>5 DEF DestroyFrees
  <2>6. CASE DestroyPolls
    BY <2>6 DEF DestroyPolls, thpool_bsem_post_all, TypeOK, Asleep
  <2>7. CASE thpool_destroy
    BY <2>7 DEF thpool_destroy
  <2>8. CASE UNCHANGED vars
    BY <2>8 DEF vars, NoLostWakeup, Asleep
  <2>9. QED
    BY <2>1, <2>2, <2>3, <2>4, <2>5, <2>6, <2>7, <2>8
       DEF Next, ThreadStep, JobAddsWork, thpool_add_work
<1>3. QED
  BY <1>1, <1>2, PoolTypeCorrect, PTL DEF Spec
-----------------------------------------------------------------------------
\* With a single thread every post stands for a job of its own.
OneThread == \A t, u \in Threads : t = u

Coming(t) == pc[t] \in {"token", "pull"}

PostsBacked ==
    /\ \A t \in Threads : pc[t] = "pull" => queue # <<>>
    /\ keepalive => /\ v = 1 => queue # <<>>
                    /\ \A t \in Threads : Coming(t) => queue # <<>>
                    /\ \A t \in Threads : Coming(t) /\ v = 1 => Len(queue) > 1

\* thpool_destroy() has told the threads to leave.
Closing == user \in {"ending", "freed"} => ~keepalive

LEMMA ClosingInv == Spec => []Closing
<1>1. Init => Closing
  BY DEF Init, Closing
<1>2. Closing /\ [Next]_vars => Closing'
  BY DEF Closing, Next, vars, ThreadStep, ThreadStarts, ThreadLoops, thpool_bsem_wait,
         ThreadAwake, thpool_jobqueue_pull, JobReturns, ThreadDone, ThreadExits,
         SpuriousWakeup, JobAddsWork, AtHome, thpool_init, thpool_add_work, thpool_wait,
         thpool_destroy, DestroyPolls, DestroyFrees
<1>3. QED
  BY <1>1, <1>2, PTL DEF Spec

(* A pool of one thread never pulls from an empty queue.  The run with two  *)
(* threads shows that the assumption is needed.                             *)
THEOREM OneThreadIsSafe == OneThread /\ Spec => []NoEmptyPull
<1> SUFFICES ASSUME OneThread PROVE Spec => []NoEmptyPull
  OBVIOUS
<1>1. Init => PostsBacked /\ NoEmptyPull
  BY DEF Init, PostsBacked, NoEmptyPull, Coming
<1>2. TypeOK /\ FreedWhenUnused' /\ Closing /\ PostsBacked /\ NoEmptyPull /\ [Next]_vars => PostsBacked' /\ NoEmptyPull'
  <2> SUFFICES ASSUME TypeOK, FreedWhenUnused', Closing, PostsBacked, NoEmptyPull, [Next]_vars
               PROVE  PostsBacked' /\ NoEmptyPull'
    OBVIOUS
  <2>1. ASSUME thpool_jobqueue_push, fault' = fault, keepalive' = keepalive
        PROVE  PostsBacked' /\ NoEmptyPull'
    <3>1. queue' # <<>> /\ Len(queue') = Len(queue) + 1 /\ Len(queue) \in Nat
      BY <2>1 DEF thpool_jobqueue_push, TypeOK
    <3>2. \A t \in Threads : Coming(t)' <=> Coming(t)
      BY <2>1 DEF thpool_jobqueue_push, thpool_bsem_post, TypeOK, Asleep, Goto, Coming
    <3>3. queue # <<>> => Len(queue) > 0
      BY DEF TypeOK
    <3>4. QED
      BY <2>1, <3>1, <3>2, <3>3 DEF PostsBacked, NoEmptyPull
  <2>2. ASSUME NEW t \in Threads, thpool_jobqueue_pull(t) PROVE PostsBacked' /\ NoEmptyPull'
    <3>1. /\ queue # <<>> /\ queue' = Tail(queue) /\ keepalive' = keepalive /\ fault' = fault
          /\ pc[t] = "pull"
      BY <2>2 DEF thpool_jobqueue_pull, PostsBacked
    <3>2. \A u \in Threads : u = t
      BY DEF OneThread
    <3>3. Asleep = {}
      BY <3>1, <3>2 DEF Asleep
    <3>4. pc'[t] = "run" /\ v' = IF PostsAgain THEN 1 ELSE v
      BY <2>2, <3>1, <3>3 DEF thpool_jobqueue_pull, thpool_bsem_post_by, Goto, TypeOK
    <3>5. Len(queue) \in Nat /\ (Len(queue) > 1 => queue' # <<>>)
      BY <3>1, PulledQueue
    <3>6. QED
      BY <3>1, <3>2, <3>4, <3>5 DEF PostsBacked, NoEmptyPull, Coming, PostsAgain, TypeOK
  <2>3. ASSUME NEW t \in Threads,
               \/ ThreadStarts(t) \/ ThreadLoops(t) \/ thpool_bsem_wait(t) \/ ThreadAwake(t)
               \/ JobReturns(t) \/ ThreadDone(t) \/ ThreadExits(t) \/ SpuriousWakeup(t)
        PROVE  PostsBacked' /\ NoEmptyPull'
    <3>1. UNCHANGED <<queue, keepalive, fault>>
      BY <2>3 DEF ThreadStarts, ThreadLoops, thpool_bsem_wait, ThreadAwake, JobReturns,
                  ThreadDone, ThreadExits, SpuriousWakeup
    <3>2. \A u \in Threads : u = t
      BY DEF OneThread
    <3>3. CASE thpool_bsem_wait(t)
      BY <3>1, <3>2, <3>3 DEF thpool_bsem_wait, PostsBacked, NoEmptyPull, Coming, TypeOK, Goto
    <3>4. CASE ThreadAwake(t)
      BY <3>1, <3>2, <3>4 DEF ThreadAwake, PostsBacked, NoEmptyPull, Coming, TypeOK, Goto
    <3>5. ASSUME \/ ThreadStarts(t) \/ ThreadLoops(t) \/ JobReturns(t) \/ ThreadDone(t)
                 \/ ThreadExits(t) \/ SpuriousWakeup(t)
          PROVE  PostsBacked' /\ NoEmptyPull'
      <4>1. v' = v
        BY <3>5 DEF ThreadStarts, ThreadLoops, JobReturns, ThreadDone, ThreadExits, SpuriousWakeup
      <4>2. \E place \in {"loop", "wait", "exit", "done", "unlock", "gone"} : Goto(t, place)
        BY <3>5 DEF ThreadStarts, ThreadLoops, JobReturns, ThreadDone, ThreadExits, SpuriousWakeup
      <4>3. pc'[t] \notin {"token", "pull"}
        BY <4>2 DEF Goto, TypeOK
      <4>4. \A u \in Threads : pc'[u] # "pull" /\ ~Coming(u)'
        BY <3>2, <4>3 DEF Coming
      <4>5. QED
        BY <3>1, <4>1, <4>4 DEF PostsBacked, NoEmptyPull
    <3>6. QED
      BY <2>3, <3>3, <3>4, <3>5
  <2>4. CASE thpool_init \/ thpool_wait
    BY <2>4 DEF thpool_init, thpool_wait, PostsBacked, NoEmptyPull, Coming
  <2>5. CASE DestroyFrees
    <3>1. v' = 0 /\ fault' = fault /\ user' = "freed"
      BY <2>5 DEF DestroyFrees
    <3>2. \A t \in Threads : pc'[t] # "pull" /\ ~Coming(t)'
      BY <3>1 DEF FreedWhenUnused, Coming
    <3>3. QED
      BY <3>1, <3>2 DEF PostsBacked, NoEmptyPull
  <2>6. CASE DestroyPolls
    <3>1. ~keepalive' /\ fault' = fault /\ queue' = queue
      BY <2>6 DEF DestroyPolls, Closing
    <3>2. \A t \in Threads : pc'[t] = "pull" => pc[t] = "pull"
      BY <2>6 DEF DestroyPolls, thpool_bsem_post_all
    <3>3. QED
      BY <3>1, <3>2 DEF PostsBacked, NoEmptyPull
  <2>7. CASE thpool_destroy
    BY <2>7 DEF thpool_destroy, PostsBacked, NoEmptyPull, Coming
  <2>8. CASE UNCHANGED vars
    BY <2>8 DEF vars, PostsBacked, NoEmptyPull, Coming
  <2>9. QED
    BY <2>1, <2>2, <2>3, <2>4, <2>5, <2>6, <2>7, <2>8
       DEF Next, ThreadStep, JobAddsWork, thpool_add_work
<1>3. QED
  BY <1>1, <1>2, PoolTypeCorrect, FreedAfterUse, ClosingInv, PTL DEF Spec
-----------------------------------------------------------------------------
(* The steps that JobPool does not see.                                     *)
LEMMA HiddenStep ==
    ASSUME UNCHANGED <<added, queue, job, finished>>, user' = "freed" <=> user = "freed"
    PROVE  UNCHANGED Promise!vars
BY DEF Promise!vars

(* A push adds a job, by whomever it is made.                               *)
LEMMA PushAdds ==
    ASSUME thpool_jobqueue_push, UNCHANGED <<job, finished>>, user # "freed", user' # "freed"
    PROVE  Promise!Add
BY DEF thpool_jobqueue_push, Promise!Add

(* A pull takes the oldest job, for a thread that has none.                 *)
LEMMA PullTakes ==
    ASSUME PInv, ~fault, NEW t \in Threads, thpool_jobqueue_pull(t)
    PROVE  Promise!Take(t) \/ UNCHANGED Promise!vars
<1>1. CASE queue = <<>>
  BY <1>1, HiddenStep DEF thpool_jobqueue_pull
<1>2. CASE queue # <<>>
  <2>1. /\ queue' = Tail(queue) /\ job' = [job EXCEPT ![t] = Head(queue)]
        /\ job[t] = NoJob
    BY <1>2 DEF thpool_jobqueue_pull, PInv, JobPlaces
  <2>2. UNCHANGED <<added, finished, user = "freed">>
    BY DEF thpool_jobqueue_pull
  <2>3. QED
    BY <1>2, <2>1, <2>2 DEF Promise!Take
<1>3. QED
  BY <1>1, <1>2

(* A job that returns finishes, and its thread has no job any more.         *)
LEMMA ReturnFinishes ==
    ASSUME PInv, ~fault, NEW t \in Threads, JobReturns(t)
    PROVE  Promise!Finish(t)
<1>1. /\ job[t] # NoJob
      /\ finished' = finished \cup {job[t]} /\ job' = [job EXCEPT ![t] = NoJob]
  BY DEF JobReturns, PInv, JobPlaces
<1>2. UNCHANGED <<added, queue, user = "freed">>
  BY DEF JobReturns
<1>3. QED
  BY <1>1, <1>2 DEF Promise!Finish

(* When the pool is freed no job runs.                                      *)
LEMMA FreeCloses ==
    ASSUME PInv, DestroyFrees
    PROVE  Promise!Close
<1>1. IsFiniteSet(Living)
  BY FS_Subset, ThreadPoolAssumption DEF Living
<1>2. Living = {}
  BY <1>1, FS_EmptySet DEF DestroyFrees, PInv, CountersAgree
<1>3. \A t \in Threads : job[t] = NoJob
  BY <1>2 DEF Living, PInv, JobPlaces
<1>4. QED
  BY <1>3 DEF DestroyFrees, Promise!Close

(* The pool implements JobPool, for any threads and any number of jobs: its *)
(* semaphore, its places and its unlocked reads refine a queue of jobs of   *)
(* which each is taken once, in order (ImplementsJobPool without fairness). *)
THEOREM PoolImplementsJobPool == Spec => ImplementsJobPool
<1>1. Init => Promise!Init
  BY DEF Init, Promise!Init
<1>2. ASSUME PInv, [Next]_vars PROVE [Promise!Next]_Promise!vars
  <2>1. ASSUME ~fault, NEW t \in Threads, ThreadStep(t) PROVE [Promise!Next]_Promise!vars
    <3>1. CASE thpool_jobqueue_pull(t)
      BY <1>2, <2>1, <3>1, PullTakes DEF Promise!Next
    <3>2. CASE JobReturns(t)
      BY <1>2, <2>1, <3>2, ReturnFinishes DEF Promise!Next
    <3>3. CASE ~thpool_jobqueue_pull(t) /\ ~JobReturns(t)
      BY <2>1, <3>3, HiddenStep DEF ThreadStep, ThreadStarts, ThreadLoops, thpool_bsem_wait,
                                    ThreadAwake, ThreadDone, ThreadExits
    <3>4. QED
      BY <3>1, <3>2, <3>3
  <2>2. ASSUME NEW t \in Threads, SpuriousWakeup(t) PROVE [Promise!Next]_Promise!vars
    BY <2>2, HiddenStep DEF SpuriousWakeup
  <2>3. ASSUME NEW t \in Threads, JobAddsWork(t) PROVE [Promise!Next]_Promise!vars
    BY <1>2, <2>3, PushAdds DEF JobAddsWork, PInv, FreedWhenUnused, Promise!Next
  <2>4. ASSUME thpool_add_work PROVE [Promise!Next]_Promise!vars
    BY <2>4, PushAdds DEF thpool_add_work, AtHome, Promise!Next
  <2>5. ASSUME thpool_init \/ thpool_wait \/ thpool_destroy \/ DestroyPolls
        PROVE [Promise!Next]_Promise!vars
    BY <2>5, HiddenStep DEF thpool_init, thpool_wait, thpool_destroy, DestroyPolls, AtHome
  <2>6. ASSUME DestroyFrees PROVE [Promise!Next]_Promise!vars
    BY <1>2, <2>6, FreeCloses DEF Promise!Next
  <2>7. CASE UNCHANGED vars
    BY <2>7, HiddenStep DEF vars
  <2>8. QED
    BY <1>2, <2>1, <2>2, <2>3, <2>4, <2>5, <2>6, <2>7 DEF Next
<1>3. QED
  BY <1>1, <1>2, PoolInvariance, PTL DEF Spec, ImplementsJobPool, Promise!Spec
=============================================================================

----------------------------- MODULE EventTimers -----------------------------
(***************************************************************************)
(* The timers of src/util/events.c: a queue sorted by time, requests and   *)
(* cancellations by the program's callbacks, and the part of event_wait()  *)
(* that waits for the first timer and runs those that are due.  A timer is *)
(* a (callback, context) pair.                                             *)
(*                                                                         *)
(* The thread that runs the event loop is in one of these phases:          *)
(*   "program"  between two calls of event_wait(), or in a descriptor's    *)
(*              callback: both may request and cancel timers               *)
(*   "poll"     in epoll_wait()                                            *)
(*   "timers"   at the condition of the loop that runs the timers          *)
(*   "callback" in the callback of a timer, which may request and cancel   *)
(*              timers, itself among them                                  *)
(* The clock may advance at any moment.                                    *)
(***************************************************************************)
EXTENDS Integers, Sequences, SequencesExt

CONSTANTS Timers,     \* the (callback, context) pairs
          Delays,     \* the delays that are requested
          MaxTime     \* bound on the clock

ASSUME TimersAssumption ==
    /\ Delays \subseteq Nat /\ IsFiniteSet(Delays) /\ Delays # {}
    /\ MaxTime \in Nat

VARIABLES now,        \* the time of day
          present,    \* event_present: the time of day the loop has cached
          queue,      \* the timer queue, from its head: id and second of each request
          wake,       \* when epoll_wait() times out; Never: when it must not
          phase

vars == <<now, present, queue, wake, phase>>

Never == -1
Horizon == MaxTime + Max(Delays)

Init ==
    /\ now = 0
    /\ present = 0
    /\ queue = <<>>
    /\ wake = Never
    /\ phase = "program"
-----------------------------------------------------------------------------
Tick ==
    /\ now < MaxTime
    /\ now' = now + 1
    /\ UNCHANGED <<present, queue, wake, phase>>

\* Callbacks and the program request and cancel timers.
InProgram == phase \in {"program", "callback"}

\* ring_detach() of the first entry of the pair, if there is one.
Detach(q, t) ==
    LET found == {i \in 1..Len(q) : q[i].id = t}
    IN  IF found = {} THEN q ELSE RemoveAt(q, Min(found))

\* Faulty variant: < for <= when the queue is searched.
Place_first(q, w) == Min({i \in 1..Len(q) : w <= q[i].when} \cup {Len(q) + 1})

\* The place of a request for second w: before the first later one.
Place(q, w) == Min({i \in 1..Len(q) : w < q[i].when} \cup {Len(q) + 1})

event_request_timer(t, d) ==
    /\ InProgram
    /\ present' = now
    /\ LET q == Detach(queue, t)
       IN  queue' = InsertAt(q, Place(q, now + d), [id |-> t, when |-> now + d])
    /\ UNCHANGED <<now, wake, phase>>

event_cancel_timer(t) ==
    /\ InProgram
    /\ queue' = Detach(queue, t)
    /\ UNCHANGED <<now, present, wake, phase>>
-----------------------------------------------------------------------------
\* Faulty variant: the program's argument wins.
Deadline_forgets(delay) == IF delay < 0 THEN Never ELSE now + delay

\* How long epoll_wait() may sleep: until the first timer, but no longer than
\* the argument of event_wait() (negative: for ever) says.
Deadline(delay) ==
    LET limit == IF delay < 0 THEN {} ELSE {now + delay}
        first == IF queue = <<>> THEN {} ELSE {Max({now, queue[1].when})}
    IN  IF limit \cup first = {} THEN Never ELSE Min(limit \cup first)

event_wait(delay) ==
    /\ phase = "program"
    /\ phase' = "poll"
    /\ present' = IF queue = <<>> THEN present ELSE now
    /\ wake' = Deadline(delay)
    /\ UNCHANGED <<now, queue>>

\* epoll_wait() returns: a descriptor is ready, or its time is up.
PollReturns ==
    /\ phase = "poll"
    /\ phase' = "timers"
    /\ present' = now
    /\ UNCHANGED <<now, queue, wake>>

\* A signal interrupts epoll_wait(): event_wait() returns at once.
PollInterrupted ==
    /\ phase = "poll"
    /\ phase' = "program"
    /\ UNCHANGED <<now, present, queue, wake>>

Due == queue # <<>> /\ queue[1].when <= present

\* The timer leaves the queue first, then its callback runs.
TimerRuns ==
    /\ phase = "timers"
    /\ Due
    /\ queue' = Tail(queue)
    /\ phase' = "callback"
    /\ UNCHANGED <<now, present, wake>>

CallbackReturns ==
    /\ phase = "callback"
    /\ phase' = "timers"
    /\ UNCHANGED <<now, present, queue, wake>>

\* No timer is due: the callbacks of the ready descriptors run.
TimersDone ==
    /\ phase = "timers"
    /\ ~Due
    /\ phase' = "program"
    /\ UNCHANGED <<now, present, queue, wake>>
-----------------------------------------------------------------------------
\* The arguments with which event_wait() is called: the manager's and the
\* service processes'.
WaitArguments == {2, -1}

LoopStep ==
    \/ \E delay \in WaitArguments : event_wait(delay)
    \/ TimerRuns
    \/ CallbackReturns
    \/ TimersDone

Next ==
    \/ Tick
    \/ LoopStep
    \/ PollReturns
    \/ PollInterrupted
    \/ \E t \in Timers : event_cancel_timer(t) \/ \E d \in Delays : event_request_timer(t, d)

Spec == Init /\ [][Next]_vars

\* epoll_wait() keeps its time-out: it returns when its time is up, unless a
\* signal interrupts it, which does not happen every time.  It need not return
\* before.  The program keeps calling event_wait() and callbacks return.
Fairness ==
    /\ WF_vars(Tick)
    /\ WF_vars(LoopStep)
    /\ SF_vars(PollReturns /\ wake # Never /\ now >= wake)

FairSpec == Spec /\ Fairness
-----------------------------------------------------------------------------
\* The queue is sorted: so many entries are for seconds before w, and the
\* timers for second w follow them.
Before(q, w) == Cardinality({i \in 1..Len(q) : q[i].when < w})

Line(q, w) == [i \in 1..Before(q, w + 1) - Before(q, w) |-> q[Before(q, w) + i].id]

Promise == INSTANCE Alarms WITH line <- [w \in 0..Horizon |-> Line(queue, w)]

(* The timer queue implements Alarms: no timer goes off early, twice, after *)
(* it was cancelled or before one that is due earlier or was set earlier    *)
(* for the same second, although callbacks change the queue while           *)
(* event_wait() runs it and the loop decides by a cached time.              *)
ImplementsAlarms == Promise!Spec

(* event_wait() sleeps no longer than until the first timer: every timer    *)
(* leaves its place in the queue in time, because it goes off, is cancelled *)
(* or is set again for later.                                               *)
TimersGoOff ==
    \A t \in Timers, w \in 0..MaxTime-1 :
        [id |-> t, when |-> w] \in ToSet(queue) ~> [id |-> t, when |-> w] \notin ToSet(queue)
=============================================================================

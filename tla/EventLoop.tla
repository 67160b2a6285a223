------------------------------ MODULE EventLoop ------------------------------
(***************************************************************************)
(* The descriptor half of src/util/events.c: requests for read and write   *)
(* events, the interest list that epoll keeps for them, and the loop of    *)
(* event_wait() over one batch of events.  Timers are in EventTimers; here *)
(* they are callbacks that run between epoll_wait() and the batch.         *)
(*                                                                         *)
(* The loop's thread is at one of these places:                            *)
(*   "program"  outside event_wait()                                       *)
(*   "timers"   in event_wait(), running the callbacks of timers           *)
(*   "batch"    about to look at the next event of the batch               *)
(*   "read", "write"  in a callback of the current descriptor              *)
(*   "panic"    stopped by msg_panic()                                     *)
(* The program enables and disables requests anywhere but in "batch".      *)
(*                                                                         *)
(* epoll_ctl() refuses to add a descriptor twice, to change or delete one  *)
(* that is not there, and may refuse to add one for lack of memory.  The   *)
(* programs close no descriptor that the loop still knows, and call        *)
(* event_wait() from no callback.                                          *)
(***************************************************************************)
EXTENDS Integers, Sequences, FiniteSets

CONSTANTS Size,      \* the number of descriptors that event_init() is given
          Requests,  \* the <<descriptor, event>> pairs that are ever requested
          Pinned,    \* descriptors whose requests are never withdrawn
          MaxFails   \* bound on the additions that epoll_ctl() refuses

ASSUME EventLoopAssumption ==
    /\ Size \in Nat \ {0}
    /\ Requests \subseteq (0..Size-1) \X {"read", "write"}
    /\ Pinned \subseteq 0..Size-1
    /\ MaxFails \in Nat

VARIABLES mask,      \* event_base.mask of every descriptor
          callback,  \* the events for which a callback has been stored
          interest,  \* what epoll watches; {} for a descriptor not in its list
          maxfd,
          io,        \* what every descriptor is ready for
          batch,     \* the events that are not dispatched yet
          current,   \* the descriptor whose callback runs
          place,
          fails      \* additions that epoll_ctl() has refused

vars == <<mask, callback, interest, maxfd, io, batch, current, place, fails>>

Fds == 0..Size-1
EVENTS == {"read", "write"}
EVENT_NONE == {}

TypeOK ==
    /\ mask \in [Fds -> SUBSET EVENTS]
    /\ callback \in [Fds -> SUBSET EVENTS]
    /\ interest \in [Fds -> SUBSET EVENTS]
    /\ maxfd \in -1..Size-1
    /\ io \in [Fds -> SUBSET EVENTS]
    /\ batch \in Seq([fd : Fds, events : (SUBSET EVENTS) \ {{}}])
    /\ current \in Fds \cup {-1}
    /\ place \in {"program", "timers", "batch", "read", "write", "panic"}
    /\ fails \in Nat

event_init ==
    /\ mask = [fd \in Fds |-> EVENT_NONE]
    /\ callback = [fd \in Fds |-> {}]
    /\ interest = [fd \in Fds |-> {}]
    /\ maxfd = -1
    /\ io = [fd \in Fds |-> {}]
    /\ batch = <<>>
    /\ current = -1
    /\ place = "program"
    /\ fails = 0
-----------------------------------------------------------------------------
InProgram == place \notin {"batch", "panic"}

Listed(fd) == interest[fd] # {}

\* EPOLL_CTL_ADD is asked for when the mask was empty, else EPOLL_CTL_MOD.
CtlSucceeds(fd) == Listed(fd) <=> mask[fd] # EVENT_NONE

\* Faulty variant: maxfd is set by the first request only.
event_enable_rw_low(fd, m) ==
    /\ InProgram
    /\ mask' = [mask EXCEPT ![fd] = @ \cup {m}]
    /\ CtlSucceeds(fd)
    /\ interest' = [interest EXCEPT ![fd] = mask'[fd]]
    /\ callback' = [callback EXCEPT ![fd] = @ \cup {m}]
    /\ maxfd' = IF maxfd = -1 THEN fd ELSE maxfd
    /\ UNCHANGED <<io, batch, current, place, fails>>

\* Faulty variant: the callback is stored by the first request only.
event_enable_rw_kept(fd, m) ==
    /\ InProgram
    /\ mask' = [mask EXCEPT ![fd] = @ \cup {m}]
    /\ CtlSucceeds(fd)
    /\ interest' = [interest EXCEPT ![fd] = mask'[fd]]
    /\ callback' = [callback EXCEPT ![fd] = IF @ = {} THEN {m} ELSE @]
    /\ maxfd' = IF fd > maxfd THEN fd ELSE maxfd
    /\ UNCHANGED <<io, batch, current, place, fails>>

\* The mask is changed first: when epoll_ctl() fails it keeps the new event,
\* and nothing else is changed.
event_enable_rw(fd, m) ==
    /\ InProgram
    /\ mask' = [mask EXCEPT ![fd] = @ \cup {m}]
    /\ \/ /\ CtlSucceeds(fd)
          /\ interest' = [interest EXCEPT ![fd] = mask'[fd]]
          /\ callback' = [callback EXCEPT ![fd] = @ \cup {m}]
          /\ maxfd' = IF fd > maxfd THEN fd ELSE maxfd
          /\ UNCHANGED fails
       \/ /\ ~CtlSucceeds(fd)
          /\ UNCHANGED <<interest, callback, maxfd, fails>>
       \/ /\ mask[fd] = EVENT_NONE      \* no memory for another entry
          /\ fails < MaxFails
          /\ fails' = fails + 1
          /\ UNCHANGED <<interest, callback, maxfd>>
    /\ UNCHANGED <<io, batch, current, place>>

\* j is where the search for the highest descriptor below fd ends.
HighestBelow(fd, j) ==
    /\ j # -1 => mask[j] # EVENT_NONE
    /\ \A k \in j+1..fd-1 : mask[k] = EVENT_NONE

\* Faulty variant: the mask is changed first, and epoll_ctl() is not called
\* for the remaining event.
event_disable_rw_early(fd, m) ==
    /\ InProgram
    /\ mask[fd] # EVENT_NONE
    /\ mask' = [mask EXCEPT ![fd] = @ \ {m}]
    /\ interest' = [interest EXCEPT ![fd] = IF mask'[fd] = EVENT_NONE THEN {} ELSE @]
    /\ UNCHANGED <<callback, maxfd, io, batch, current, place, fails>>

\* The mask is changed last: when epoll_ctl() fails, because it has never
\* accepted the descriptor, nothing is changed.
event_disable_rw(fd, m) ==
    /\ InProgram
    /\ mask[fd] # EVENT_NONE
    /\ Listed(fd)
    /\ interest' = [interest EXCEPT ![fd] = mask[fd] \ {m}]
    /\ mask' = [mask EXCEPT ![fd] = @ \ {m}]
    /\ IF fd = maxfd /\ mask'[fd] = EVENT_NONE
       THEN \E j \in -1..fd-1 : HighestBelow(fd, j) /\ maxfd' = j
       ELSE UNCHANGED maxfd
    /\ UNCHANGED <<callback, io, batch, current, place, fails>>
-----------------------------------------------------------------------------
\* A descriptor becomes ready, or another process takes what was there.
IoChanges(fd, m) ==
    /\ io' = [io EXCEPT ![fd] = IF m \in @ THEN @ \ {m} ELSE @ \cup {m}]
    /\ UNCHANGED <<mask, callback, interest, maxfd, batch, current, place, fails>>

Reported(fd) == io[fd] \cap interest[fd]
ReadyFds == {fd \in Fds : Reported(fd) # {}}

\* epoll_wait() returns: all that is ready, in any order, or nothing when its
\* time is up.
event_wait ==
    /\ place = "program"
    /\ place' = "timers"
    /\ \E order \in [1..Cardinality(ReadyFds) -> ReadyFds] :
          /\ \A fd \in ReadyFds : \E i \in DOMAIN order : order[i] = fd
          /\ batch' = [i \in DOMAIN order |-> [fd |-> order[i], events |-> Reported(order[i])]]
    /\ UNCHANGED <<mask, callback, interest, maxfd, io, current, fails>>

TimersDone ==
    /\ place = "timers"
    /\ place' = "batch"
    /\ UNCHANGED <<mask, callback, interest, maxfd, io, batch, current, fails>>

\* Faulty variant: the last event of the batch is skipped.
Dispatch_short ==
    /\ place = "batch"
    /\ batch # <<>>
    /\ batch' = Tail(batch)
    /\ IF Tail(batch) = <<>> THEN UNCHANGED <<current, place>>
       ELSE current' = Head(batch).fd /\ place' = "read"
    /\ UNCHANGED <<mask, callback, interest, maxfd, io, fails>>

\* The next event of the batch: the read callback if the descriptor is
\* readable, else the write callback; whether the request still stands is not
\* asked.
Dispatch ==
    /\ place = "batch"
    /\ batch # <<>>
    /\ batch' = Tail(batch)
    /\ current' = Head(batch).fd
    /\ place' = IF Head(batch).fd > maxfd THEN "panic"
                ELSE IF "read" \in Head(batch).events THEN "read" ELSE "write"
    /\ UNCHANGED <<mask, callback, interest, maxfd, io, fails>>

\* The callback returns.  It may have dealt with all there was.
CallbackReturns ==
    /\ place \in {"read", "write"}
    /\ place' = "batch"
    /\ current' = -1
    /\ io' \in {io, [io EXCEPT ![current] = @ \ {place}]}
    /\ UNCHANGED <<mask, callback, interest, maxfd, batch, fails>>

BatchDone ==
    /\ place = "batch"
    /\ batch = <<>>
    /\ place' = "program"
    /\ UNCHANGED <<mask, callback, interest, maxfd, io, batch, current, fails>>
-----------------------------------------------------------------------------
\* How the manager of main() withdraws requests: never those of its status
\* channels, and inside event_wait() only those of the listen sockets, each of
\* which has a lower number than the status channel of its service.  A reload
\* breaks this rule (see MasterReload).
MayDisable(fd) ==
    /\ fd \notin Pinned
    /\ place # "program" => \E p \in Pinned : p > fd /\ Listed(p)

LoopStep == event_wait \/ TimersDone \/ Dispatch \/ CallbackReturns \/ BatchDone

Next ==
    \/ LoopStep
    \/ \E fd \in Fds, m \in EVENTS :
          /\ <<fd, m>> \in Requests
          /\ \/ event_enable_rw(fd, m)
             \/ MayDisable(fd) /\ event_disable_rw(fd, m)
             \/ IoChanges(fd, m)

Spec == event_init /\ [][Next]_vars

\* The program calls event_wait() for ever and callbacks return.
Fairness == WF_vars(LoopStep)
FairSpec == Spec /\ Fairness
-----------------------------------------------------------------------------
(* A descriptor is in epoll's interest list with exactly the events of its  *)
(* mask, or not at all; and the latter happens only to one that epoll_ctl() *)
(* has refused (event_enable_rw, event_disable_rw).                         *)
MaskAgrees ==
    /\ \A fd \in Fds : interest[fd] \in {{}, mask[fd]}
    /\ fails = 0 => interest = mask

(* maxfd is never below a descriptor that epoll watches, and it is the      *)
(* highest one with a request as long as epoll_ctl() has refused none       *)
(* ("highest file descriptor currently registered").                        *)
MaxfdHighest ==
    /\ \A fd \in Fds : Listed(fd) => fd <= maxfd
    /\ maxfd # -1 => mask[maxfd] # EVENT_NONE
    /\ fails = 0 => \A fd \in Fds : mask[fd] # EVENT_NONE => fd <= maxfd

(* A callback that is called has been stored, also when requests failed or  *)
(* were withdrawn since (event_enable_rw, event_wait).                      *)
CallbackStored == place \in {"read", "write"} => place \in callback[current]

(* The check "bad file descriptor" of event_wait() never fails for a        *)
(* program that withdraws requests as the manager of main() does.  One that *)
(* withdraws the highest request inside event_wait() while the same batch   *)
(* holds an event for it is stopped.                                        *)
NoBadDescriptor == place # "panic"

(* A descriptor that stays readable gets its read callback, unless the      *)
(* request is withdrawn, whatever the callbacks do (event_wait).            *)
ReadServed ==
    \A fd \in Fds :
        "read" \in Reported(fd) ~> "read" \notin Reported(fd) \/ (place = "read" /\ current = fd)
=============================================================================

-------------------------- MODULE MasterReloadProofs --------------------------
(***************************************************************************)
(* Proofs about the manager that reloads its configuration and reaps its   *)
(* children, for every set of services and processes, all limits and any   *)
(* number of refreshes, deaths and failed forks.                           *)
(*                                                                         *)
(* There are four inductive invariants, all relative to the first:         *)
(*   BaseInv    counters, table, and what a service that is gone leaves    *)
(*   OpenedInv  the numbers of the descriptors until a service is deleted  *)
(*   PanicInv   limits and the senders of messages: why the manager panics *)
(*   WatchInv   listen requests and gossip: why sockets stay watched       *)
(***************************************************************************)
EXTENDS MasterReload, MasterProofs

ReloadTypeOK ==
    /\ configured \in SUBSET Services
    /\ doomed \in SUBSET configured
    /\ stopping \in doomed \cup {NoService}
    /\ place \in {"loop", "reap", "config", "stop"}
    /\ orphans \in SUBSET Pids
    /\ sigterm \in SUBSET Pids
    /\ used \in SUBSET Pids
    /\ refreshes \in Nat
    /\ connects \in Nat
    /\ deleted \in BOOLEAN
    /\ kept \in BOOLEAN
    /\ lowered \in BOOLEAN
    /\ mixed \in BOOLEAN

\* What every handler preserves of a single MASTER_SERV.
RecOK(r) ==
    /\ r.registered => r.listen
    /\ r.timer <=> r.throttle

ServicesOK == \A s \in Services : RecOK(svc[s])

\* Reaping, reading master.cf and deleting happen between two calls of
\* event_wait(), and a service is only stopped by the last of them.
PlaceInv ==
    /\ place # "loop" => due = {} /\ ready = {}
    /\ place \in {"loop", "config"} => stopping = NoService

\* The event loop knows no service that is gone.
EventsConfigured ==
    /\ due \subseteq configured
    /\ \A e \in ready : e[2] \in configured

\* Nor does anything else.
GoneInv ==
    \A s \in Services \ configured :
        /\ Of(s) = {}
        /\ ~svc[s].timer /\ ~svc[s].registered
        /\ pipe[s] = <<>>

\* Nobody writes to the channel of a service that is being stopped, and its
\* processes will not be replaced.
StopInv ==
    stopping # NoService => /\ pipe[stopping] = <<>>
                            /\ Of(stopping) \subseteq orphans
                            /\ svc[stopping].throttle

BaseInv ==
    /\ TypeOK
    /\ ReloadTypeOK
    /\ TableInv
    /\ CountsAgree
    /\ ServicesOK
    /\ PlaceInv
    /\ EventsConfigured
    /\ GoneInv
    /\ StopInv
-----------------------------------------------------------------------------
\* Nothing is deleted: the descriptors are those that main() opened.
OpenedInv == ~deleted => NumbersInv /\ configured = Services /\ stopping = NoService
-----------------------------------------------------------------------------
\* A listen request means room for a process.
LimitRec(r) ==
    /\ r.listen => MASTER_LIMIT_OK(r.max_proc, r.total_proc)
    /\ r.max_proc = 0 \/ r.total_proc <= r.max_proc

LimitInv ==
    ~lowered => ReadyLimit /\ \A s \in Services : LimitRec(svc[s])

\* A message comes from a process of the service, or from one that is gone.
SendersKnown ==
    ~mixed => \A s \in Services : \A i \in 1..Len(pipe[s]) : serv[pipe[s][i].pid] \in {s, NoService}

PanicInv ==
    /\ LimitInv
    /\ SendersKnown
    /\ PanicsExplained
-----------------------------------------------------------------------------
\* The flag follows its rule.
FlagRec(r) == ~r.throttle => (r.listen <=> listen_flag(r))

\* No request is missing that the flag promises, none is left that could be
\* withdrawn behind its back.
KeptRec(r) == r.listen => r.registered /\ ~r.throttle

\* A refresh has changed the limit, and nothing has reconsidered the request
\* since: every process is older than the refresh.
Outdated(s) == Of(s) # {} /\ Of(s) \subseteq orphans

FlagInv == \A s \in configured : FlagRec(svc[s]) \/ Outdated(s)

KeptInv ==
    ~kept => \A s \in Services : IF s = stopping THEN svc[s].listen => svc[s].registered
                                                 ELSE KeptRec(svc[s])

\* A process that is occupied is known to be, or news of it is on the way.
TakenKnown ==
    Running => \A p \in Pids \ orphans : child[p] \in {"serving", "served"} =>
        LastSays(pipe[serv[p]], p, MASTER_STAT_TAKEN, avail[p])

WatchInv ==
    /\ FlagInv
    /\ KeptInv
    /\ TakenKnown
-----------------------------------------------------------------------------
(* What the handlers do to one record.  First the function they share:      *)
(* master_avail_listen() sets the flag by its rule, and moves the request   *)
(* along with it.                                                           *)
LEMMA Reconsidered ==
    ASSUME NEW q \in MASTER_SERV, q.registered => q.listen
    PROVE  LET r == master_avail_listen(q)
           IN  /\ r \in MASTER_SERV
               /\ SameCounts(r, q)
               /\ r.throttle = q.throttle /\ r.timer = q.timer
               /\ r.registered => r.listen
               /\ r.listen <=> listen_flag(q)
               /\ r.listen <=> listen_flag(r)
               /\ (q.listen => q.registered) => (r.listen => r.registered)
BY DEF master_avail_listen, listen_flag, MASTER_LIMIT_OK, MASTER_SERV, SameCounts

\* The record after a handler that counts and then reconsiders the request.
Recounted(q, r, total, idle) ==
    /\ q \in MASTER_SERV
    /\ RecOK(q)
    /\ q.max_proc = r.max_proc
    /\ q.total_proc = total
    /\ q.avail_proc = idle
    /\ q.throttle = r.throttle
    /\ q.listen <=> listen_flag(q)
    /\ (r.listen => r.registered) => (q.listen => q.registered)

LEMMA RecountedLemma ==
    ASSUME NEW r \in MASTER_SERV, RecOK(r), NEW c \in MASTER_SERV,
           c.max_proc = r.max_proc, c.throttle = r.throttle, c.timer = r.timer,
           c.registered = r.registered, c.listen = r.listen
    PROVE  Recounted(master_avail_listen(c), r, c.total_proc, c.avail_proc)
BY Reconsidered DEF RecOK, SameCounts, Recounted

(* master_avail_more() and master_avail_less().                             *)
LEMMA MoreLess ==
    ASSUME NEW r \in MASTER_SERV, RecOK(r)
    PROVE  /\ Recounted(master_avail_more(r), r, r.total_proc, r.avail_proc + 1)
           /\ Recounted(master_avail_less(r), r, r.total_proc, r.avail_proc - 1)
<1> DEFINE c == [r EXCEPT !.avail_proc = @ + 1]
           d == [r EXCEPT !.avail_proc = @ - 1]
<1>1. /\ c \in MASTER_SERV
      /\ c.max_proc = r.max_proc /\ c.total_proc = r.total_proc
      /\ c.avail_proc = r.avail_proc + 1
      /\ c.throttle = r.throttle /\ c.timer = r.timer
      /\ c.registered = r.registered /\ c.listen = r.listen
  BY DEF MASTER_SERV
<1>2. /\ d \in MASTER_SERV
      /\ d.max_proc = r.max_proc /\ d.total_proc = r.total_proc
      /\ d.avail_proc = r.avail_proc - 1
      /\ d.throttle = r.throttle /\ d.timer = r.timer
      /\ d.registered = r.registered /\ d.listen = r.listen
  BY DEF MASTER_SERV
<1>3. master_avail_more(r) = master_avail_listen(c) /\ master_avail_less(r) = master_avail_listen(d)
  BY DEF master_avail_more, master_avail_less
<1> HIDE DEF c, d
<1>4. QED
  BY <1>1, <1>2, <1>3, RecountedLemma

(* ... and after a change of total_proc, as a fork and a death make it.     *)
LEMMA MoreLessTotal ==
    ASSUME NEW r \in MASTER_SERV, RecOK(r), NEW total \in Int
    PROVE  LET b == [r EXCEPT !.total_proc = total]
           IN  /\ Recounted(master_avail_more(b), r, total, r.avail_proc + 1)
               /\ Recounted(master_avail_less(b), r, total, r.avail_proc - 1)
               /\ Recounted(master_avail_listen(b), r, total, r.avail_proc)
<1> DEFINE b == [r EXCEPT !.total_proc = total]
<1>1. /\ b \in MASTER_SERV
      /\ b.max_proc = r.max_proc /\ b.total_proc = total /\ b.avail_proc = r.avail_proc
      /\ b.throttle = r.throttle /\ b.timer = r.timer
      /\ b.registered = r.registered /\ b.listen = r.listen
  BY DEF MASTER_SERV
<1> HIDE DEF b
<1>2. RecOK(b)
  BY <1>1 DEF RecOK
<1>3. Recounted(master_avail_listen(b), r, total, r.avail_proc)
  BY <1>1, RecountedLemma
<1>4. /\ Recounted(master_avail_more(b), b, total, r.avail_proc + 1)
      /\ Recounted(master_avail_less(b), b, total, r.avail_proc - 1)
  BY <1>1, <1>2, MoreLess
<1>5. QED
  BY <1>1, <1>3, <1>4 DEF Recounted, b

(* A fork, and a message that is news, move the counters.                   *)
LEMMA ForkRec ==
    ASSUME NEW r \in MASTER_SERV, RecOK(r)
    PROVE  Recounted(master_avail_more([r EXCEPT !.total_proc = @ + 1]), r,
                     r.total_proc + 1, r.avail_proc + 1)
BY MoreLessTotal DEF MASTER_SERV

(* A death takes one off total_proc, and off avail_proc if the process was  *)
(* idle.  The request is not reconsidered when the process was taken and    *)
(* there is no room or another idle one.                                    *)
LEMMA DeletedRec ==
    ASSUME NEW r \in MASTER_SERV, RecOK(r), NEW status \in Availability
    PROVE  LET q == master_delete_child(r, status)
               idle == IF status = MASTER_STAT_AVAIL THEN r.avail_proc - 1 ELSE r.avail_proc
           IN  \/ Recounted(q, r, r.total_proc - 1, idle)
               \/ /\ status # MASTER_STAT_AVAIL
                  /\ ~(MASTER_LIMIT_OK(r.max_proc, r.total_proc - 1) /\ r.avail_proc < 1)
                  /\ q \in MASTER_SERV
                  /\ q.max_proc = r.max_proc
                  /\ q.total_proc = r.total_proc - 1
                  /\ q.avail_proc = r.avail_proc
                  /\ q.throttle = r.throttle /\ q.timer = r.timer
                  /\ q.listen = r.listen /\ q.registered = r.registered
<1> DEFINE b == [r EXCEPT !.total_proc = @ - 1]
<1>1. /\ b \in MASTER_SERV
      /\ b.max_proc = r.max_proc /\ b.total_proc = r.total_proc - 1 /\ b.avail_proc = r.avail_proc
      /\ b.throttle = r.throttle /\ b.timer = r.timer
      /\ b.registered = r.registered /\ b.listen = r.listen
  BY DEF MASTER_SERV
<1>2. /\ Recounted(master_avail_less(b), r, r.total_proc - 1, r.avail_proc - 1)
      /\ Recounted(master_avail_listen(b), r, r.total_proc - 1, r.avail_proc)
  BY MoreLessTotal DEF MASTER_SERV
<1>3. master_delete_child(r, status) =
        IF status = MASTER_STAT_AVAIL THEN master_avail_less(b)
        ELSE IF MASTER_LIMIT_OK(b.max_proc, b.total_proc) /\ b.avail_proc < 1
        THEN master_avail_listen(b) ELSE b
  BY DEF master_delete_child
<1> HIDE DEF b
<1>4. QED
  BY <1>1, <1>2, <1>3

(* Throttling sets two fields; the end of throttling reconsiders the        *)
(* request; the callback of a throttled service withdraws it.               *)
LEMMA ThrottleRec ==
    ASSUME NEW r \in MASTER_SERV, RecOK(r)
    PROVE  LET q == master_throttle(r)
           IN  /\ q \in MASTER_SERV
               /\ RecOK(q)
               /\ SameCounts(q, r)
               /\ q.throttle
               /\ q.listen = r.listen /\ q.registered = r.registered
BY DEF master_throttle, MASTER_SERV, RecOK, SameCounts

LEMMA UnthrottleRec ==
    ASSUME NEW r \in MASTER_SERV, RecOK(r)
    PROVE  LET q == master_unthrottle([r EXCEPT !.timer = FALSE])
           IN  /\ q \in MASTER_SERV
               /\ RecOK(q)
               /\ SameCounts(q, r)
               /\ ~q.throttle
               /\ ~r.throttle => q = r
               /\ r.throttle => (q.listen <=> listen_flag(q))
               /\ (r.listen => r.registered) => (q.listen => q.registered)
<1> DEFINE c == [r EXCEPT !.timer = FALSE]
           d == [c EXCEPT !.throttle = FALSE, !.timer = FALSE]
<1>1. /\ c \in MASTER_SERV /\ c.throttle = r.throttle
      /\ ~r.throttle => c = r
  BY DEF MASTER_SERV, RecOK
<1>2. /\ d \in MASTER_SERV /\ SameCounts(d, r)
      /\ ~d.throttle /\ ~d.timer
      /\ d.registered = r.registered /\ d.listen = r.listen
  BY DEF MASTER_SERV, SameCounts
<1>3. master_unthrottle(c) = IF c.throttle THEN master_avail_listen(d) ELSE c
  BY DEF master_unthrottle
<1> HIDE DEF c, d
<1>4. CASE ~r.throttle
  BY <1>1, <1>3, <1>4 DEF SameCounts, c
<1>5. CASE r.throttle
  <2>1. master_unthrottle(c) = master_avail_listen(d)
    BY <1>1, <1>3, <1>5
  <2>2. QED
    BY <1>2, <1>5, <2>1, Reconsidered DEF RecOK, SameCounts, c
<1>6. QED
  BY <1>4, <1>5 DEF MASTER_SERV

LEMMA DisableRec ==
    ASSUME NEW r \in MASTER_SERV, RecOK(r)
    PROVE  LET q == event_disable_listen(r)
           IN  /\ q \in MASTER_SERV
               /\ RecOK(q)
               /\ SameCounts(q, r)
               /\ q.throttle = r.throttle /\ q.listen = r.listen
BY DEF event_disable_listen, MASTER_SERV, RecOK, SameCounts

(* A fresh service, and one that is restarted with another limit.           *)
LEMMA StartRec ==
    ASSUME NEW limit \in Nat
    PROVE  LET q == master_start_service(get_master_ent(limit))
           IN  /\ q \in MASTER_SERV
               /\ RecOK(q)
               /\ q.max_proc = limit /\ q.total_proc = 0 /\ q.avail_proc = 0
               /\ ~q.throttle
               /\ q.listen <=> listen_flag(q)
               /\ q.listen => q.registered
<1> DEFINE r == get_master_ent(limit)
<1>1. /\ r \in MASTER_SERV
      /\ r.max_proc = limit /\ r.total_proc = 0 /\ r.avail_proc = 0
      /\ ~r.registered /\ ~r.listen /\ ~r.throttle /\ ~r.timer
  BY DEF get_master_ent, MASTER_SERV
<1> HIDE DEF r
<1>2. QED
  BY <1>1, Reconsidered DEF master_start_service, SameCounts, RecOK, r

LEMMA RestartRec ==
    ASSUME NEW r \in MASTER_SERV, RecOK(r), NEW limit \in Nat
    PROVE  LET q == [r EXCEPT !.max_proc = limit]
           IN  /\ q \in MASTER_SERV
               /\ RecOK(q)
               /\ q.max_proc = limit
               /\ q.total_proc = r.total_proc /\ q.avail_proc = r.avail_proc
               /\ q.throttle = r.throttle
               /\ q.listen = r.listen /\ q.registered = r.registered
BY DEF MASTER_SERV, RecOK

(* A service that is about to be freed asks for nothing and waits for no    *)
(* timer.                                                                   *)
LEMMA CleanupRec ==
    ASSUME NEW r \in MASTER_SERV, RecOK(r)
    PROVE  LET q == master_avail_cleanup(r)
           IN  /\ q \in MASTER_SERV
               /\ RecOK(q)
               /\ SameCounts(q, r)
               /\ ~q.timer /\ ~q.registered /\ ~q.listen
<1> DEFINE d == [r EXCEPT !.throttle = FALSE, !.timer = FALSE]
           b == master_unthrottle(r)
<1>1. /\ d \in MASTER_SERV /\ SameCounts(d, r)
      /\ ~d.throttle /\ ~d.timer
      /\ d.registered = r.registered /\ d.listen = r.listen
  BY DEF MASTER_SERV, SameCounts
<1>2. b = IF r.throttle THEN master_avail_listen(d) ELSE r
  BY DEF master_unthrottle
<1> HIDE DEF d
<1>3. /\ b \in MASTER_SERV /\ SameCounts(b, r) /\ RecOK(b) /\ ~b.timer /\ ~b.throttle
  BY <1>1, <1>2, Reconsidered DEF RecOK, SameCounts, MASTER_SERV
<1>4. master_avail_cleanup(r)
        = IF b.listen THEN [b EXCEPT !.listen = FALSE, !.registered = FALSE] ELSE b
  BY DEF master_avail_cleanup
<1> HIDE DEF b
<1>5. QED
  BY <1>3, <1>4 DEF RecOK, SameCounts, MASTER_SERV
-----------------------------------------------------------------------------
(* The first layer: BaseInv.                                                *)

LEMMA InitBase == ReloadInit => BaseInv
<1> SUFFICES ASSUME ReloadInit PROVE BaseInv
  OBVIOUS
<1>1. TypeOK /\ TableInv /\ CountsAgree
  BY InitIInv DEF ReloadInit, IInv
<1>2. ServicesOK
  <2> SUFFICES ASSUME NEW s \in Services PROVE RecOK(svc[s])
    BY DEF ServicesOK
  <2>1. MaxProc[s] \in Nat /\ svc[s] = master_start_service(get_master_ent(MaxProc[s]))
    BY MasterAssumption DEF ReloadInit, Init
  <2>2. QED
    BY <2>1, StartRec
<1>3. ReloadTypeOK /\ PlaceInv /\ EventsConfigured /\ GoneInv /\ StopInv
  BY DEF ReloadInit, Init, ReloadTypeOK, PlaceInv, EventsConfigured, GoneInv, StopInv
<1>4. QED
  BY <1>1, <1>2, <1>3 DEF BaseInv

\* What the callbacks of the event loop leave alone.
LoopFrame == UNCHANGED <<configured, doomed, stopping, place, orphans, sigterm, refreshes,
                         connects, deleted, lowered>>

(* Callbacks run in the main loop, for services that exist.                 *)
LEMMA CallbackPlace ==
    ASSUME BaseInv, NEW s \in Services,
           s \in due \/ <<"listen", s>> \in ready \/ <<"status", s>> \in ready
    PROVE  place = "loop" /\ stopping = NoService /\ s \in configured
BY DEF BaseInv, PlaceInv, EventsConfigured

(* A callback that changes one record and none of its counters.             *)
LEMMA ServiceBase ==
    ASSUME BaseInv, NEW s \in configured, NEW r \in MASTER_SERV,
           stopping = NoService, SameCounts(r, svc[s]), RecOK(r),
           svc' = [svc EXCEPT ![s] = r],
           UNCHANGED <<childVars, fd, table, avail, fault>>,
           forkFails' \in Nat, due' \in SUBSET due, ready' \in SUBSET ready,
           LoopFrame, used' \in SUBSET Pids, kept' \in BOOLEAN, mixed' \in BOOLEAN
    PROVE  BaseInv'
<1>1. /\ svc \in [Services -> MASTER_SERV] /\ s \in Services
      /\ svc'[s] = r
      /\ \A t \in Services : t # s => svc'[t] = svc[t]
  BY DEF BaseInv, TypeOK, ReloadTypeOK
<1>2. TypeOK'
  <2>1. svc' \in [Services -> MASTER_SERV]
    BY <1>1
  <2>2. QED
    BY <2>1 DEF BaseInv, TypeOK, ChildTypeOK, childVars
<1>3. ReloadTypeOK' /\ TableInv' /\ PlaceInv' /\ EventsConfigured' /\ StopInv'
  BY DEF BaseInv, ReloadTypeOK, TableInv, PlaceInv, EventsConfigured, StopInv, LoopFrame, childVars
<1>4. CountsAgree'
  <2>1. \A t \in Services : SameCounts(svc'[t], svc[t])
    BY <1>1 DEF SameCounts
  <2>2. QED
    BY <2>1, SameCountsLemma DEF BaseInv, childVars
<1>5. ServicesOK' /\ GoneInv'
  BY <1>1 DEF BaseInv, ServicesOK, GoneInv, Of, LoopFrame, childVars
<1>6. QED
  BY <1>2, <1>3, <1>4, <1>5 DEF BaseInv

(* The manager aborts.                                                      *)
LEMMA PanicBase ==
    ASSUME BaseInv, NEW reason \in Faults \ {"none"}, msg_panic(reason),
           due' \in SUBSET due, ready' \in SUBSET ready,
           LoopFrame, used' \in SUBSET Pids, kept' \in BOOLEAN, mixed' \in BOOLEAN
    PROVE  BaseInv'
<1>1. TypeOK'
  BY DEF BaseInv, TypeOK, ChildTypeOK, msg_panic
<1>2. /\ ReloadTypeOK' /\ TableInv' /\ PlaceInv' /\ EventsConfigured' /\ StopInv'
      /\ ServicesOK' /\ GoneInv'
  BY DEF BaseInv, ReloadTypeOK, TableInv, PlaceInv, EventsConfigured, StopInv, ServicesOK,
         GoneInv, Of, LoopFrame, msg_panic
<1>3. CountsAgree'
  BY SameCountsLemma DEF BaseInv, msg_panic, SameCounts
<1>4. QED
  BY <1>1, <1>2, <1>3 DEF BaseInv

LEMMA ForkBase ==
    ASSUME BaseInv, NEW s \in configured, NEW p \in Pids, ForkSucceeds(s, p),
           stopping = NoService, due' = due, ready' \in SUBSET ready,
           LoopFrame, used' \in SUBSET Pids, kept' \in BOOLEAN, mixed' \in BOOLEAN
    PROVE  BaseInv'
<1> DEFINE r == master_avail_more([svc[s] EXCEPT !.total_proc = @ + 1])
<1>1. /\ s \in Services /\ svc[s] \in MASTER_SERV /\ RecOK(svc[s])
      /\ svc \in [Services -> MASTER_SERV]
  BY DEF BaseInv, ReloadTypeOK, TypeOK, ServicesOK
<1>2. /\ r \in MASTER_SERV /\ RecOK(r)
      /\ r.total_proc = svc[s].total_proc + 1
      /\ r.avail_proc = svc[s].avail_proc + 1
  BY <1>1, ForkRec DEF Recounted
<1>3. svc' = [svc EXCEPT ![s] = r]
  BY DEF ForkSucceeds
<1> HIDE DEF r
<1>4. /\ svc' \in [Services -> MASTER_SERV]
      /\ svc'[s] = r
      /\ \A t \in Services : t # s => svc'[t] = svc[t]
  BY <1>1, <1>2, <1>3
<1>5. /\ child[p] = "none" /\ p \notin table /\ s # NoService
      /\ child' = [child EXCEPT ![p] = "started"]
      /\ serv' = [serv EXCEPT ![p] = s]
      /\ avail' = [avail EXCEPT ![p] = MASTER_STAT_AVAIL]
      /\ table' = table \cup {p}
  BY <1>1, ChildAssumption DEF ForkSucceeds, BaseInv, TableInv
<1>6. TypeOK'
  <2>1. ChildTypeOK'
    BY <1>1, <1>5 DEF BaseInv, TypeOK, ChildTypeOK, Phases, ForkSucceeds
  <2>2. QED
    BY <1>4, <1>5, <2>1 DEF BaseInv, TypeOK, ForkSucceeds, Availability
<1>7. TableInv'
  BY <1>5, FS_AddElement DEF BaseInv, TypeOK, ChildTypeOK, TableInv
<1>8. CountsAgree'
  BY <1>1, <1>2, <1>3, <1>5, ForkCounts DEF BaseInv
<1>9. ReloadTypeOK' /\ PlaceInv' /\ EventsConfigured' /\ StopInv' /\ ServicesOK'
  BY <1>2, <1>4 DEF BaseInv, ReloadTypeOK, PlaceInv, EventsConfigured, StopInv, ServicesOK, LoopFrame
<1>10. GoneInv'
  <2>1. \A t \in Services : t # s => Of(t)' = Of(t)
    <3>1. serv \in [Pids -> Services \cup {NoService}] /\ serv[p] = NoService
      BY <1>5 DEF BaseInv, TypeOK, ChildTypeOK
    <3>2. QED
      BY <1>5, <3>1, ChildAssumption DEF Of
  <2>2. QED
    BY <1>4, <2>1 DEF BaseInv, GoneInv, LoopFrame, ForkSucceeds
<1>11. QED
  BY <1>6, <1>7, <1>8, <1>9, <1>10 DEF BaseInv

LEMMA ListenBase ==
    ASSUME BaseInv, NEW s \in Services, ListenEvent(s)
    PROVE  BaseInv'
<1>1. /\ master_avail_event(s) /\ <<"listen", s>> \in ready
      /\ due' = due /\ ready' \in SUBSET ready
      /\ LoopFrame
  BY DEF ListenEvent, master_avail_event, Dispatch, NextEvent, LoopFrame
<1>2. stopping = NoService /\ s \in configured
  BY <1>1, CallbackPlace
<1>3. /\ svc[s] \in MASTER_SERV /\ RecOK(svc[s]) /\ forkFails \in Nat
      /\ kept \in BOOLEAN /\ mixed \in BOOLEAN /\ used \in SUBSET Pids
  BY DEF BaseInv, TypeOK, ReloadTypeOK, ServicesOK
<1>4. used' \in SUBSET Pids /\ kept' \in BOOLEAN /\ mixed' \in BOOLEAN
  BY <1>3 DEF ListenEvent
<1>5. CASE svc[s].throttle
  <2>1. svc' = [svc EXCEPT ![s] = event_disable_listen(svc[s])]
        /\ UNCHANGED <<childVars, fd, table, avail, fault, forkFails>>
    BY <1>1, <1>5 DEF master_avail_event
  <2>2. QED
    BY <1>1, <1>2, <1>3, <1>4, <2>1, DisableRec, ServiceBase
<1>6. CASE ~svc[s].throttle
  <2>1. master_spawn(s) /\ SpawnCheck(svc[s]) \in {"none", "limit", "available"}
    BY <1>1, <1>6 DEF master_avail_event, SpawnCheck
  <2>2. ASSUME NEW reason \in {"limit", "available"}, msg_panic(reason) PROVE BaseInv'
    BY <1>1, <1>4, <2>2, PanicBase DEF Faults
  <2>3. CASE ForkFails(s)
    <3>1. svc' = [svc EXCEPT ![s] = master_throttle(svc[s])]
          /\ UNCHANGED <<childVars, fd, table, avail, fault>>
          /\ forkFails' \in Nat
      BY <1>3, <2>3 DEF ForkFails
    <3>2. QED
      BY <1>1, <1>2, <1>3, <1>4, <3>1, ThrottleRec, ServiceBase
  <2>4. CASE \E p \in Pids : ForkSucceeds(s, p)
    BY <1>1, <1>2, <1>4, <2>4, ForkBase
  <2>5. QED
    BY <2>1, <2>2, <2>3, <2>4 DEF master_spawn
<1>7. QED
  BY <1>5, <1>6

LEMMA StatusBase ==
    ASSUME BaseInv, NEW s \in Services, StatusEvent(s)
    PROVE  BaseInv'
<1> DEFINE m == Head(pipe[s])
           corrupt == m.pid \in table /\ serv[m.pid] # s
           r == IF m.avail = MASTER_STAT_AVAIL
                THEN master_avail_more(svc[s]) ELSE master_avail_less(svc[s])
<1>1. /\ <<"status", s>> \in ready /\ Running
      /\ pipe[s] # <<>>
      /\ due' = due /\ ready' = ready \ {<<"status", s>>}
      /\ pipe' = [pipe EXCEPT ![s] = Tail(@)]
      /\ UNCHANGED <<child, serv, pending, deaths, fd, table, forkFails>>
      /\ UNCHANGED <<kept, mixed>>
      /\ LoopFrame
  BY DEF StatusEvent, master_status_event, Dispatch, NextEvent, LoopFrame
<1>2. stopping = NoService /\ s \in configured
  BY <1>1, CallbackPlace
<1>3. /\ m \in MASTER_STATUS(Pids)
      /\ pipe' \in [Services -> Seq(MASTER_STATUS(Pids))]
      /\ \A t \in Services : t # s => pipe'[t] = pipe[t]
  <2>1. pipe \in [Services -> Seq(MASTER_STATUS(Pids))] /\ pipe[s] \in Seq(MASTER_STATUS(Pids))
    BY DEF BaseInv, TypeOK, ChildTypeOK
  <2>2. QED
    BY <1>1, <2>1, HeadTailProperties
<1>4. /\ fault' = IF corrupt THEN "pointer corruption" ELSE fault
      /\ statusOpen' = ~corrupt
      /\ IF IsNews(m) /\ ~corrupt THEN StatusChanges(s, m) ELSE UNCHANGED <<svc, avail>>
  BY DEF StatusEvent, master_status_event
<1>5. svc[s] \in MASTER_SERV /\ RecOK(svc[s]) /\ svc \in [Services -> MASTER_SERV]
      /\ avail \in [Pids -> Availability] /\ table \subseteq Pids
  BY DEF BaseInv, TypeOK, ServicesOK
<1>6. /\ svc' \in [Services -> MASTER_SERV]
      /\ avail' \in [Pids -> Availability]
      /\ \A t \in Services : RecOK(svc'[t])
      /\ \A t \in Services : t # s => svc'[t] = svc[t]
      /\ CountsAgree'
  <2>1. CASE IsNews(m) /\ ~corrupt
    <3>1. /\ m.pid \in table /\ serv[m.pid] = s /\ avail[m.pid] # m.avail
          /\ m.avail \in Availability
          /\ svc' = [svc EXCEPT ![s] = r]
          /\ avail' = [avail EXCEPT ![m.pid] = m.avail]
      BY <1>3, <1>4, <2>1 DEF IsNews, StatusChanges, MASTER_STATUS
    <3>2. /\ r \in MASTER_SERV /\ RecOK(r)
          /\ r.total_proc = svc[s].total_proc
          /\ r.avail_proc = IF m.avail = MASTER_STAT_AVAIL
                            THEN svc[s].avail_proc + 1 ELSE svc[s].avail_proc - 1
      BY <1>5, MoreLess DEF Recounted
    <3> HIDE DEF r, m
    <3>3. svc'[s] = r /\ svc' \in [Services -> MASTER_SERV]
          /\ \A t \in Services : t # s => svc'[t] = svc[t]
      BY <1>5, <3>1, <3>2
    <3>4. avail' \in [Pids -> Availability]
      BY <1>5, <3>1
    <3>5. CountsAgree'
      BY <1>1, <3>1, <3>2, StatusCounts DEF BaseInv
    <3>6. QED
      BY <3>2, <3>3, <3>4, <3>5 DEF BaseInv, ServicesOK
  <2>2. CASE ~(IsNews(m) /\ ~corrupt)
    <3>1. svc' = svc /\ avail' = avail
      BY <1>4, <2>2
    <3>2. CountsAgree'
      BY <1>1, <3>1, SameCountsLemma DEF BaseInv, SameCounts
    <3>3. QED
      BY <1>5, <3>1, <3>2 DEF BaseInv, ServicesOK
  <2>3. QED
    BY <2>1, <2>2
<1> HIDE DEF m, r
<1>7. TypeOK'
  <2>1. statusOpen' = (fault' = "none") /\ fault' \in Faults
    BY <1>1, <1>4 DEF BaseInv, TypeOK, Running, Faults
  <2>2. ChildTypeOK'
    BY <1>1, <1>3, <1>4 DEF BaseInv, TypeOK, ChildTypeOK
  <2>3. QED
    BY <1>1, <1>6, <2>1, <2>2 DEF BaseInv, TypeOK
<1>8. ReloadTypeOK'
  <2>1. used' \in SUBSET Pids
    BY <1>5 DEF StatusEvent, BaseInv, ReloadTypeOK
  <2>2. QED
    BY <1>1, <2>1 DEF BaseInv, ReloadTypeOK, LoopFrame
<1>9. TableInv' /\ PlaceInv' /\ EventsConfigured' /\ StopInv' /\ ServicesOK'
  BY <1>1, <1>2, <1>6 DEF BaseInv, TableInv, PlaceInv, EventsConfigured, StopInv, ServicesOK, LoopFrame
<1>10. GoneInv'
  BY <1>1, <1>2, <1>3, <1>6 DEF BaseInv, GoneInv, Of, LoopFrame
<1>11. QED
  BY <1>6, <1>7, <1>8, <1>9, <1>10 DEF BaseInv

LEMMA EventWaitBase ==
    ASSUME BaseInv, EventWait
    PROVE  BaseInv'
<1>1. /\ place = "loop"
      /\ due' \in SUBSET {s \in Services : svc[s].timer} /\ ready' = ReadyEvents
      /\ UNCHANGED <<childVars, svc, fd, table, avail, fault, forkFails, reloadVars>>
  BY DEF EventWait, event_wait
<1>2. TypeOK'
  BY <1>1 DEF BaseInv, TypeOK, ChildTypeOK, childVars, ReadyEvents, Events
<1>3. CountsAgree'
  BY <1>1, SameCountsLemma DEF BaseInv, childVars, SameCounts
<1>4. ReloadTypeOK' /\ TableInv' /\ PlaceInv' /\ GoneInv' /\ StopInv' /\ ServicesOK'
  BY <1>1 DEF BaseInv, ReloadTypeOK, TableInv, PlaceInv, GoneInv, Of, StopInv, ServicesOK,
             childVars, reloadVars
<1>5. EventsConfigured'
  BY <1>1 DEF BaseInv, GoneInv, EventsConfigured, ReadyEvents, reloadVars
<1>6. QED
  BY <1>2, <1>3, <1>4, <1>5 DEF BaseInv

LEMMA UnthrottleBase ==
    ASSUME BaseInv, NEW s \in Services, Unthrottle(s)
    PROVE  BaseInv'
<1> DEFINE r == master_unthrottle([svc[s] EXCEPT !.timer = FALSE])
<1>1. /\ s \in due
      /\ svc' = [svc EXCEPT ![s] = r]
      /\ due' = due \ {s} /\ ready' = ready
      /\ UNCHANGED <<childVars, fd, table, avail, fault, forkFails, reloadVars>>
  BY DEF Unthrottle, master_unthrottle_wrapper
<1>2. svc[s] \in MASTER_SERV /\ RecOK(svc[s]) /\ stopping = NoService /\ s \in configured
  BY <1>1, CallbackPlace DEF BaseInv, TypeOK, ServicesOK
<1>3. r \in MASTER_SERV /\ RecOK(r) /\ SameCounts(r, svc[s])
  BY <1>2, UnthrottleRec
<1> HIDE DEF r
<1>4. LoopFrame /\ forkFails' \in Nat /\ used' \in SUBSET Pids /\ kept' \in BOOLEAN /\ mixed' \in BOOLEAN
  BY <1>1 DEF BaseInv, TypeOK, ReloadTypeOK, LoopFrame, reloadVars
<1>5. QED
  BY <1>1, <1>2, <1>3, <1>4, ServiceBase

(* A process that leaves the table is one less of the processes, and of the *)
(* idle ones if it was idle.                                                *)
LEMMA ReapCounts ==
    ASSUME TypeOK, TableInv, CountsAgree, NEW s \in Services, NEW p \in table, NEW r,
           serv[p] = s,
           svc' = [svc EXCEPT ![s] = r],
           r.total_proc = svc[s].total_proc - 1,
           r.avail_proc = IF avail[p] = MASTER_STAT_AVAIL
                          THEN svc[s].avail_proc - 1 ELSE svc[s].avail_proc,
           table' = table \ {p},
           serv' = [serv EXCEPT ![p] = NoService],
           avail' = [avail EXCEPT ![p] = MASTER_STAT_TAKEN]
    PROVE  CountsAgree'
<1>1. /\ serv \in [Pids -> Services \cup {NoService}]
      /\ avail \in [Pids -> Availability]
      /\ table \in SUBSET Pids /\ IsFiniteSet(table)
      /\ svc \in [Services -> MASTER_SERV]
  BY DEF TypeOK, ChildTypeOK, TableInv
<1>2. /\ \A q \in table' : serv'[q] = serv[q] /\ avail'[q] = avail[q]
      /\ p \notin table'
  BY <1>1
<1>3. Children(s)' = Children(s) \ {p} /\ Idle(s)' = Idle(s) \ {p}
  BY <1>2 DEF Children, Idle
<1>4. \A t \in Services : t # s => Children(t)' = Children(t) /\ Idle(t)' = Idle(t)
  BY <1>2 DEF Children, Idle
<1>5. IsFiniteSet(Children(s)) /\ IsFiniteSet(Idle(s)) /\ p \in Children(s)
  BY <1>1, FS_Subset DEF Children, Idle
<1>6. Cardinality(Children(s) \ {p}) = Cardinality(Children(s)) - 1
  BY <1>5, FS_RemoveElement
<1>7. Cardinality(Idle(s) \ {p}) = IF avail[p] = MASTER_STAT_AVAIL
                                   THEN Cardinality(Idle(s)) - 1 ELSE Cardinality(Idle(s))
  <2>1. CASE avail[p] = MASTER_STAT_AVAIL
    BY <1>5, <2>1, FS_RemoveElement DEF Idle
  <2>2. CASE avail[p] # MASTER_STAT_AVAIL
    <3>1. Idle(s) \ {p} = Idle(s)
      BY <2>2 DEF Idle
    <3>2. QED
      BY <2>2, <3>1
  <2>3. QED
    BY <2>1, <2>2
<1>8. svc'[s] = r /\ \A t \in Services : t # s => svc'[t] = svc[t]
  BY <1>1
<1>9. QED
  BY <1>3, <1>4, <1>6, <1>7, <1>8 DEF CountsAgree

\* What the service of a reaped process is throttled to before the process is
\* taken off its counters.
ReapRec(p, ok) == IF BadStartup(p, ok) THEN master_throttle(svc[serv[p]]) ELSE svc[serv[p]]

(* A zombie is in the table, and its service exists.                        *)
LEMMA ReapedKnown ==
    ASSUME BaseInv, NEW p \in Zombies
    PROVE  p \in table /\ serv[p] \in configured /\ p \in Of(serv[p])
BY DEF BaseInv, TypeOK, ChildTypeOK, TableInv, Zombies, GoneInv, Of

(* The step of master_reap_child() for one process.                         *)
LEMMA ReapStep ==
    ASSUME BaseInv, NEW p \in Pids, NEW ok \in BOOLEAN, ReapOne(p, ok)
    PROVE  LET s == serv[p]
               q == ReapRec(p, ok)
               r == master_delete_child(q, avail[p])
           IN  /\ Running /\ place = "reap" /\ p \in Zombies
               /\ s \in configured /\ s \in Services /\ p \in table
               /\ q \in MASTER_SERV /\ RecOK(q) /\ SameCounts(q, svc[s])
               /\ q = svc[s] \/ (q.throttle /\ q.listen = svc[s].listen /\ q.registered = svc[s].registered)
               /\ r \in MASTER_SERV /\ RecOK(r) /\ r.throttle = q.throttle
               /\ svc[s].throttle => q.throttle
               /\ r.total_proc = svc[s].total_proc - 1
               /\ r.avail_proc = IF avail[p] = MASTER_STAT_AVAIL
                                 THEN svc[s].avail_proc - 1 ELSE svc[s].avail_proc
               /\ svc' = [svc EXCEPT ![s] = r]
               /\ svc'[s] = r
               /\ \A t \in Services : t # s => svc'[t] = svc[t]
               /\ table' = table \ {p}
               /\ avail' = [avail EXCEPT ![p] = MASTER_STAT_TAKEN]
               /\ child' = [child EXCEPT ![p] = "none"]
               /\ serv' = [serv EXCEPT ![p] = NoService]
               /\ UNCHANGED <<pending, pipe, statusOpen, deaths, fd, due, ready, fault, forkFails>>
<1> DEFINE s == serv[p]
           q == ReapRec(p, ok)
           r == master_delete_child(q, avail[p])
<1>1. Running /\ place = "reap" /\ p \in Zombies
  BY DEF ReapOne
<1>2. p \in table /\ s \in configured
  BY <1>1, ReapedKnown
<1>3. s \in Services /\ svc[s] \in MASTER_SERV /\ RecOK(svc[s]) /\ svc \in [Services -> MASTER_SERV]
      /\ avail[p] \in Availability
  BY <1>2 DEF BaseInv, TypeOK, ReloadTypeOK, ServicesOK
<1>4. /\ q \in MASTER_SERV /\ RecOK(q) /\ SameCounts(q, svc[s])
      /\ q = svc[s] \/ (q.throttle /\ q.listen = svc[s].listen /\ q.registered = svc[s].registered)
  BY <1>3, ThrottleRec DEF ReapRec, SameCounts
<1>5. svc[s].throttle => q.throttle
  BY <1>4
<1>6. /\ svc' = [svc EXCEPT ![s] = r]
      /\ table' = table \ {p}
      /\ avail' = [avail EXCEPT ![p] = MASTER_STAT_TAKEN]
      /\ child' = [child EXCEPT ![p] = "none"]
      /\ serv' = [serv EXCEPT ![p] = NoService]
      /\ UNCHANGED <<pending, pipe, statusOpen, deaths, fd, due, ready, fault, forkFails>>
  BY <1>2 DEF ReapOne, ReapRec
<1> HIDE DEF q
<1>7. /\ r \in MASTER_SERV /\ RecOK(r) /\ r.throttle = q.throttle
      /\ r.total_proc = q.total_proc - 1
      /\ r.avail_proc = IF avail[p] = MASTER_STAT_AVAIL THEN q.avail_proc - 1 ELSE q.avail_proc
  BY <1>3, <1>4, DeletedRec DEF Recounted, RecOK
<1> HIDE DEF r
<1>8. /\ svc'[s] = r
      /\ \A t \in Services : t # s => svc'[t] = svc[t]
  BY <1>3, <1>6
<1>9. QED
  BY <1>1, <1>2, <1>3, <1>4, <1>5, <1>6, <1>7, <1>8 DEF SameCounts, q, r

LEMMA ReapBase ==
    ASSUME BaseInv, NEW p \in Pids, NEW ok \in BOOLEAN, ReapOne(p, ok)
    PROVE  BaseInv'
<1> DEFINE s == serv[p]
           r == master_delete_child(ReapRec(p, ok), avail[p])
<1>1. /\ Running /\ place = "reap" /\ p \in Zombies
      /\ s \in configured /\ s \in Services /\ p \in table
      /\ r \in MASTER_SERV /\ RecOK(r)
      /\ svc[s].throttle => r.throttle
      /\ r.total_proc = svc[s].total_proc - 1
      /\ r.avail_proc = IF avail[p] = MASTER_STAT_AVAIL
                        THEN svc[s].avail_proc - 1 ELSE svc[s].avail_proc
      /\ svc' = [svc EXCEPT ![s] = r]
      /\ svc'[s] = r
      /\ \A t \in Services : t # s => svc'[t] = svc[t]
      /\ table' = table \ {p}
      /\ avail' = [avail EXCEPT ![p] = MASTER_STAT_TAKEN]
      /\ child' = [child EXCEPT ![p] = "none"]
      /\ serv' = [serv EXCEPT ![p] = NoService]
      /\ UNCHANGED <<pending, pipe, statusOpen, deaths, fd, due, ready, fault, forkFails>>
  BY ReapStep
<1> HIDE DEF r
<1>2. /\ orphans' = orphans \ {p} /\ sigterm' = sigterm \ {p} /\ used' = used \ {p}
      /\ kept' = (kept \/ Keeps(s))
      /\ UNCHANGED <<configured, doomed, stopping, place, refreshes, connects, deleted, lowered, mixed>>
  BY DEF ReapOne
<1>3. \A t \in Services : Of(t)' = Of(t) \ {p}
  <2>1. serv \in [Pids -> Services \cup {NoService}]
    BY DEF BaseInv, TypeOK, ChildTypeOK
  <2>2. QED
    BY <1>1, <2>1, ChildAssumption DEF Of
<1>4. TypeOK'
  <2>1. svc' \in [Services -> MASTER_SERV]
    BY <1>1 DEF BaseInv, TypeOK
  <2>2. ChildTypeOK'
    BY <1>1, ChildAssumption DEF BaseInv, TypeOK, ChildTypeOK, Phases
  <2>3. QED
    BY <1>1, <2>1, <2>2 DEF BaseInv, TypeOK, Availability
<1>5. ReloadTypeOK'
  BY <1>2 DEF BaseInv, ReloadTypeOK
<1>6. TableInv'
  <2>1. IsFiniteSet(table \ {p})
    BY FS_Subset DEF BaseInv, TableInv
  <2>2. QED
    BY <1>1, <2>1 DEF BaseInv, TypeOK, ChildTypeOK, TableInv
<1>7. CountsAgree'
  BY <1>1, ReapCounts DEF BaseInv
<1>8. ServicesOK' /\ PlaceInv' /\ EventsConfigured'
  BY <1>1, <1>2 DEF BaseInv, ServicesOK, PlaceInv, EventsConfigured
<1>9. GoneInv'
  BY <1>1, <1>2, <1>3 DEF BaseInv, TypeOK, ReloadTypeOK, GoneInv
<1>10. StopInv'
  BY <1>1, <1>2, <1>3 DEF BaseInv, ReloadTypeOK, StopInv
<1>11. QED
  BY <1>4, <1>5, <1>6, <1>7, <1>8, <1>9, <1>10 DEF BaseInv

(* Steps that only move the manager's thread, or mark all services.         *)
LEMMA MoveBase ==
    ASSUME BaseInv, ReapBegins \/ ReapEnds \/ BeginRefresh \/ EndReading
    PROVE  BaseInv'
<1>1. /\ UNCHANGED <<vars, configured, stopping, orphans, sigterm, used, connects, deleted,
                     kept, lowered, mixed>>
      /\ doomed' \in SUBSET configured
      /\ stopping # NoService => doomed' = doomed
      /\ place' \in {"loop", "reap", "config", "stop"}
      /\ place' \in {"loop", "config"} => stopping = NoService
      /\ refreshes' \in Nat
      /\ due = {} /\ ready = {}
  <2>1. CASE ReapBegins \/ ReapEnds
    BY <2>1 DEF ReapBegins, ReapEnds, BaseInv, ReloadTypeOK, PlaceInv, InLoop
  <2>2. CASE BeginRefresh
    BY <2>2 DEF BeginRefresh, BaseInv, ReloadTypeOK, PlaceInv, InLoop
  <2>3. CASE EndReading
    BY <2>3 DEF EndReading, BaseInv, ReloadTypeOK, PlaceInv
  <2>4. QED
    BY <2>1, <2>2, <2>3
<1>2. TypeOK' /\ TableInv' /\ ServicesOK' /\ EventsConfigured' /\ GoneInv' /\ StopInv'
  BY <1>1 DEF BaseInv, TypeOK, ChildTypeOK, TableInv, ServicesOK, EventsConfigured, GoneInv, Of,
             StopInv, vars, childVars, masterVars
<1>3. CountsAgree'
  BY <1>1, SameCountsLemma DEF BaseInv, vars, childVars, masterVars, SameCounts
<1>4. ReloadTypeOK' /\ PlaceInv'
  BY <1>1 DEF BaseInv, ReloadTypeOK, PlaceInv, vars, masterVars
<1>5. QED
  BY <1>2, <1>3, <1>4 DEF BaseInv

(* master_status_cleanup() empties a channel and orphans processes.         *)
LEMMA StatusCleanup ==
    ASSUME BaseInv, NEW s \in Services, master_status_cleanup(s)
    PROVE  /\ pipe' \in [Services -> Seq(MASTER_STATUS(Pids))]
           /\ pipe'[s] = <<>>
           /\ \A t \in Services : t # s => pipe'[t] = pipe[t]
           /\ orphans' \in SUBSET Pids
           /\ Of(s) \subseteq orphans'
           /\ orphans \subseteq orphans'
<1>1. pipe \in [Services -> Seq(MASTER_STATUS(Pids))] /\ orphans \in SUBSET Pids
  BY DEF BaseInv, TypeOK, ChildTypeOK, ReloadTypeOK
<1>2. <<>> \in Seq(MASTER_STATUS(Pids))
  OBVIOUS
<1>3. QED
  BY <1>1, <1>2 DEF master_status_cleanup, Of

(* A pipe and a socket get numbers.                                         *)
LEMMA NumbersType ==
    ASSUME fd \in [Ends -> Int], NEW s \in Services
    PROVE  /\ StatusClosed(s) \in [Ends -> Int]
           /\ [fd EXCEPT ![<<"listen", s>>] = -1] \in [Ends -> Int]
           /\ \A n \in Numbers : [fd EXCEPT ![<<"listen", s>>] = n] \in [Ends -> Int]
           /\ \A f \in [Ends -> Int] : \A g : StatusNumbers(f, s, g) => g \in [Ends -> Int]
<1>1. Numbers \subseteq Int
  BY DEF Numbers
<1>2. ASSUME NEW f \in [Ends -> Int], NEW e, NEW n \in Int
      PROVE  [f EXCEPT ![e] = n] \in [Ends -> Int]
  BY <1>2
<1>3. StatusClosed(s) \in [Ends -> Int]
  BY <1>2 DEF StatusClosed
<1>4. ASSUME NEW f \in [Ends -> Int], NEW g, StatusNumbers(f, s, g)
      PROVE  g \in [Ends -> Int]
  <2>1. PICK r \in Int, w \in Int : g = [f EXCEPT ![<<"status", s>>] = r, ![<<"report", s>>] = w]
    BY <1>1, <1>4 DEF StatusNumbers
  <2>2. QED
    BY <1>2, <2>1
<1>5. QED
  BY <1>1, <1>2, <1>3, <1>4

(* What an entry of master.cf does: an old service gets another limit and   *)
(* another channel, a new one starts from scratch.                          *)
LEMMA EntryStep ==
    ASSUME BaseInv, NEW s \in Services, NEW limit \in Limits[s], ReadEntry(s, limit)
    PROVE  /\ place = "config" /\ due = {} /\ ready = {} /\ stopping = NoService
           /\ limit \in Nat
           /\ svc' \in [Services -> MASTER_SERV]
           /\ \A t \in Services : t # s => svc'[t] = svc[t]
           /\ RecOK(svc'[s])
           /\ svc'[s].total_proc = svc[s].total_proc
           /\ svc'[s].avail_proc = svc[s].avail_proc
           /\ pipe' \in [Services -> Seq(MASTER_STATUS(Pids))]
           /\ pipe'[s] = <<>>
           /\ \A t \in Services : t # s => pipe'[t] = pipe[t]
           /\ orphans' \in SUBSET Pids
           /\ Of(s) \subseteq orphans'
           /\ orphans \subseteq orphans'
           /\ configured' = configured \cup {s}
           /\ doomed' = doomed \ {s}
           /\ fd' \in [Ends -> Int]
           /\ UNCHANGED <<child, serv, pending, statusOpen, deaths, table, avail, due, ready, fault,
                          forkFails, stopping, place, sigterm, used, refreshes, connects, deleted,
                          kept, mixed>>
           /\ \/ /\ s \notin configured
                 /\ svc'[s] = master_start_service(get_master_ent(limit))
                 /\ lowered' = lowered
              \/ /\ s \in configured
                 /\ svc'[s] = [svc[s] EXCEPT !.max_proc = limit]
                 /\ lowered' = (lowered \/ Lowers(limit, svc[s].max_proc))
<1>1. /\ place = "config" /\ due = {} /\ ready = {} /\ stopping = NoService
      /\ doomed \subseteq configured
      /\ svc \in [Services -> MASTER_SERV] /\ svc[s] \in MASTER_SERV /\ RecOK(svc[s])
      /\ pipe \in [Services -> Seq(MASTER_STATUS(Pids))]
      /\ orphans \in SUBSET Pids
      /\ fd \in [Ends -> Int]
      /\ limit \in Nat
  BY ReloadAssumption
     DEF ReadEntry, BaseInv, TypeOK, ChildTypeOK, ReloadTypeOK, PlaceInv, ServicesOK
<1>2. UNCHANGED <<child, serv, pending, statusOpen, deaths, table, avail, due, ready, fault,
                  forkFails, stopping, place, sigterm, used, refreshes, connects, deleted, kept, mixed>>
  BY DEF ReadEntry
<1>3. ASSUME NEW r \in MASTER_SERV, svc' = [svc EXCEPT ![s] = r]
      PROVE  /\ svc' \in [Services -> MASTER_SERV]
             /\ svc'[s] = r
             /\ \A t \in Services : t # s => svc'[t] = svc[t]
  BY <1>1, <1>3
<1>4. CASE NewEntry(s, limit)
  <2> DEFINE r == master_start_service(get_master_ent(limit))
  <2>1. /\ s \notin configured /\ configured' = configured \cup {s}
        /\ svc' = [svc EXCEPT ![s] = r]
        /\ UNCHANGED <<pipe, doomed, orphans, lowered>>
    BY <1>4 DEF NewEntry
  <2>2. Of(s) = {} /\ pipe[s] = <<>>
    BY <2>1 DEF BaseInv, GoneInv
  <2>3. svc[s].total_proc = 0 /\ svc[s].avail_proc = 0
    <3>1. Children(s) = {} /\ Idle(s) = {}
      BY <2>2 DEF BaseInv, Of, Children, Idle, TypeOK
    <3>2. QED
      BY <3>1, FS_EmptySet DEF BaseInv, CountsAgree
  <2>4. r \in MASTER_SERV /\ RecOK(r) /\ r.total_proc = 0 /\ r.avail_proc = 0
    BY <1>1, StartRec
  <2>5. fd' \in [Ends -> Int]
    BY <1>1, <1>4, NumbersType DEF NewEntry
  <2> HIDE DEF r
  <2>6. svc' \in [Services -> MASTER_SERV] /\ svc'[s] = r /\ \A t \in Services : t # s => svc'[t] = svc[t]
    BY <1>3, <2>1, <2>4
  <2>7. doomed' = doomed \ {s}
    BY <1>1, <2>1
  <2>8. QED
    BY <1>1, <1>2, <2>1, <2>2, <2>3, <2>4, <2>5, <2>6, <2>7 DEF r
<1>5. CASE OldEntry(s, limit)
  <2> DEFINE r == [svc[s] EXCEPT !.max_proc = limit]
  <2>1. /\ s \in configured /\ configured' = configured /\ doomed' = doomed \ {s}
        /\ lowered' = (lowered \/ Lowers(limit, svc[s].max_proc))
        /\ master_status_cleanup(s)
    BY <1>1, <1>5 DEF OldEntry
  <2>2. svc' = [svc EXCEPT ![s] = r]
    BY <1>1, <1>5 DEF OldEntry
  <2>3. r \in MASTER_SERV /\ RecOK(r) /\ r.total_proc = svc[s].total_proc /\ r.avail_proc = svc[s].avail_proc
    BY <1>1, RestartRec
  <2>4. fd' \in [Ends -> Int]
    BY <1>1, <1>5, NumbersType DEF OldEntry
  <2> HIDE DEF r
  <2>5. svc' \in [Services -> MASTER_SERV] /\ svc'[s] = r /\ \A t \in Services : t # s => svc'[t] = svc[t]
    BY <1>3, <2>2, <2>3
  <2>6. /\ pipe' \in [Services -> Seq(MASTER_STATUS(Pids))]
        /\ pipe'[s] = <<>>
        /\ \A t \in Services : t # s => pipe'[t] = pipe[t]
        /\ orphans' \in SUBSET Pids
        /\ Of(s) \subseteq orphans' /\ orphans \subseteq orphans'
    BY <2>1, StatusCleanup
  <2>7. configured' = configured \cup {s}
    BY <2>1
  <2>8. QED
    BY <1>1, <1>2, <2>1, <2>3, <2>4, <2>5, <2>6, <2>7 DEF r
<1>6. QED
  BY <1>4, <1>5 DEF ReadEntry

LEMMA EntryBase ==
    ASSUME BaseInv, NEW s \in Services, NEW limit \in Limits[s], ReadEntry(s, limit)
    PROVE  BaseInv'
<1>1. /\ place = "config" /\ due = {} /\ ready = {} /\ stopping = NoService
      /\ svc' \in [Services -> MASTER_SERV]
      /\ \A t \in Services : t # s => svc'[t] = svc[t]
      /\ RecOK(svc'[s])
      /\ svc'[s].total_proc = svc[s].total_proc
      /\ svc'[s].avail_proc = svc[s].avail_proc
      /\ pipe' \in [Services -> Seq(MASTER_STATUS(Pids))]
      /\ \A t \in Services : t # s => pipe'[t] = pipe[t]
      /\ orphans' \in SUBSET Pids
      /\ configured' = configured \cup {s}
      /\ doomed' = doomed \ {s}
      /\ fd' \in [Ends -> Int]
      /\ UNCHANGED <<child, serv, pending, statusOpen, deaths, table, avail, due, ready, fault,
                     forkFails, stopping, place, sigterm, used, refreshes, connects, deleted,
                     kept, mixed>>
  BY EntryStep
<1>2. lowered' \in BOOLEAN
  BY EntryStep DEF BaseInv, ReloadTypeOK
<1>3. TypeOK'
  BY <1>1 DEF BaseInv, TypeOK, ChildTypeOK
<1>4. ReloadTypeOK' /\ TableInv' /\ PlaceInv' /\ EventsConfigured' /\ StopInv'
  BY <1>1, <1>2 DEF BaseInv, ReloadTypeOK, TableInv, PlaceInv, EventsConfigured, StopInv
<1>5. ServicesOK'
  BY <1>1 DEF BaseInv, ServicesOK
<1>6. CountsAgree'
  <2>1. ASSUME NEW t \in Services
        PROVE  /\ Children(t)' = Children(t) /\ Idle(t)' = Idle(t)
               /\ svc'[t].total_proc = svc[t].total_proc
               /\ svc'[t].avail_proc = svc[t].avail_proc
    BY <1>1 DEF Children, Idle
  <2>2. QED
    BY <2>1 DEF BaseInv, CountsAgree
<1>7. GoneInv'
  BY <1>1 DEF BaseInv, GoneInv, Of
<1>8. QED
  BY <1>3, <1>4, <1>5, <1>6, <1>7 DEF BaseInv

LEMMA StopBeginsBase ==
    ASSUME BaseInv, NEW s \in Services, StopBegins(s)
    PROVE  BaseInv'
<1> DEFINE r == master_throttle(svc[s])
<1>1. /\ place = "stop" /\ s \in doomed /\ s \in configured /\ due = {} /\ ready = {}
      /\ stopping' = s
      /\ sigterm' \in SUBSET Pids
      /\ svc' = [svc EXCEPT ![s] = r]
      /\ fd' = StatusClosed(s)
      /\ deleted' = TRUE
      /\ UNCHANGED <<child, serv, pending, statusOpen, deaths, table, avail, due, ready, fault,
                     forkFails, configured, doomed, place, used, refreshes, connects, kept, lowered, mixed>>
  BY DEF StopBegins, BaseInv, TypeOK, ReloadTypeOK, PlaceInv
<1>2. r \in MASTER_SERV /\ RecOK(r) /\ SameCounts(r, svc[s]) /\ r.throttle
  BY ThrottleRec DEF BaseInv, TypeOK, ServicesOK
<1> HIDE DEF r
<1>3. /\ svc' \in [Services -> MASTER_SERV]
      /\ svc'[s] = r
      /\ \A t \in Services : t # s => svc'[t] = svc[t]
  BY <1>1, <1>2 DEF BaseInv, TypeOK
<1>4. /\ pipe' \in [Services -> Seq(MASTER_STATUS(Pids))]
      /\ pipe'[s] = <<>>
      /\ \A t \in Services : t # s => pipe'[t] = pipe[t]
      /\ orphans' \in SUBSET Pids
      /\ Of(s) \subseteq orphans'
  BY StatusCleanup DEF StopBegins
<1>5. TypeOK'
  BY <1>1, <1>3, <1>4, NumbersType DEF BaseInv, TypeOK, ChildTypeOK
<1>6. ReloadTypeOK' /\ TableInv' /\ PlaceInv' /\ EventsConfigured'
  BY <1>1, <1>4 DEF BaseInv, ReloadTypeOK, TableInv, PlaceInv, EventsConfigured
<1>7. CountsAgree' /\ ServicesOK'
  <2>1. ASSUME NEW t \in Services PROVE Children(t)' = Children(t) /\ Idle(t)' = Idle(t)
    BY <1>1 DEF Children, Idle
  <2>2. ASSUME NEW t \in Services PROVE SameCounts(svc'[t], svc[t]) /\ RecOK(svc'[t])
    BY <1>2, <1>3 DEF BaseInv, ServicesOK, SameCounts
  <2>3. CountsAgree'
    BY <2>1, <2>2 DEF BaseInv, CountsAgree, SameCounts
  <2>4. QED
    BY <2>2, <2>3 DEF ServicesOK
<1>8. GoneInv' /\ StopInv'
  BY <1>1, <1>2, <1>3, <1>4 DEF BaseInv, GoneInv, StopInv, Of
<1>9. QED
  BY <1>5, <1>6, <1>7, <1>8 DEF BaseInv

LEMMA StopEndsBase ==
    ASSUME BaseInv, NEW s \in Services, StopEnds(s)
    PROVE  BaseInv'
<1> DEFINE r == master_avail_cleanup(svc[s])
<1>1. /\ place = "stop" /\ stopping = s /\ s \in configured /\ due = {} /\ ready = {}
      /\ svc[s].total_proc <= 0
      /\ svc' = [svc EXCEPT ![s] = r]
      /\ pending' = [pending EXCEPT ![s] = 0]
      /\ fd' = [fd EXCEPT ![<<"listen", s>>] = -1]
      /\ configured' = configured \ {s}
      /\ doomed' = doomed \ {s}
      /\ stopping' = NoService
      /\ place' \in {"loop", "stop"}
      /\ UNCHANGED <<child, serv, pipe, statusOpen, deaths, table, avail, due, ready, fault,
                     forkFails, orphans, sigterm, used, refreshes, connects, deleted, kept,
                     lowered, mixed>>
  BY ChildAssumption DEF StopEnds, BaseInv, TypeOK, ReloadTypeOK, PlaceInv
<1>2. /\ r \in MASTER_SERV /\ RecOK(r) /\ SameCounts(r, svc[s])
      /\ ~r.timer /\ ~r.registered
  BY CleanupRec DEF BaseInv, TypeOK, ServicesOK
<1> HIDE DEF r
<1>3. /\ svc' \in [Services -> MASTER_SERV]
      /\ svc'[s] = r
      /\ \A t \in Services : t # s => svc'[t] = svc[t]
  BY <1>1, <1>2 DEF BaseInv, TypeOK
<1>4. Of(s) = {}
  <2>1. IsFiniteSet(Children(s)) /\ svc[s].total_proc = Cardinality(Children(s))
    BY FS_Subset DEF BaseInv, TableInv, Children, CountsAgree
  <2>2. Cardinality(Children(s)) = 0
    BY <1>1, <2>1, FS_CardinalityType
  <2>3. Children(s) = {}
    BY <2>1, <2>2, FS_EmptySet
  <2>4. QED
    BY <2>3, ChildAssumption DEF BaseInv, TypeOK, ChildTypeOK, TableInv, Of, Children
<1>5. TypeOK'
  BY <1>1, <1>3, NumbersType DEF BaseInv, TypeOK, ChildTypeOK
<1>6. ReloadTypeOK' /\ TableInv' /\ PlaceInv' /\ EventsConfigured' /\ StopInv'
  BY <1>1 DEF BaseInv, ReloadTypeOK, TableInv, PlaceInv, EventsConfigured, StopInv
<1>7. CountsAgree' /\ ServicesOK'
  BY <1>1, <1>2, <1>3 DEF BaseInv, CountsAgree, Children, Idle, ServicesOK, SameCounts
<1>8. GoneInv'
  BY <1>1, <1>2, <1>3, <1>4, ChildAssumption DEF BaseInv, GoneInv, StopInv, Of
<1>9. QED
  BY <1>5, <1>6, <1>7, <1>8 DEF BaseInv

\* What a step of a process leaves alone, and what may arrive in a channel.
ProcessFrame ==
    /\ ChildTypeOK'
    /\ serv' = serv
    /\ statusOpen' = statusOpen
    /\ \A q \in Pids : child'[q] = "none" <=> child[q] = "none"
    /\ \A t \in Services :
          \/ pipe'[t] = pipe[t]
          \/ \E p \in Pids \ orphans, m \in MASTER_STATUS(Pids) :
                serv[p] = t /\ m.pid = p /\ pipe'[t] = Append(pipe[t], m)

(* A process writes about itself, to the channel of its service.            *)
LEMMA NotifyStep ==
    ASSUME ChildTypeOK, NEW p \in Pids \ orphans, child[p] # "none",
           NEW status \in Availability, Notify(p, status)
    PROVE  /\ pipe' \in [Services -> Seq(MASTER_STATUS(Pids))]
           /\ \A t \in Services :
                 \/ pipe'[t] = pipe[t]
                 \/ \E q \in Pids \ orphans, m \in MASTER_STATUS(Pids) :
                       serv[q] = t /\ m.pid = q /\ pipe'[t] = Append(pipe[t], m)
<1> DEFINE s == serv[p]
           m == [pid |-> p, avail |-> status]
<1>1. /\ s \in Services /\ pipe \in [Services -> Seq(MASTER_STATUS(Pids))]
      /\ pipe[s] \in Seq(MASTER_STATUS(Pids))
      /\ m \in MASTER_STATUS(Pids) /\ m.pid = p
  BY DEF ChildTypeOK, MASTER_STATUS
<1>2. pipe' = [pipe EXCEPT ![s] = IF statusOpen THEN Append(pipe[s], m) ELSE pipe[s]]
  BY DEF Notify, master_notify
<1> DEFINE c == IF statusOpen THEN Append(pipe[s], m) ELSE pipe[s]
<1>3. c \in Seq(MASTER_STATUS(Pids)) /\ (c = pipe[s] \/ c = Append(pipe[s], m))
  BY <1>1
<1>4. pipe' = [pipe EXCEPT ![s] = c]
  BY <1>2
<1> HIDE DEF c
<1>5. /\ pipe' \in [Services -> Seq(MASTER_STATUS(Pids))]
      /\ pipe'[s] = c
      /\ \A t \in Services : t # s => pipe'[t] = pipe[t]
  BY <1>1, <1>3, <1>4
<1> HIDE DEF m
<1>6. QED
  BY <1>1, <1>3, <1>5

LEMMA ProcessLemma ==
    ASSUME ChildTypeOK, NEW p \in Pids,
           ReloadServerStep(p) \/ ServiceReturns(p) \/ ChildDies(p) \/ Terminated(p)
    PROVE  ProcessFrame
<1> USE DEF Phases
<1>1. ASSUME NEW phase \in Phases \ {"none"}, child[p] # "none", Goto(p, phase),
             UNCHANGED <<serv, pipe, statusOpen>>, pending' \in [Services -> Nat], deaths' \in Nat
      PROVE  ProcessFrame
  BY <1>1, GotoLemma DEF ProcessFrame, ChildTypeOK
<1>2. pending \in [Services -> Nat] /\ deaths \in Nat
  BY DEF ChildTypeOK
<1>3. CASE single_server_main(p)
  BY <1>1, <1>2, <1>3 DEF single_server_main
<1>4. CASE child_event_wait(p)
  BY <1>1, <1>2, <1>4 DEF child_event_wait
<1>5. CASE single_server_accept_inet(p)
  <2>1. serv[p] \in Services
    BY <1>5 DEF single_server_accept_inet, ChildTypeOK
  <2>2. CASE pending[serv[p]] > 0 /\ pending' = [pending EXCEPT ![serv[p]] = @ - 1]
             /\ Goto(p, "accepted")
    <3>1. pending[serv[p]] - 1 \in Nat
      BY <1>2, <2>1, <2>2
    <3>2. pending' \in [Services -> Nat]
      BY <1>2, <2>2, <3>1
    <3>3. QED
      BY <1>1, <1>2, <1>5, <2>2, <3>2 DEF single_server_accept_inet
  <2>3. CASE Goto(p, "waiting") /\ UNCHANGED pending
    BY <1>1, <1>2, <1>5, <2>3 DEF single_server_accept_inet
  <2>4. QED
    BY <1>5, <2>2, <2>3 DEF single_server_accept_inet
<1>6. CASE p \notin orphans /\ NotifyTaken(p)
  BY <1>6, GotoLemma, NotifyStep
     DEF NotifyTaken, Notify, Availability, ProcessFrame, ChildTypeOK
<1>7. CASE p \notin orphans /\ NotifyAvail(p)
  BY <1>7, GotoLemma, NotifyStep
     DEF NotifyAvail, Notify, Availability, ProcessFrame, ChildTypeOK
<1>8. CASE OrphanNotifies(p)
  BY <1>1, <1>2, <1>8 DEF OrphanNotifies
<1>9. CASE ServiceReturns(p)
  BY <1>1, <1>2, <1>9 DEF ServiceReturns
<1>10. CASE ChildDies(p)
  BY <1>1, <1>2, <1>10 DEF ChildDies, Alive
<1>11. CASE Terminated(p)
  BY <1>1, <1>2, <1>11 DEF Terminated, Alive
<1>12. QED
  BY <1>3, <1>4, <1>5, <1>6, <1>7, <1>8, <1>9, <1>10, <1>11 DEF ReloadServerStep

(* Nobody writes to the channel of a service that is gone or going.         *)
LEMMA ProcessBase ==
    ASSUME BaseInv, ProcessFrame, UNCHANGED <<masterVars, reloadVars>>
    PROVE  BaseInv'
<1>1. TypeOK'
  BY DEF BaseInv, TypeOK, ProcessFrame, masterVars
<1>2. CountsAgree'
  BY SameCountsLemma DEF BaseInv, ProcessFrame, masterVars, SameCounts
<1>3. ReloadTypeOK' /\ TableInv' /\ PlaceInv' /\ EventsConfigured' /\ ServicesOK'
  BY DEF BaseInv, ReloadTypeOK, TableInv, PlaceInv, EventsConfigured, ServicesOK, ProcessFrame,
         masterVars, reloadVars
<1>4. ASSUME NEW t \in Services, Of(t) \subseteq orphans PROVE pipe'[t] = pipe[t]
  BY <1>4 DEF ProcessFrame, Of
<1>5. GoneInv'
  BY <1>4 DEF BaseInv, GoneInv, Of, ProcessFrame, masterVars, reloadVars
<1>6. StopInv'
  BY <1>4 DEF BaseInv, TypeOK, ReloadTypeOK, StopInv, Of, ProcessFrame, masterVars, reloadVars
<1>7. QED
  BY <1>1, <1>2, <1>3, <1>5, <1>6 DEF BaseInv

LEMMA NextBase == BaseInv /\ [ReloadNext]_allVars => BaseInv'
<1> SUFFICES ASSUME BaseInv, [ReloadNext]_allVars PROVE BaseInv'
  OBVIOUS
<1>0. ChildTypeOK
  BY DEF BaseInv, TypeOK
<1>1. CASE EventWait
  BY <1>1, EventWaitBase
<1>2. ASSUME NEW s \in Services, Unthrottle(s) PROVE BaseInv'
  BY <1>2, UnthrottleBase
<1>3. ASSUME NEW s \in Services, ListenEvent(s) PROVE BaseInv'
  BY <1>3, ListenBase
<1>4. ASSUME NEW s \in Services, StatusEvent(s) PROVE BaseInv'
  BY <1>4, StatusBase
<1>5. ASSUME NEW s \in Services, StopBegins(s) PROVE BaseInv'
  BY <1>5, StopBeginsBase
<1>6. ASSUME NEW s \in Services, StopEnds(s) PROVE BaseInv'
  BY <1>6, StopEndsBase
<1>7. CASE ReapBegins \/ ReapEnds \/ BeginRefresh \/ EndReading
  BY <1>7, MoveBase
<1>8. ASSUME NEW p \in Pids, NEW ok \in BOOLEAN, ReapOne(p, ok) PROVE BaseInv'
  BY <1>8, ReapBase
<1>9. ASSUME NEW s \in Services, NEW limit \in Limits[s], ReadEntry(s, limit) PROVE BaseInv'
  BY <1>9, EntryBase
<1>10. ASSUME NEW s \in configured, ReloadConnect(s) PROVE BaseInv'
  <2>1. /\ UNCHANGED <<child, serv, pipe, statusOpen, deaths>>
        /\ pending' = [pending EXCEPT ![s] = @ + 1]
        /\ connects' = connects + 1
        /\ UNCHANGED <<masterVars, configured, doomed, stopping, place, orphans, sigterm, used,
                       refreshes, deleted, kept, lowered, mixed>>
    BY <1>10 DEF ReloadConnect, Connect
  <2>2. TypeOK'
    <3>1. pending' \in [Services -> Nat]
      BY <2>1 DEF BaseInv, TypeOK, ReloadTypeOK, ChildTypeOK
    <3>2. QED
      BY <2>1, <3>1 DEF BaseInv, TypeOK, ChildTypeOK, masterVars
  <2>3. CountsAgree'
    BY <2>1, SameCountsLemma DEF BaseInv, masterVars, SameCounts
  <2>4. ReloadTypeOK' /\ TableInv' /\ PlaceInv' /\ EventsConfigured' /\ ServicesOK' /\ GoneInv' /\ StopInv'
    BY <2>1 DEF BaseInv, ReloadTypeOK, TableInv, PlaceInv, EventsConfigured, ServicesOK, GoneInv,
                StopInv, Of, masterVars
  <2>5. QED
    BY <2>2, <2>3, <2>4 DEF BaseInv
<1>11. CASE ProcessStep /\ UNCHANGED <<masterVars, reloadVars>>
  BY <1>0, <1>11, ProcessLemma, ProcessBase DEF ProcessStep
<1>12. CASE UNCHANGED allVars
  <2>1. ProcessFrame
    BY <1>0, <1>12 DEF allVars, vars, childVars, ProcessFrame, ChildTypeOK
  <2>2. QED
    BY <1>12, <2>1, ProcessBase DEF allVars, vars
<1>13. ASSUME NEW e \in Events, Panic(e) PROVE BaseInv'
  <2>1. /\ msg_panic("bad file descriptor")
        /\ due' \in SUBSET due /\ ready' \in SUBSET ready
        /\ LoopFrame /\ UNCHANGED <<used, kept, mixed>>
    BY <1>13 DEF Panic, DispatchPanics, NextEvent, LoopFrame, reloadVars
  <2>2. used' \in SUBSET Pids /\ kept' \in BOOLEAN /\ mixed' \in BOOLEAN
    BY <2>1 DEF BaseInv, ReloadTypeOK
  <2>3. QED
    BY <2>1, <2>2, PanicBase DEF Faults
<1>14. QED
  BY <1>1, <1>2, <1>3, <1>4, <1>5, <1>6, <1>7, <1>8, <1>9, <1>10, <1>11, <1>12, <1>13
     DEF ReloadNext, ManagerStep

THEOREM BaseInvariance == ReloadSpec => []BaseInv
BY InitBase, NextBase, PTL DEF ReloadSpec

(* The counters agree with the table and the table with the kernel, however *)
(* often processes die and are reaped and services are restarted, dropped   *)
(* and taken up again.                                                      *)
THEOREM ReloadCountsHold == ReloadSpec => []ReloadCounts
<1>1. BaseInv => ReloadCounts
  BY DEF BaseInv, TypeOK, TableInv, ReloadCounts
<1>2. QED
  BY <1>1, BaseInvariance, PTL

(* A service that was deleted has no process, no timer, no request and no   *)
(* unread message, and nothing in the manager refers to it.                 *)
THEOREM NothingIsLeft == ReloadSpec => []NothingLeft
<1>1. BaseInv => NothingLeft
  BY ChildAssumption DEF BaseInv, ReloadTypeOK, GoneInv, NothingLeft
<1>2. QED
  BY <1>1, BaseInvariance, PTL
-----------------------------------------------------------------------------
(* Until a service is deleted, every descriptor keeps the number that       *)
(* main() got for it: master_restart_service() closes the two ends of a     *)
(* pipe and gets them back.                                                 *)

LEMMA Thirds ==
    ASSUME NEW n \in Nat
    PROVE  \E q \in Nat, j \in {0, 1, 2} : n = 3 * q + j
<1>1. n \div 3 \in Nat /\ n % 3 \in 0..2 /\ n = 3 * (n \div 3) + (n % 3)
  OBVIOUS
<1>2. n % 3 \in {0, 1, 2}
  BY <1>1
<1>3. QED
  BY <1>1, <1>2

LEMMA SameNumbers ==
    ASSUME NumbersInv, NEW s \in Services, NEW g, StatusNumbers(StatusClosed(s), s, g)
    PROVE  g = fd
<1> DEFINE f == StatusClosed(s)
           P == Position[s]
           Closed(e) == e \in {<<"status", s>>, <<"report", s>>}
<1>1. P \in Nat /\ \A t \in Services : Position[t] \in Nat /\ (Position[t] = P => t = s)
  BY PositionAssumption
<1>2. /\ fd \in [Ends -> Int] /\ f \in [Ends -> Int]
      /\ \A e \in Ends : f[e] = IF Closed(e) THEN -1 ELSE fd[e]
  <2>1. fd \in [Ends -> Int]
    BY FirstNumbersType DEF NumbersInv
  <2>2. f \in [Ends -> Int]
    BY <2>1, NumbersType
  <2>3. QED
    BY <2>1, <2>2 DEF StatusClosed
<1>3. \A kind \in {"listen", "status", "report"}, t \in Services :
        <<kind, t>> \in Ends /\ fd[<<kind, t>>] = 3 * Position[t] + Offset[kind]
  BY DEF NumbersInv, FirstNumbers, Ends
<1>4. Offset["listen"] = 1 /\ Offset["status"] = 2 /\ Offset["report"] = 3
  BY DEF Offset
<1> HIDE DEF f
<1>5. ASSUME NEW n \in 1..(3 * P + 1) PROVE n \in Open(f)
  <2>0. n \in Int /\ n - 1 \in Nat
    BY <1>1
  <2>1. PICK q \in Nat, j \in {0, 1, 2} : n - 1 = 3 * q + j
    BY <2>0, Thirds
  <2>2. q \in 0..P /\ (q = P => j = 0)
    BY <1>1, <2>0, <2>1
  <2>3. PICK t \in Services : Position[t] = q
    BY <2>2, PositionAssumption
  <2>4. PICK kind \in {"listen", "status", "report"} : Offset[kind] = j + 1
    BY <2>1, <1>4
  <2>5. fd[<<kind, t>>] = n /\ <<kind, t>> \in Ends
    BY <1>3, <2>0, <2>1, <2>3, <2>4
  <2>6. ~Closed(<<kind, t>>)
    <3>1. CASE q = P
      <4>1. Offset[kind] = 1
        BY <2>2, <2>4, <3>1
      <4>2. kind # "status" /\ kind # "report"
        BY <1>4, <4>1
      <4>3. QED
        BY <4>2
    <3>2. CASE q # P
      BY <2>3, <3>2
    <3>3. QED
      BY <3>1, <3>2
  <2>7. f[<<kind, t>>] = n /\ n # -1
    BY <1>2, <2>5, <2>6
  <2>8. QED
    BY <2>5, <2>7 DEF Open
<1>6. ASSUME NEW n \in {3 * P + 2, 3 * P + 3} PROVE n \notin Open(f)
  <2> SUFFICES ASSUME NEW e \in Ends, f[e] = n PROVE FALSE
    BY DEF Open
  <2>1. n # -1 /\ ~Closed(e) /\ fd[e] = n
    BY <1>1, <1>2, <1>6
  <2>2. PICK kind \in {"listen", "status", "report"}, t \in Services : e = <<kind, t>>
    BY DEF Ends
  <2>3. 3 * Position[t] + Offset[kind] = n /\ Offset[kind] \in {1, 2, 3}
    BY <1>3, <1>4, <2>1, <2>2
  <2>4. Position[t] = P /\ Offset[kind] # 1
    BY <1>1, <1>6, <2>3
  <2>5. t = s /\ kind # "listen"
    BY <1>1, <1>4, <2>4
  <2>6. QED
    BY <2>1, <2>2, <2>5
<1>7. PICK r \in Numbers, w \in Numbers :
        /\ IsLowestFree(r, Open(f))
        /\ IsLowestFree(w, Open(f) \cup {r})
        /\ g = [f EXCEPT ![<<"status", s>>] = r, ![<<"report", s>>] = w]
  BY DEF StatusNumbers, f
<1>8. r \in Int /\ w \in Int /\ r >= 1 /\ w >= 1
  BY DEF Numbers
<1>9. r = 3 * P + 2
  <2>1. ~(r \in 1..(3 * P + 1))
    BY <1>5, <1>7 DEF IsLowestFree
  <2>2. ~(3 * P + 2 \in 1..(r - 1))
    BY <1>6, <1>7 DEF IsLowestFree
  <2>3. QED
    BY <1>1, <1>8, <2>1, <2>2
<1>10. w = 3 * P + 3
  <2>1. ~(w \in 1..(3 * P + 1)) /\ w # r
    BY <1>5, <1>7 DEF IsLowestFree
  <2>2. 3 * P + 3 \notin Open(f) \cup {r}
    BY <1>1, <1>6, <1>9
  <2>3. ~(3 * P + 3 \in 1..(w - 1))
    BY <1>7, <2>2 DEF IsLowestFree
  <2>4. w >= 3 * P + 3
    BY <1>1, <1>8, <1>9, <2>1
  <2>5. w <= 3 * P + 3
    BY <1>1, <1>8, <2>3
  <2>6. QED
    BY <1>1, <1>8, <2>4, <2>5
<1>11. fd[<<"status", s>>] = r /\ fd[<<"report", s>>] = w
  BY <1>3, <1>4, <1>9, <1>10
<1>12. QED
  <2>1. g \in [Ends -> Int] /\ \A e \in Ends : g[e] = fd[e]
    BY <1>2, <1>3, <1>7, <1>8, <1>11
  <2>2. QED
    BY <1>2, <2>1

LEMMA InitOpened == ReloadInit => OpenedInv
BY DEF ReloadInit, Init, OpenedInv, NumbersInv

LEMMA NextOpened == BaseInv /\ OpenedInv /\ [ReloadNext]_allVars => OpenedInv'
<1> SUFFICES ASSUME BaseInv, OpenedInv, [ReloadNext]_allVars PROVE OpenedInv'
  OBVIOUS
<1>1. ASSUME UNCHANGED <<fd, deleted, configured, stopping>> PROVE OpenedInv'
  BY <1>1 DEF OpenedInv, NumbersInv
<1>2. CASE EventWait
  BY <1>1, <1>2 DEF EventWait, event_wait, reloadVars
<1>3. ASSUME NEW s \in Services, Unthrottle(s) PROVE OpenedInv'
  BY <1>1, <1>3 DEF Unthrottle, master_unthrottle_wrapper, reloadVars
<1>4. ASSUME NEW s \in Services, ListenEvent(s) PROVE OpenedInv'
  BY <1>1, <1>4 DEF ListenEvent, master_avail_event, master_spawn, msg_panic, ForkFails, ForkSucceeds
<1>5. ASSUME NEW s \in Services, StatusEvent(s) PROVE OpenedInv'
  BY <1>1, <1>5 DEF StatusEvent, master_status_event
<1>6. ASSUME NEW e \in Events, Panic(e) PROVE OpenedInv'
  BY <1>1, <1>6 DEF Panic, DispatchPanics, msg_panic, reloadVars
<1>7. ASSUME NEW s \in Services, StopBegins(s) PROVE OpenedInv'
  BY <1>7 DEF StopBegins, OpenedInv
<1>8. ASSUME NEW s \in Services, StopEnds(s) PROVE OpenedInv'
  BY <1>8, ChildAssumption DEF StopEnds, OpenedInv
<1>9. CASE ReapBegins \/ ReapEnds \/ BeginRefresh \/ EndReading
  BY <1>1, <1>9 DEF ReapBegins, ReapEnds, BeginRefresh, EndReading, vars, masterVars
<1>10. ASSUME NEW p \in Pids, NEW ok \in BOOLEAN, ReapOne(p, ok) PROVE OpenedInv'
  BY <1>1, <1>10 DEF ReapOne, msg_panic
<1>11. ASSUME NEW s \in Services, NEW limit \in Limits[s], ReadEntry(s, limit) PROVE OpenedInv'
  <2> SUFFICES ASSUME ~deleted' PROVE NumbersInv' /\ configured' = Services /\ stopping' = NoService
    BY DEF OpenedInv
  <2>1. deleted' = deleted /\ stopping' = stopping
    BY <1>11 DEF ReadEntry
  <2>2. NumbersInv /\ configured = Services /\ stopping = NoService
    BY <2>1 DEF OpenedInv
  <2>3. OldEntry(s, limit)
    BY <1>11, <2>2 DEF ReadEntry, NewEntry
  <2>4. StatusNumbers(StatusClosed(s), s, fd') /\ configured' = configured
    BY <2>3 DEF OldEntry
  <2>5. fd' = fd
    BY <2>2, <2>4, SameNumbers
  <2>6. QED
    BY <2>1, <2>2, <2>4, <2>5 DEF NumbersInv
<1>12. ASSUME NEW s \in configured, ReloadConnect(s) PROVE OpenedInv'
  BY <1>1, <1>12 DEF ReloadConnect, masterVars
<1>13. CASE UNCHANGED <<masterVars, reloadVars>>
  BY <1>1, <1>13 DEF masterVars, reloadVars
<1>14. QED
  BY <1>2, <1>3, <1>4, <1>5, <1>6, <1>7, <1>8, <1>9, <1>10, <1>11, <1>12, <1>13
     DEF ReloadNext, ManagerStep, allVars, vars

THEOREM OpenedInvariance == ReloadSpec => []OpenedInv
BY InitOpened, NextOpened, BaseInvariance, PTL DEF ReloadSpec

(* The deletion of a service comes before a panic of the event loop.        *)
LEMMA DispatchExplained ==
    ASSUME OpenedInv, NEW e \in Events, Panic(e)
    PROVE  deleted
BY NumbersLemma DEF OpenedInv, Panic, DispatchPanics
-----------------------------------------------------------------------------
(* The layer of PanicInv.                                                   *)

LEMMA InitPanic == ReloadInit => PanicInv
<1> SUFFICES ASSUME ReloadInit PROVE PanicInv
  OBVIOUS
<1>1. \A s \in Services : LimitRec(svc[s])
  <2> SUFFICES ASSUME NEW s \in Services PROVE LimitRec(svc[s])
    OBVIOUS
  <2>1. MaxProc[s] \in Nat /\ svc[s] = master_start_service(get_master_ent(MaxProc[s]))
    BY MasterAssumption DEF ReloadInit, Init
  <2>2. QED
    BY <2>1, StartRec DEF LimitRec, listen_flag
<1>2. QED
  BY <1>1 DEF ReloadInit, Init, ChildInit, PanicInv, LimitInv, ReadyLimit, SendersKnown, PanicsExplained

(* The limits are kept by a step that neither changes a counter nor allows  *)
(* a request beyond the limit.                                              *)
LEMMA LimitKept ==
    ASSUME LimitInv, lowered' = lowered, ready' \in SUBSET ready,
           \A s \in Services : SameCounts(svc'[s], svc[s]),
           \A s \in Services : svc'[s].listen => svc[s].listen \/ listen_flag(svc'[s])
    PROVE  LimitInv'
BY DEF LimitInv, ReadyLimit, LimitRec, SameCounts, listen_flag

Leaves(q) == serv'[q] = serv[q] \/ serv'[q] = NoService
Shrinks(s) == \/ pipe'[s] = pipe[s]
              \/ pipe'[s] = <<>>
              \/ pipe[s] # <<>> /\ pipe'[s] = Tail(pipe[s])

(* The senders are known as long as processes at most leave their service   *)
(* and channels lose messages.                                              *)
LEMMA SendersKept ==
    ASSUME BaseInv, SendersKnown, mixed' = mixed,
           \A q \in Pids : Leaves(q), \A s \in Services : Shrinks(s)
    PROVE  SendersKnown'
<1> SUFFICES ASSUME ~mixed, NEW s \in Services, NEW i \in 1..Len(pipe'[s])
             PROVE  serv'[pipe'[s][i].pid] \in {s, NoService}
  BY DEF SendersKnown
<1>1. pipe[s] \in Seq(MASTER_STATUS(Pids))
  BY DEF BaseInv, TypeOK, ChildTypeOK
<1>2. \A j \in 1..Len(pipe[s]) : pipe[s][j].pid \in Pids /\ serv[pipe[s][j].pid] \in {s, NoService}
  <2>1. \A j \in 1..Len(pipe[s]) : pipe[s][j] \in MASTER_STATUS(Pids)
    BY <1>1
  <2>2. QED
    BY <2>1 DEF SendersKnown, MASTER_STATUS
<1>3. PICK j \in 1..Len(pipe[s]) : pipe'[s][i] = pipe[s][j]
  <2>1. CASE pipe'[s] = pipe[s]
    BY <2>1
  <2>2. CASE pipe'[s] = <<>>
    BY <2>2
  <2>3. CASE pipe[s] # <<>> /\ pipe'[s] = Tail(pipe[s])
    <3>1. /\ Len(pipe[s]) \in Nat /\ Len(Tail(pipe[s])) = Len(pipe[s]) - 1
          /\ \A k \in 1..Len(Tail(pipe[s])) : Tail(pipe[s])[k] = pipe[s][k+1]
      BY <1>1, <2>3, HeadTailProperties
    <3>2. i + 1 \in 1..Len(pipe[s]) /\ pipe'[s][i] = pipe[s][i+1]
      BY <2>3, <3>1
    <3>3. QED
      BY <3>2
  <2>4. QED
    BY <2>1, <2>2, <2>3 DEF Shrinks
<1>4. QED
  BY <1>2, <1>3 DEF Leaves

LEMMA EventWaitPanic ==
    ASSUME BaseInv, PanicInv, EventWait
    PROVE  PanicInv'
<1>1. /\ ready' = ReadyEvents
      /\ UNCHANGED <<childVars, svc, fault, reloadVars>>
  BY DEF EventWait, event_wait
<1>2. LimitInv'
  BY <1>1 DEF BaseInv, ServicesOK, RecOK, PanicInv, LimitInv, ReadyLimit, LimitRec, ReadyEvents, reloadVars
<1>3. SendersKnown' /\ PanicsExplained'
  BY <1>1 DEF PanicInv, SendersKnown, PanicsExplained, childVars, reloadVars
<1>4. QED
  BY <1>2, <1>3 DEF PanicInv

LEMMA UnthrottlePanic ==
    ASSUME BaseInv, PanicInv, NEW s \in Services, Unthrottle(s)
    PROVE  PanicInv'
<1> DEFINE r == master_unthrottle([svc[s] EXCEPT !.timer = FALSE])
<1>1. /\ svc' = [svc EXCEPT ![s] = r]
      /\ ready' = ready
      /\ UNCHANGED <<childVars, fault, reloadVars>>
  BY DEF Unthrottle, master_unthrottle_wrapper
<1>2. SameCounts(r, svc[s]) /\ (r.listen => svc[s].listen \/ listen_flag(r))
  BY UnthrottleRec DEF BaseInv, TypeOK, ServicesOK
<1> HIDE DEF r
<1>3. svc'[s] = r /\ \A t \in Services : t # s => svc'[t] = svc[t]
  BY <1>1 DEF BaseInv, TypeOK
<1>4. LimitInv'
  BY <1>1, <1>2, <1>3, LimitKept DEF PanicInv, SameCounts, reloadVars
<1>5. SendersKnown' /\ PanicsExplained'
  BY <1>1 DEF PanicInv, SendersKnown, PanicsExplained, childVars, reloadVars
<1>6. QED
  BY <1>4, <1>5 DEF PanicInv

(* A fork finds room unless a limit was lowered, and the new process has no *)
(* unread messages unless pids are mixed up from here on.                   *)
LEMMA ForkPanic ==
    ASSUME BaseInv, PanicInv, NEW s \in Services, NEW p \in Pids, ForkSucceeds(s, p),
           MASTER_LIMIT_OK(svc[s].max_proc, svc[s].total_proc),
           ready' = ready \ {<<"listen", s>>}, lowered' = lowered, deleted' = deleted,
           mixed' = (mixed \/ \E q \in table' \ table : HasUnread(q))
    PROVE  PanicInv'
<1> DEFINE r == master_avail_more([svc[s] EXCEPT !.total_proc = @ + 1])
<1>1. svc[s] \in MASTER_SERV /\ RecOK(svc[s])
  BY DEF BaseInv, TypeOK, ServicesOK
<1>2. /\ r \in MASTER_SERV
      /\ r.max_proc = svc[s].max_proc /\ r.total_proc = svc[s].total_proc + 1
      /\ r.listen <=> listen_flag(r)
  BY <1>1, ForkRec DEF Recounted
<1>3. svc' = [svc EXCEPT ![s] = r]
  BY DEF ForkSucceeds
<1> HIDE DEF r
<1>4. svc'[s] = r /\ \A t \in Services : t # s => svc'[t] = svc[t]
  BY <1>3 DEF BaseInv, TypeOK
<1>5. LimitRec(r)
  BY <1>1, <1>2 DEF LimitRec, listen_flag, MASTER_LIMIT_OK, MASTER_SERV
<1>6. LimitInv'
  BY <1>4, <1>5 DEF PanicInv, LimitInv, ReadyLimit
<1>7. SendersKnown'
  <2> SUFFICES ASSUME ~mixed', NEW t \in Services, NEW i \in 1..Len(pipe[t])
               PROVE  serv'[pipe[t][i].pid] \in {t, NoService}
    BY DEF SendersKnown, ForkSucceeds
  <2>1. p \in table' \ table
    BY DEF ForkSucceeds, BaseInv, TableInv
  <2>2. ~mixed /\ ~HasUnread(p)
    BY <2>1
  <2>3. pipe[t][i].pid # p
    BY <2>2 DEF HasUnread
  <2>4. serv[pipe[t][i].pid] \in {t, NoService}
    BY <2>2 DEF PanicInv, SendersKnown
  <2>5. serv' = [serv EXCEPT ![p] = s] /\ serv \in [Pids -> Services \cup {NoService}]
    BY DEF ForkSucceeds, BaseInv, TypeOK, ChildTypeOK
  <2>6. pipe[t][i].pid \in Pids
    <3>1. pipe[t] \in Seq(MASTER_STATUS(Pids))
      BY DEF BaseInv, TypeOK, ChildTypeOK
    <3>2. pipe[t][i] \in MASTER_STATUS(Pids)
      BY <3>1
    <3>3. QED
      BY <3>2 DEF MASTER_STATUS
  <2>7. QED
    BY <2>3, <2>4, <2>5, <2>6
<1>8. PanicsExplained'
  BY DEF PanicInv, PanicsExplained, ForkSucceeds
<1>9. QED
  BY <1>6, <1>7, <1>8 DEF PanicInv

(* A step of a callback that leaves the processes and channels alone.       *)
LEMMA ServicePanic ==
    ASSUME BaseInv, PanicInv, NEW s \in Services, NEW r \in MASTER_SERV,
           SameCounts(r, svc[s]), r.listen => svc[s].listen \/ listen_flag(r),
           svc' = [svc EXCEPT ![s] = r],
           UNCHANGED <<childVars, fault>>, ready' \in SUBSET ready,
           lowered' = lowered, deleted' = deleted, mixed' = mixed
    PROVE  PanicInv'
<1>1. svc'[s] = r /\ \A t \in Services : t # s => svc'[t] = svc[t]
  BY DEF BaseInv, TypeOK
<1>2. LimitInv'
  BY <1>1, LimitKept DEF PanicInv, SameCounts
<1>3. SendersKnown' /\ PanicsExplained'
  BY DEF PanicInv, SendersKnown, PanicsExplained, childVars
<1>4. QED
  BY <1>2, <1>3 DEF PanicInv

LEMMA ListenPanic ==
    ASSUME BaseInv, PanicInv, NEW s \in Services, ListenEvent(s)
    PROVE  PanicInv'
<1>1. /\ master_avail_event(s) /\ <<"listen", s>> \in ready
      /\ ready' = ready \ {<<"listen", s>>}
      /\ lowered' = lowered /\ deleted' = deleted
      /\ mixed' = (mixed \/ \E q \in table' \ table : HasUnread(q))
  BY DEF ListenEvent, master_avail_event, Dispatch, NextEvent
<1>2. svc[s] \in MASTER_SERV /\ RecOK(svc[s]) /\ mixed \in BOOLEAN
  BY DEF BaseInv, TypeOK, ReloadTypeOK, ServicesOK
<1>3. table' = table => mixed' = mixed
  BY <1>1, <1>2
<1>4. CASE svc[s].throttle
  <2>1. svc' = [svc EXCEPT ![s] = event_disable_listen(svc[s])]
        /\ UNCHANGED <<childVars, table, fault>>
    BY <1>1, <1>4 DEF master_avail_event
  <2>2. QED
    BY <1>1, <1>2, <1>3, <2>1, DisableRec, ServicePanic
<1>5. CASE ~svc[s].throttle
  <2>1. /\ master_spawn(s)
        /\ SpawnCheck(svc[s]) # "throttled"
        /\ SpawnCheck(svc[s]) \in {"none", "limit", "available"}
        /\ SpawnCheck(svc[s]) = "limit" <=> ~MASTER_LIMIT_OK(svc[s].max_proc, svc[s].total_proc)
    BY <1>1, <1>5 DEF master_avail_event, SpawnCheck
  <2>2. SpawnCheck(svc[s]) = "limit" => lowered
    BY <1>1, <2>1 DEF PanicInv, LimitInv, ReadyLimit
  <2>3. ASSUME NEW reason \in {"limit", "available"}, msg_panic(reason), reason = "limit" => lowered
        PROVE PanicInv'
    <3>1. UNCHANGED <<serv, pipe, svc, table>> /\ fault' = reason
      BY <2>3 DEF msg_panic
    <3>2. LimitInv' /\ PanicsExplained'
      BY <1>1, <1>3, <2>3, <3>1 DEF PanicInv, LimitInv, ReadyLimit, PanicsExplained
    <3>3. SendersKnown'
      BY <1>3, <3>1 DEF PanicInv, SendersKnown
    <3>4. QED
      BY <3>2, <3>3 DEF PanicInv
  <2>4. CASE ForkFails(s)
    <3>1. svc' = [svc EXCEPT ![s] = master_throttle(svc[s])]
          /\ UNCHANGED <<childVars, table, fault>>
      BY <2>4 DEF ForkFails
    <3>2. QED
      <4>1. /\ master_throttle(svc[s]) \in MASTER_SERV
            /\ SameCounts(master_throttle(svc[s]), svc[s])
            /\ master_throttle(svc[s]).listen = svc[s].listen
        BY <1>2, ThrottleRec
      <4>2. QED
        BY <1>1, <1>3, <3>1, <4>1, ServicePanic
  <2>5. ASSUME NEW p \in Pids, ForkSucceeds(s, p), SpawnCheck(svc[s]) = "none" PROVE PanicInv'
    BY <1>1, <2>1, <2>5, ForkPanic
  <2>6. QED
    BY <2>1, <2>2, <2>3, <2>4, <2>5 DEF master_spawn
<1>6. QED
  BY <1>4, <1>5

LEMMA StatusPanic ==
    ASSUME BaseInv, PanicInv, NEW s \in Services, StatusEvent(s)
    PROVE  PanicInv'
<1> DEFINE m == Head(pipe[s])
           corrupt == m.pid \in table /\ serv[m.pid] # s
           r == IF m.avail = MASTER_STAT_AVAIL
                THEN master_avail_more(svc[s]) ELSE master_avail_less(svc[s])
<1>1. /\ pipe[s] # <<>>
      /\ ready' \in SUBSET ready
      /\ pipe' = [pipe EXCEPT ![s] = Tail(@)]
      /\ serv' = serv /\ lowered' = lowered /\ deleted' = deleted /\ mixed' = mixed
      /\ fault' = IF corrupt THEN "pointer corruption" ELSE fault
      /\ IF IsNews(m) /\ ~corrupt THEN StatusChanges(s, m) ELSE UNCHANGED <<svc, avail>>
  BY DEF StatusEvent, master_status_event, Dispatch, NextEvent
<1>2. /\ pipe[s] \in Seq(MASTER_STATUS(Pids))
      /\ pipe'[s] = Tail(pipe[s])
      /\ \A t \in Services : t # s => pipe'[t] = pipe[t]
      /\ svc[s] \in MASTER_SERV /\ RecOK(svc[s]) /\ svc \in [Services -> MASTER_SERV]
  BY <1>1 DEF BaseInv, TypeOK, ChildTypeOK, ServicesOK
<1>3. corrupt => mixed
  <2> SUFFICES ASSUME corrupt, ~mixed PROVE FALSE
    BY DEF BaseInv, ReloadTypeOK
  <2>1. pipe[s] # <<>> /\ pipe[s] \in Seq(MASTER_STATUS(Pids))
    BY <1>1, <1>2
  <2>2. m = pipe[s][1] /\ 1 \in 1..Len(pipe[s])
    BY <2>1
  <2>3. serv[m.pid] = NoService
    BY <2>2 DEF PanicInv, SendersKnown
  <2>4. QED
    BY <2>3 DEF BaseInv, TypeOK, ChildTypeOK, TableInv
<1>4. LimitInv'
  <2>1. CASE IsNews(m) /\ ~corrupt
    <3>1. svc' = [svc EXCEPT ![s] = r]
      BY <1>1, <2>1 DEF StatusChanges
    <3>2. /\ r.max_proc = svc[s].max_proc /\ r.total_proc = svc[s].total_proc
          /\ r.listen <=> listen_flag(r)
      BY <1>2, MoreLess DEF Recounted
    <3> HIDE DEF r
    <3>3. svc'[s] = r /\ \A t \in Services : t # s => svc'[t] = svc[t]
      BY <1>2, <3>1
    <3>4. QED
      BY <1>1, <3>2, <3>3 DEF PanicInv, LimitInv, ReadyLimit, LimitRec, listen_flag
  <2>2. CASE ~(IsNews(m) /\ ~corrupt)
    <3>1. svc' = svc
      BY <1>1, <2>2
    <3>2. QED
      BY <1>1, <3>1 DEF PanicInv, LimitInv, ReadyLimit
  <2>3. QED
    BY <2>1, <2>2
<1>5. SendersKnown'
  <2>1. \A q \in Pids : Leaves(q)
    BY <1>1 DEF Leaves
  <2>2. \A t \in Services : Shrinks(t)
    BY <1>1, <1>2 DEF Shrinks
  <2>3. QED
    BY <1>1, <2>1, <2>2, SendersKept DEF PanicInv
<1> HIDE DEF m
<1>6. PanicsExplained'
  BY <1>1, <1>3 DEF PanicInv, PanicsExplained
<1>7. QED
  BY <1>4, <1>5, <1>6 DEF PanicInv

LEMMA StopBeginsPanic ==
    ASSUME BaseInv, PanicInv, NEW s \in Services, StopBegins(s)
    PROVE  PanicInv'
<1> DEFINE r == master_throttle(svc[s])
<1>1. /\ svc' = [svc EXCEPT ![s] = r]
      /\ deleted' = TRUE
      /\ UNCHANGED <<serv, ready, fault, lowered, mixed>>
  BY DEF StopBegins
<1>2. SameCounts(r, svc[s]) /\ r.listen = svc[s].listen
  BY ThrottleRec DEF BaseInv, TypeOK, ServicesOK
<1> HIDE DEF r
<1>3. svc'[s] = r /\ \A t \in Services : t # s => svc'[t] = svc[t]
  BY <1>1 DEF BaseInv, TypeOK
<1>4. LimitInv'
  BY <1>1, <1>2, <1>3, LimitKept DEF PanicInv, SameCounts
<1>5. SendersKnown'
  <2>1. \A q \in Pids : Leaves(q)
    BY <1>1 DEF Leaves
  <2>2. \A t \in Services : Shrinks(t)
    BY StatusCleanup DEF StopBegins, Shrinks
  <2>3. QED
    BY <1>1, <2>1, <2>2, SendersKept DEF PanicInv
<1>6. PanicsExplained'
  BY <1>1 DEF PanicInv, PanicsExplained
<1>7. QED
  BY <1>4, <1>5, <1>6 DEF PanicInv

LEMMA StopEndsPanic ==
    ASSUME BaseInv, PanicInv, NEW s \in Services, StopEnds(s)
    PROVE  PanicInv'
<1> DEFINE r == master_avail_cleanup(svc[s])
<1>1. /\ svc' = [svc EXCEPT ![s] = r]
      /\ UNCHANGED <<serv, pipe, ready, fault, deleted, lowered, mixed>>
  BY DEF StopEnds
<1>2. SameCounts(r, svc[s]) /\ ~r.listen
  BY CleanupRec DEF BaseInv, TypeOK, ServicesOK
<1> HIDE DEF r
<1>3. svc'[s] = r /\ \A t \in Services : t # s => svc'[t] = svc[t]
  BY <1>1 DEF BaseInv, TypeOK
<1>4. LimitInv'
  BY <1>1, <1>2, <1>3, LimitKept DEF PanicInv, SameCounts
<1>5. SendersKnown' /\ PanicsExplained'
  BY <1>1 DEF PanicInv, SendersKnown, PanicsExplained
<1>6. QED
  BY <1>4, <1>5 DEF PanicInv

(* A reaped process makes room, and its messages have no owner.             *)
LEMMA ReapPanic ==
    ASSUME BaseInv, PanicInv, NEW p \in Pids, NEW ok \in BOOLEAN, ReapOne(p, ok)
    PROVE  PanicInv'
<1> DEFINE s == serv[p]
           q == ReapRec(p, ok)
           r == master_delete_child(q, avail[p])
<1>1. /\ place = "reap" /\ s \in Services
      /\ q \in MASTER_SERV /\ RecOK(q) /\ SameCounts(q, svc[s])
      /\ q.listen = svc[s].listen
      /\ r.total_proc = svc[s].total_proc - 1
      /\ svc'[s] = r
      /\ \A t \in Services : t # s => svc'[t] = svc[t]
      /\ serv' = [serv EXCEPT ![p] = NoService]
      /\ UNCHANGED <<pipe, ready, fault>>
  BY ReapStep
<1>2. lowered' = lowered /\ deleted' = deleted /\ mixed' = mixed
  BY DEF ReapOne
<1>3. avail[p] \in Availability /\ svc[s] \in MASTER_SERV
  BY <1>1 DEF BaseInv, TypeOK
<1> HIDE DEF q
<1>4. /\ r.max_proc = svc[s].max_proc
      /\ \/ r.listen <=> listen_flag(r)
         \/ r.listen = svc[s].listen
  BY <1>1, <1>3, DeletedRec DEF Recounted, SameCounts
<1> HIDE DEF r
<1>5. LimitRec(svc[s]) => LimitRec(r)
  BY <1>1, <1>3, <1>4 DEF LimitRec, listen_flag, MASTER_LIMIT_OK, MASTER_SERV
<1>6. LimitInv'
  <2>1. ready' = {}
    BY <1>1 DEF BaseInv, PlaceInv
  <2>2. QED
    BY <1>1, <1>2, <1>5, <2>1 DEF PanicInv, LimitInv, ReadyLimit
<1>7. SendersKnown'
  <2>1. \A t \in Pids : Leaves(t)
    BY <1>1 DEF BaseInv, TypeOK, ChildTypeOK, Leaves
  <2>2. \A t \in Services : Shrinks(t)
    BY <1>1 DEF Shrinks
  <2>3. QED
    BY <1>1, <1>2, <2>1, <2>2, SendersKept DEF PanicInv
<1>8. PanicsExplained'
  BY <1>1, <1>2 DEF PanicInv, PanicsExplained
<1>9. QED
  BY <1>6, <1>7, <1>8 DEF PanicInv

(* An entry that lowers no limit leaves room where there was room.          *)
LEMMA EntryPanic ==
    ASSUME BaseInv, PanicInv, NEW s \in Services, NEW limit \in Limits[s], ReadEntry(s, limit)
    PROVE  PanicInv'
<1>1. /\ limit \in Nat /\ ready = {}
      /\ \A t \in Services : t # s => svc'[t] = svc[t]
      /\ pipe'[s] = <<>>
      /\ \A t \in Services : t # s => pipe'[t] = pipe[t]
      /\ UNCHANGED <<serv, ready, fault, deleted, mixed>>
  BY EntryStep
<1>2. lowered => lowered'
  BY EntryStep DEF BaseInv, ReloadTypeOK
<1>3. ASSUME ~lowered', NEW t \in Services PROVE LimitRec(svc'[t])
  <2>1. LimitRec(svc[t]) /\ svc[t] \in MASTER_SERV
    BY <1>2, <1>3 DEF PanicInv, LimitInv, BaseInv, TypeOK
  <2>2. CASE t # s
    BY <1>1, <2>1, <2>2
  <2>3. CASE t = s /\ svc'[s] = master_start_service(get_master_ent(limit))
    BY <1>1, <2>3, StartRec DEF LimitRec, listen_flag
  <2>4. CASE /\ t = s /\ svc'[s] = [svc[s] EXCEPT !.max_proc = limit]
             /\ lowered' = (lowered \/ Lowers(limit, svc[s].max_proc))
    <3>1. ~Lowers(limit, svc[s].max_proc)
      BY <1>3, <2>4
    <3>2. QED
      BY <1>1, <2>1, <2>4, <3>1 DEF LimitRec, MASTER_LIMIT_OK, MASTER_SERV, Lowers
  <2>5. QED
    BY <2>2, <2>3, <2>4, EntryStep
<1>4. LimitInv'
  BY <1>1, <1>3 DEF LimitInv, ReadyLimit
<1>5. SendersKnown'
  <2>1. \A q \in Pids : Leaves(q)
    BY <1>1 DEF Leaves
  <2>2. \A t \in Services : Shrinks(t)
    BY <1>1 DEF Shrinks
  <2>3. QED
    BY <1>1, <2>1, <2>2, SendersKept DEF PanicInv
<1>6. PanicsExplained'
  BY <1>1, <1>2 DEF PanicInv, PanicsExplained
<1>7. QED
  BY <1>4, <1>5, <1>6 DEF PanicInv

LEMMA ProcessPanic ==
    ASSUME BaseInv, PanicInv, ProcessFrame, UNCHANGED <<masterVars, reloadVars>>
    PROVE  PanicInv'
<1>1. UNCHANGED <<svc, ready, fault, deleted, lowered, mixed>> /\ serv' = serv
  BY DEF masterVars, reloadVars, ProcessFrame
<1>2. LimitInv' /\ PanicsExplained'
  BY <1>1 DEF PanicInv, LimitInv, ReadyLimit, PanicsExplained
<1>3. SendersKnown'
  <2> SUFFICES ASSUME ~mixed, NEW t \in Services, NEW i \in 1..Len(pipe'[t])
               PROVE  serv[pipe'[t][i].pid] \in {t, NoService}
    BY <1>1 DEF SendersKnown
  <2>1. \A j \in 1..Len(pipe[t]) : serv[pipe[t][j].pid] \in {t, NoService}
    BY DEF PanicInv, SendersKnown
  <2>2. CASE pipe'[t] = pipe[t]
    BY <2>1, <2>2
  <2>3. ASSUME NEW p \in Pids, NEW m \in MASTER_STATUS(Pids), serv[p] = t, m.pid = p,
               pipe'[t] = Append(pipe[t], m)
        PROVE  serv[pipe'[t][i].pid] \in {t, NoService}
    <3>1. pipe[t] \in Seq(MASTER_STATUS(Pids))
      BY DEF BaseInv, TypeOK, ChildTypeOK
    <3>2. /\ Len(pipe[t]) \in Nat /\ Len(pipe'[t]) = Len(pipe[t]) + 1
          /\ pipe'[t][Len(pipe[t]) + 1] = m
          /\ \A j \in 1..Len(pipe[t]) : pipe'[t][j] = pipe[t][j]
      BY <2>3, <3>1
    <3>3. i = Len(pipe[t]) + 1 \/ i \in 1..Len(pipe[t])
      BY <3>2
    <3>4. QED
      BY <2>1, <2>3, <3>2, <3>3
  <2>4. QED
    BY <2>2, <2>3 DEF ProcessFrame
<1>4. QED
  BY <1>2, <1>3 DEF PanicInv

LEMMA NextPanic == BaseInv /\ OpenedInv /\ PanicInv /\ [ReloadNext]_allVars => PanicInv'
<1> SUFFICES ASSUME BaseInv, OpenedInv, PanicInv, [ReloadNext]_allVars PROVE PanicInv'
  OBVIOUS
<1>0. ChildTypeOK
  BY DEF BaseInv, TypeOK
<1>1. CASE EventWait
  BY <1>1, EventWaitPanic
<1>2. ASSUME NEW s \in Services, Unthrottle(s) PROVE PanicInv'
  BY <1>2, UnthrottlePanic
<1>3. ASSUME NEW s \in Services, ListenEvent(s) PROVE PanicInv'
  BY <1>3, ListenPanic
<1>4. ASSUME NEW s \in Services, StatusEvent(s) PROVE PanicInv'
  BY <1>4, StatusPanic
<1>5. ASSUME NEW s \in Services, StopBegins(s) PROVE PanicInv'
  BY <1>5, StopBeginsPanic
<1>6. ASSUME NEW s \in Services, StopEnds(s) PROVE PanicInv'
  BY <1>6, StopEndsPanic
<1>7. CASE \/ ReapBegins \/ ReapEnds \/ BeginRefresh \/ EndReading
           \/ \E s \in configured : ReloadConnect(s)
  <2>1. UNCHANGED <<serv, pipe, svc, ready, fault, deleted, lowered, mixed>>
    BY <1>7 DEF ReapBegins, ReapEnds, BeginRefresh, EndReading, ReloadConnect, Connect, vars,
                childVars, masterVars
  <2>2. QED
    BY <2>1 DEF PanicInv, LimitInv, ReadyLimit, SendersKnown, PanicsExplained
<1>8. ASSUME NEW p \in Pids, NEW ok \in BOOLEAN, ReapOne(p, ok) PROVE PanicInv'
  BY <1>8, ReapPanic
<1>9. ASSUME NEW s \in Services, NEW limit \in Limits[s], ReadEntry(s, limit) PROVE PanicInv'
  BY <1>9, EntryPanic
<1>10. CASE ProcessStep /\ UNCHANGED <<masterVars, reloadVars>>
  BY <1>0, <1>10, ProcessLemma, ProcessPanic DEF ProcessStep
<1>11. CASE UNCHANGED allVars
  <2>1. UNCHANGED <<serv, pipe, svc, ready, fault, deleted, lowered, mixed>>
    BY <1>11 DEF allVars, vars, childVars, masterVars, reloadVars
  <2>2. QED
    BY <2>1 DEF PanicInv, LimitInv, ReadyLimit, SendersKnown, PanicsExplained
<1>12. ASSUME NEW e \in Events, Panic(e) PROVE PanicInv'
  <2>1. /\ UNCHANGED <<serv, pipe, svc, deleted, lowered, mixed>>
        /\ ready' \in SUBSET ready /\ fault' = "bad file descriptor"
    BY <1>12 DEF Panic, DispatchPanics, NextEvent, msg_panic, reloadVars
  <2>2. LimitInv' /\ SendersKnown'
    BY <2>1 DEF PanicInv, LimitInv, ReadyLimit, SendersKnown
  <2>3. PanicsExplained'
    BY <1>12, <2>1, DispatchExplained DEF PanicsExplained
  <2>4. QED
    BY <2>2, <2>3 DEF PanicInv
<1>13. QED
  BY <1>1, <1>2, <1>3, <1>4, <1>5, <1>6, <1>7, <1>8, <1>9, <1>10, <1>11, <1>12
     DEF ReloadNext, ManagerStep

THEOREM PanicInvariance == ReloadSpec => []PanicInv
BY InitPanic, NextPanic, BaseInvariance, OpenedInvariance, PTL DEF ReloadSpec

(* A manager that reloads its configuration panics on a stale event, or     *)
(* because a limit was lowered, or because a pid was used again too soon,   *)
(* or because a descriptor got a low number after a deletion; it never      *)
(* panics on a throttled service or an unknown child.                       *)
THEOREM PanicsAreExplained == ReloadSpec => []PanicsExplained
<1>1. PanicInv => PanicsExplained
  BY DEF PanicInv
<1>2. QED
  BY <1>1, PanicInvariance, PTL
-----------------------------------------------------------------------------
(* The layer of WatchInv.                                                   *)

LEMMA InitWatch == ReloadInit => WatchInv
<1> SUFFICES ASSUME ReloadInit PROVE WatchInv
  OBVIOUS
<1>1. \A s \in Services : /\ ~svc[s].throttle
                          /\ svc[s].listen <=> listen_flag(svc[s])
                          /\ svc[s].listen => svc[s].registered
  <2> SUFFICES ASSUME NEW s \in Services
               PROVE  /\ ~svc[s].throttle
                      /\ svc[s].listen <=> listen_flag(svc[s])
                      /\ svc[s].listen => svc[s].registered
    OBVIOUS
  <2>1. MaxProc[s] \in Nat /\ svc[s] = master_start_service(get_master_ent(MaxProc[s]))
    BY MasterAssumption DEF ReloadInit, Init
  <2>2. QED
    BY <2>1, StartRec
<1>2. FlagInv /\ KeptInv
  BY <1>1 DEF ReloadInit, FlagInv, FlagRec, KeptInv, KeptRec
<1>3. TakenKnown
  BY DEF ReloadInit, Init, ChildInit, TakenKnown
<1>4. QED
  BY <1>2, <1>3 DEF WatchInv

(* A callback of the main loop keeps the flags and requests of all services *)
(* as they should be, or records that it does not.                          *)
LEMMA FlagKept ==
    ASSUME BaseInv, FlagInv, KeptInv, NEW s \in Services,
           stopping = NoService, LoopFrame, kept' \in BOOLEAN,
           \A t \in Services : t # s => svc'[t] = svc[t],
           \A t \in Services : t # s => Of(t)' = Of(t),
           FlagRec(svc'[s]) \/ (svc'[s] = svc[s] /\ Of(s)' = Of(s)),
           ~kept' => ~kept /\ (KeptRec(svc[s]) => KeptRec(svc'[s]))
    PROVE  FlagInv' /\ KeptInv'
<1>1. /\ stopping' = NoService /\ configured' = configured /\ orphans' = orphans
      /\ configured \subseteq Services
  BY DEF LoopFrame, BaseInv, ReloadTypeOK
<1>2. FlagInv'
  <2>1. \A t \in Services : Of(t)' = Of(t) => Outdated(t)' = Outdated(t)
    BY <1>1 DEF Outdated
  <2>2. QED
    BY <1>1, <2>1 DEF FlagInv
<1>3. KeptInv'
  BY <1>1, ChildAssumption DEF KeptInv
<1>4. QED
  BY <1>2, <1>3

LEMMA UnthrottleWatch ==
    ASSUME BaseInv, WatchInv, NEW s \in Services, Unthrottle(s)
    PROVE  WatchInv'
<1> DEFINE r == master_unthrottle([svc[s] EXCEPT !.timer = FALSE])
<1>1. /\ s \in due
      /\ svc' = [svc EXCEPT ![s] = r]
      /\ UNCHANGED <<child, serv, pipe, avail, fault, reloadVars>>
  BY DEF Unthrottle, master_unthrottle_wrapper, childVars
<1>2. svc[s] \in MASTER_SERV /\ RecOK(svc[s]) /\ stopping = NoService
  BY <1>1, CallbackPlace DEF BaseInv, TypeOK, ServicesOK
<1>3. /\ ~r.throttle
      /\ FlagRec(r) \/ r = svc[s]
      /\ KeptRec(svc[s]) => KeptRec(r)
  BY <1>2, UnthrottleRec DEF FlagRec, KeptRec
<1> HIDE DEF r
<1>4. svc'[s] = r /\ \A t \in Services : t # s => svc'[t] = svc[t]
  BY <1>1 DEF BaseInv, TypeOK
<1>5. LoopFrame /\ kept' \in BOOLEAN /\ (~kept' => ~kept) /\ \A t \in Services : Of(t)' = Of(t)
  BY <1>1 DEF LoopFrame, reloadVars, BaseInv, ReloadTypeOK, Of
<1>6. FlagInv' /\ KeptInv'
  BY <1>2, <1>3, <1>4, <1>5, FlagKept DEF WatchInv
<1>7. TakenKnown'
  BY <1>1 DEF WatchInv, TakenKnown, Running, reloadVars
<1>8. QED
  BY <1>6, <1>7 DEF WatchInv

(* A new process has nothing to tell yet, and the others nothing new.       *)
LEMMA ForkTaken ==
    ASSUME BaseInv, TakenKnown, NEW s \in Services, NEW p \in Pids, ForkSucceeds(s, p), LoopFrame
    PROVE  TakenKnown'
<1>1. /\ child' = [child EXCEPT ![p] = "started"] /\ child \in [Pids -> Phases]
      /\ serv' = [serv EXCEPT ![p] = s] /\ serv \in [Pids -> Services \cup {NoService}]
      /\ avail' = [avail EXCEPT ![p] = MASTER_STAT_AVAIL] /\ avail \in [Pids -> Availability]
      /\ pipe' = pipe /\ fault' = fault /\ orphans' = orphans
  BY DEF ForkSucceeds, BaseInv, TypeOK, ChildTypeOK, LoopFrame
<1>2. child'[p] = "started"
      /\ \A q \in Pids : q # p => child'[q] = child[q] /\ serv'[q] = serv[q] /\ avail'[q] = avail[q]
  BY <1>1
<1>3. QED
  BY <1>1, <1>2 DEF TakenKnown, Running

LEMMA ListenWatch ==
    ASSUME BaseInv, WatchInv, NEW s \in Services, ListenEvent(s)
    PROVE  WatchInv'
<1>1. /\ master_avail_event(s) /\ <<"listen", s>> \in ready
      /\ LoopFrame
      /\ kept' = (kept \/ Keeps(s))
  BY DEF ListenEvent, master_avail_event, Dispatch, NextEvent, LoopFrame
<1>2. svc[s] \in MASTER_SERV /\ RecOK(svc[s]) /\ stopping = NoService /\ svc \in [Services -> MASTER_SERV]
      /\ kept \in BOOLEAN
  BY <1>1, CallbackPlace DEF BaseInv, TypeOK, ServicesOK, ReloadTypeOK
<1>3. kept' \in BOOLEAN /\ (~kept' => ~kept /\ ~Keeps(s))
  BY <1>1, <1>2
<1>4. ASSUME NEW r, svc' = [svc EXCEPT ![s] = r], UNCHANGED childVars, UNCHANGED <<avail, fault>>,
             FlagRec(r), ~Keeps(s) /\ KeptRec(svc[s]) => KeptRec(r)
      PROVE  WatchInv'
  <2>1. svc'[s] = r /\ \A t \in Services : t # s => svc'[t] = svc[t]
    BY <1>2, <1>4
  <2>2. \A t \in Services : Of(t)' = Of(t)
    BY <1>4 DEF Of, childVars
  <2>3. FlagInv' /\ KeptInv'
    BY <1>1, <1>2, <1>3, <1>4, <2>1, <2>2, FlagKept DEF WatchInv
  <2>4. TakenKnown'
    BY <1>1, <1>4 DEF WatchInv, TakenKnown, Running, LoopFrame, childVars
  <2>5. QED
    BY <2>3, <2>4 DEF WatchInv
<1>5. CASE svc[s].throttle
  <2> DEFINE r == event_disable_listen(svc[s])
  <2>1. svc' = [svc EXCEPT ![s] = r] /\ UNCHANGED <<childVars, avail, fault>>
    BY <1>1, <1>5 DEF master_avail_event
  <2>2. r.throttle /\ r.listen = svc[s].listen
    BY <1>2, <1>5, DisableRec
  <2> HIDE DEF r
  <2>3. FlagRec(r) /\ (KeptRec(svc[s]) => KeptRec(r))
    BY <1>5, <2>2 DEF FlagRec, KeptRec
  <2>4. QED
    BY <1>4, <2>1, <2>3
<1>6. CASE ~svc[s].throttle
  <2>1. master_spawn(s)
    BY <1>1, <1>6 DEF master_avail_event
  <2>2. ASSUME NEW reason, msg_panic(reason), reason # "none" PROVE WatchInv'
    <3>1. svc' = svc /\ serv' = serv /\ ~Running'
      BY <2>2 DEF msg_panic, Running
    <3>2. \A t \in Services : Of(t)' = Of(t)
      BY <3>1 DEF Of
    <3>3. FlagInv' /\ KeptInv'
      BY <1>1, <1>2, <1>3, <3>1, <3>2, FlagKept DEF WatchInv
    <3>4. TakenKnown'
      BY <3>1 DEF TakenKnown
    <3>5. QED
      BY <3>3, <3>4 DEF WatchInv
  <2>3. CASE ForkFails(s)
    <3> DEFINE r == master_throttle(svc[s])
    <3>1. svc' = [svc EXCEPT ![s] = r] /\ UNCHANGED <<childVars, avail, fault>>
      BY <2>3 DEF ForkFails
    <3>2. r.throttle
      BY <1>2, ThrottleRec
    <3> HIDE DEF r
    <3>3. svc'[s] = r
      BY <1>2, <3>1
    <3>4. FlagRec(r) /\ (~Keeps(s) /\ KeptRec(svc[s]) => KeptRec(r))
      BY <1>6, <3>2, <3>3 DEF FlagRec, KeptRec, Keeps
    <3>5. QED
      BY <1>4, <3>1, <3>4
  <2>4. ASSUME NEW p \in Pids, ForkSucceeds(s, p) PROVE WatchInv'
    <3> DEFINE r == master_avail_more([svc[s] EXCEPT !.total_proc = @ + 1])
    <3>1. svc' = [svc EXCEPT ![s] = r]
      BY <2>4 DEF ForkSucceeds
    <3>2. FlagRec(r) /\ (KeptRec(svc[s]) => KeptRec(r))
      BY <1>2, <1>6, ForkRec DEF Recounted, FlagRec, KeptRec
    <3> HIDE DEF r
    <3>3. svc'[s] = r /\ \A t \in Services : t # s => svc'[t] = svc[t]
      BY <1>2, <3>1
    <3>4. \A t \in Services : t # s => Of(t)' = Of(t)
      <4>1. /\ serv' = [serv EXCEPT ![p] = s] /\ serv[p] = NoService
            /\ serv \in [Pids -> Services \cup {NoService}]
        BY <2>4 DEF ForkSucceeds, BaseInv, TypeOK, ChildTypeOK
      <4>2. QED
        BY <4>1, ChildAssumption DEF Of
    <3>5. FlagInv' /\ KeptInv'
      BY <1>1, <1>2, <1>3, <3>2, <3>3, <3>4, FlagKept DEF WatchInv
    <3>6. TakenKnown'
      BY <1>1, <2>4, ForkTaken DEF WatchInv
    <3>7. QED
      BY <3>5, <3>6 DEF WatchInv
  <2>5. QED
    BY <2>1, <2>2, <2>3, <2>4 DEF master_spawn
<1>7. QED
  BY <1>5, <1>6

(* A message that is read is the last word of its sender, or leaves the     *)
(* last word in the channel.                                                *)
LEMMA StatusTaken ==
    ASSUME BaseInv, TakenKnown, NEW s \in Services, StatusEvent(s)
    PROVE  TakenKnown'
<1> DEFINE m == Head(pipe[s])
           corrupt == m.pid \in table /\ serv[m.pid] # s
<1>1. /\ UNCHANGED <<child, serv, orphans>>
      /\ pipe[s] # <<>>
      /\ pipe' = [pipe EXCEPT ![s] = Tail(@)]
      /\ fault' = IF corrupt THEN "pointer corruption" ELSE fault
      /\ IF IsNews(m) /\ ~corrupt THEN StatusChanges(s, m) ELSE UNCHANGED <<svc, avail>>
  BY DEF StatusEvent, master_status_event
<1> SUFFICES ASSUME ~corrupt, Running,
                    NEW q \in Pids \ orphans, child[q] \in {"serving", "served"}
             PROVE  LastSays(pipe'[serv[q]], q, MASTER_STAT_TAKEN, avail'[q])
  <2>1. corrupt => ~Running'
    BY <1>1 DEF Running
  <2>2. Running' => Running
    BY <1>1 DEF Running
  <2>3. QED
    BY <1>1, <2>1, <2>2 DEF TakenKnown
<1>2. /\ pipe \in [Services -> Seq(MASTER_STATUS(Pids))]
      /\ avail \in [Pids -> Availability]
      /\ serv[q] \in Services /\ q \in table
  BY DEF BaseInv, TypeOK, ChildTypeOK, TableInv
<1>3. pipe[s] \in Seq(MASTER_STATUS(Pids)) /\ pipe[s] # <<>>
      /\ pipe'[s] = Tail(pipe[s]) /\ \A t \in Services : t # s => pipe'[t] = pipe[t]
  BY <1>1, <1>2
<1>4. m \in MASTER_STATUS(Pids)
  BY <1>3
<1>5. m.pid \in Pids /\ (serv[q] # s => m.pid # q)
  BY <1>2, <1>4 DEF MASTER_STATUS
<1>6. avail'[q] = IF m.pid = q THEN m.avail ELSE avail[q]
  <2>1. IF m.pid \in table /\ avail[m.pid] # m.avail
        THEN avail' = [avail EXCEPT ![m.pid] = m.avail] ELSE avail' = avail
    BY <1>1 DEF IsNews, StatusChanges
  <2> HIDE DEF m
  <2>2. QED
    BY <1>2, <1>5, <2>1
<1>7. LastSays(pipe[serv[q]], q, MASTER_STAT_TAKEN, avail[q])
  BY DEF TakenKnown
<1>8. CASE serv[q] = s
  BY <1>3, <1>6, <1>7, <1>8, LastTail
<1>9. CASE serv[q] # s
  BY <1>2, <1>3, <1>5, <1>6, <1>7, <1>9
<1>10. QED
  BY <1>8, <1>9

LEMMA StatusWatch ==
    ASSUME BaseInv, WatchInv, NEW s \in Services, StatusEvent(s)
    PROVE  WatchInv'
<1> DEFINE m == Head(pipe[s])
           r == IF m.avail = MASTER_STAT_AVAIL
                THEN master_avail_more(svc[s]) ELSE master_avail_less(svc[s])
<1>1. /\ <<"status", s>> \in ready
      /\ serv' = serv /\ kept' = kept
      /\ StatusChanges(s, m) \/ svc' = svc
      /\ LoopFrame
  BY DEF StatusEvent, master_status_event, Dispatch, NextEvent, LoopFrame
<1>2. svc[s] \in MASTER_SERV /\ RecOK(svc[s]) /\ stopping = NoService /\ svc \in [Services -> MASTER_SERV]
      /\ kept \in BOOLEAN
  BY <1>1, CallbackPlace DEF BaseInv, TypeOK, ServicesOK, ReloadTypeOK
<1>3. \A t \in Services : Of(t)' = Of(t)
  BY <1>1 DEF Of
<1>4. /\ \A t \in Services : t # s => svc'[t] = svc[t]
      /\ FlagRec(svc'[s]) \/ svc'[s] = svc[s]
      /\ KeptRec(svc[s]) => KeptRec(svc'[s])
  <2>1. CASE svc' = svc
    BY <2>1
  <2>2. CASE StatusChanges(s, m)
    <3>1. svc' = [svc EXCEPT ![s] = r]
      BY <2>2 DEF StatusChanges
    <3>2. FlagRec(r) /\ (KeptRec(svc[s]) => KeptRec(r))
      BY <1>2, MoreLess DEF Recounted, FlagRec, KeptRec, listen_flag
    <3> HIDE DEF r
    <3>3. QED
      BY <1>2, <3>1, <3>2
  <2>3. QED
    BY <1>1, <2>1, <2>2
<1>5. FlagInv' /\ KeptInv'
  BY <1>1, <1>2, <1>3, <1>4, FlagKept DEF WatchInv
<1>6. TakenKnown'
  BY StatusTaken DEF WatchInv
<1>7. QED
  BY <1>5, <1>6 DEF WatchInv

(* A channel that is replaced makes orphans of the processes that were      *)
(* known through it.                                                        *)
LEMMA CleanupTaken ==
    ASSUME BaseInv, TakenKnown, NEW s \in Services,
           Of(s) \subseteq orphans', orphans \subseteq orphans',
           \A t \in Services : t # s => pipe'[t] = pipe[t],
           UNCHANGED <<child, serv, avail, fault>>
    PROVE  TakenKnown'
<1> SUFFICES ASSUME Running, NEW p \in Pids \ orphans', child[p] \in {"serving", "served"}
             PROVE  LastSays(pipe'[serv[p]], p, MASTER_STAT_TAKEN, avail[p])
  BY DEF TakenKnown, Running
<1>1. serv[p] \in Services
  BY DEF BaseInv, TypeOK, ChildTypeOK
<1>2. p \notin orphans /\ serv[p] # s
  BY DEF Of
<1>3. pipe'[serv[p]] = pipe[serv[p]]
  BY <1>1, <1>2
<1>4. QED
  BY <1>2, <1>3 DEF TakenKnown

LEMMA StopBeginsWatch ==
    ASSUME BaseInv, WatchInv, NEW s \in Services, StopBegins(s)
    PROVE  WatchInv'
<1> DEFINE r == master_throttle(svc[s])
<1>1. /\ stopping = NoService /\ stopping' = s
      /\ svc' = [svc EXCEPT ![s] = r]
      /\ Of(s) \subseteq orphans' /\ orphans \subseteq orphans'
      /\ \A t \in Services : t # s => pipe'[t] = pipe[t]
      /\ UNCHANGED <<child, serv, avail, fault, configured, kept>>
  BY StatusCleanup DEF StopBegins
<1>2. /\ r.throttle /\ r.listen = svc[s].listen /\ r.registered = svc[s].registered
      /\ svc \in [Services -> MASTER_SERV] /\ configured \subseteq Services
  BY ThrottleRec DEF BaseInv, TypeOK, ServicesOK, ReloadTypeOK
<1> HIDE DEF r
<1>3. svc'[s] = r /\ \A t \in Services : t # s => svc'[t] = svc[t]
  BY <1>1, <1>2
<1>4. FlagInv'
  <2>1. \A t \in Services : Of(t)' = Of(t)
    BY <1>1 DEF Of
  <2>2. QED
    BY <1>1, <1>2, <1>3, <2>1 DEF WatchInv, FlagInv, FlagRec, Outdated
<1>5. KeptInv'
  BY <1>1, <1>2, <1>3, ChildAssumption DEF WatchInv, KeptInv, KeptRec
<1>6. TakenKnown'
  BY <1>1, CleanupTaken DEF WatchInv
<1>7. QED
  BY <1>4, <1>5, <1>6 DEF WatchInv

LEMMA StopEndsWatch ==
    ASSUME BaseInv, WatchInv, NEW s \in Services, StopEnds(s)
    PROVE  WatchInv'
<1> DEFINE r == master_avail_cleanup(svc[s])
<1>1. /\ stopping = s /\ stopping' = NoService
      /\ svc' = [svc EXCEPT ![s] = r]
      /\ configured' = configured \ {s}
      /\ UNCHANGED <<child, serv, pipe, avail, fault, orphans, kept>>
  BY DEF StopEnds
<1>2. ~r.listen /\ svc \in [Services -> MASTER_SERV] /\ configured \subseteq Services
  BY CleanupRec DEF BaseInv, TypeOK, ServicesOK, ReloadTypeOK
<1> HIDE DEF r
<1>3. svc'[s] = r /\ \A t \in Services : t # s => svc'[t] = svc[t]
  BY <1>1, <1>2
<1>4. FlagInv'
  <2>1. \A t \in Services : Of(t)' = Of(t)
    BY <1>1 DEF Of
  <2>2. QED
    BY <1>1, <1>2, <1>3, <2>1 DEF WatchInv, FlagInv, Outdated
<1>5. KeptInv'
  BY <1>1, <1>2, <1>3, ChildAssumption DEF WatchInv, KeptInv, KeptRec
<1>6. TakenKnown'
  BY <1>1 DEF WatchInv, TakenKnown, Running
<1>7. QED
  BY <1>4, <1>5, <1>6 DEF WatchInv

(* An entry that changes the limit of a service with processes outdates     *)
(* them; without processes any limit leaves room.                           *)
LEMMA EntryWatch ==
    ASSUME BaseInv, WatchInv, NEW s \in Services, NEW limit \in Limits[s], ReadEntry(s, limit)
    PROVE  WatchInv'
<1>1. /\ limit \in Nat /\ stopping = NoService
      /\ \A t \in Services : t # s => svc'[t] = svc[t]
      /\ Of(s) \subseteq orphans' /\ orphans \subseteq orphans'
      /\ \A t \in Services : t # s => pipe'[t] = pipe[t]
      /\ configured' = configured \cup {s}
      /\ UNCHANGED <<child, serv, avail, fault, stopping, kept>>
  BY EntryStep
<1>2. configured \subseteq Services /\ \A t \in Services : Of(t)' = Of(t)
  BY <1>1 DEF BaseInv, ReloadTypeOK, Of
<1>3. ASSUME s \in configured, svc'[s] = [svc[s] EXCEPT !.max_proc = limit]
      PROVE  /\ FlagRec(svc'[s]) \/ Outdated(s)'
             /\ KeptRec(svc[s]) => KeptRec(svc'[s])
  <2>1. svc[s] \in MASTER_SERV
    BY DEF BaseInv, TypeOK
  <2>2. /\ svc'[s].max_proc = limit
        /\ svc'[s].throttle = svc[s].throttle
        /\ svc'[s].listen = svc[s].listen /\ svc'[s].registered = svc[s].registered
        /\ svc'[s].total_proc = svc[s].total_proc /\ svc'[s].avail_proc = svc[s].avail_proc
    BY <1>3, <2>1 DEF MASTER_SERV
  <2>3. CASE Of(s) # {}
    BY <1>1, <1>2, <2>2, <2>3 DEF Outdated, KeptRec
  <2>4. CASE Of(s) = {}
    <3>1. Children(s) = {} /\ Idle(s) = {}
      BY <2>4 DEF Children, Idle, Of, BaseInv, TypeOK
    <3>2. svc[s].total_proc = 0 /\ svc[s].avail_proc = 0
      BY <3>1, FS_EmptySet DEF BaseInv, CountsAgree
    <3>3. FlagRec(svc[s])
      BY <1>3, <2>4 DEF WatchInv, FlagInv, Outdated
    <3>4. MASTER_LIMIT_OK(svc[s].max_proc, 0) /\ MASTER_LIMIT_OK(limit, 0)
      BY <1>1, <2>1 DEF MASTER_LIMIT_OK, MASTER_SERV
    <3>5. QED
      BY <2>2, <3>2, <3>3, <3>4 DEF FlagRec, KeptRec, listen_flag
  <2>5. QED
    BY <2>3, <2>4
<1>4. ASSUME svc'[s] = master_start_service(get_master_ent(limit))
      PROVE  FlagRec(svc'[s]) /\ KeptRec(svc'[s])
  BY <1>1, <1>4, StartRec DEF FlagRec, KeptRec
<1>5. /\ FlagRec(svc'[s]) \/ Outdated(s)'
      /\ KeptRec(svc[s]) => KeptRec(svc'[s])
  BY <1>3, <1>4, EntryStep
<1>6. FlagInv'
  <2>1. \A t \in configured : t # s => FlagRec(svc'[t]) \/ Outdated(t)'
    BY <1>1, <1>2 DEF WatchInv, FlagInv, Outdated
  <2>2. QED
    BY <1>1, <1>5, <2>1 DEF FlagInv
<1>7. KeptInv'
  <2>1. \A t \in Services : t # stopping
    BY <1>1, ChildAssumption
  <2>2. QED
    BY <1>1, <1>5, <2>1 DEF WatchInv, KeptInv
<1>8. TakenKnown'
  BY <1>1, CleanupTaken DEF WatchInv
<1>9. QED
  BY <1>6, <1>7, <1>8 DEF WatchInv

(* The flag follows its rule after a process is reaped, although the rule   *)
(* is not always applied: either its value did not change, or only older    *)
(* processes are left.                                                      *)
LEMMA ReapFlag ==
    ASSUME BaseInv, BaseInv', FlagInv, NEW p \in Pids, NEW ok \in BOOLEAN, ReapOne(p, ok),
           NEW s, s = serv[p]
    PROVE  FlagRec(svc'[s]) \/ Outdated(s)'
<1> DEFINE q == ReapRec(p, ok)
           r == master_delete_child(q, avail[p])
<1>1. /\ s \in Services /\ s \in configured
      /\ q \in MASTER_SERV /\ RecOK(q) /\ SameCounts(q, svc[s])
      /\ q = svc[s] \/ q.throttle
      /\ r.throttle = q.throttle
      /\ r.total_proc = svc[s].total_proc - 1
      /\ svc'[s] = r
      /\ serv' = [serv EXCEPT ![p] = NoService]
  BY ReapStep
<1>2. avail[p] \in Availability /\ orphans' = orphans \ {p} /\ svc[s] \in MASTER_SERV
      /\ serv \in [Pids -> Services \cup {NoService}]
  BY <1>1 DEF ReapOne, BaseInv, TypeOK, ChildTypeOK
<1> HIDE DEF q
<1>3. \/ Recounted(r, q, q.total_proc - 1,
                   IF avail[p] = MASTER_STAT_AVAIL THEN q.avail_proc - 1 ELSE q.avail_proc)
      \/ /\ ~(MASTER_LIMIT_OK(q.max_proc, q.total_proc - 1) /\ q.avail_proc < 1)
         /\ r.max_proc = q.max_proc
         /\ r.avail_proc = q.avail_proc
         /\ r.listen = q.listen
  BY <1>1, <1>2, DeletedRec
<1> HIDE DEF r
<1>4. Of(s)' = Of(s) \ {p}
  BY <1>1, <1>2, ChildAssumption DEF Of
<1>5. CASE r.throttle
  BY <1>1, <1>5 DEF FlagRec
<1>6. CASE r.listen <=> listen_flag(r)
  BY <1>1, <1>6 DEF FlagRec
<1>7. CASE /\ ~r.throttle
           /\ ~(MASTER_LIMIT_OK(q.max_proc, q.total_proc - 1) /\ q.avail_proc < 1)
           /\ r.max_proc = q.max_proc /\ r.avail_proc = q.avail_proc /\ r.listen = q.listen
  <2>1. q = svc[s]
    BY <1>1, <1>7
  <2>2. CASE FlagRec(svc[s])
    <3>1. q.listen => q.avail_proc <= 0 /\ MASTER_LIMIT_OK(q.max_proc, q.total_proc - 1)
      BY <1>1, <1>2, <1>7, <2>1, <2>2 DEF FlagRec, listen_flag, MASTER_LIMIT_OK, MASTER_SERV
    <3>2. ~q.listen
      BY <1>1, <1>7, <3>1 DEF MASTER_SERV
    <3>3. ~listen_flag(r)
      BY <1>1, <1>7, <2>1 DEF listen_flag, MASTER_SERV
    <3>4. QED
      BY <1>1, <1>7, <3>2, <3>3 DEF FlagRec
  <2>3. CASE Outdated(s)
    <3>1. Of(s)' \subseteq orphans'
      BY <1>2, <1>4, <2>3 DEF Outdated
    <3>2. CASE Of(s)' # {}
      BY <3>1, <3>2 DEF Outdated
    <3>3. CASE Of(s)' = {}
      <4>1. Children(s)' = {} /\ Idle(s)' = {}
        BY <3>3 DEF Children, Idle, Of, BaseInv, TypeOK
      <4>2. svc'[s].total_proc = Cardinality({}) /\ svc'[s].avail_proc = Cardinality({})
        BY <1>1, <4>1 DEF BaseInv, CountsAgree
      <4>3. q.total_proc - 1 = 0 /\ q.avail_proc = 0
        BY <1>1, <1>7, <2>1, <4>2, FS_EmptySet
      <4>4. MASTER_LIMIT_OK(q.max_proc, 0)
        BY <1>1 DEF MASTER_LIMIT_OK, MASTER_SERV
      <4>5. QED
        BY <1>7, <4>3, <4>4
    <3>4. QED
      BY <3>2, <3>3
  <2>4. QED
    BY <1>1, <2>2, <2>3 DEF FlagInv
<1>8. QED
  BY <1>3, <1>5, <1>6, <1>7 DEF Recounted

LEMMA ReapWatch ==
    ASSUME BaseInv, BaseInv', WatchInv, NEW p \in Pids, NEW ok \in BOOLEAN, ReapOne(p, ok)
    PROVE  WatchInv'
<1>0. PICK s : s = serv[p]
  OBVIOUS
<1> DEFINE q == ReapRec(p, ok)
           r == master_delete_child(q, avail[p])
<1>1. /\ s \in Services
      /\ q \in MASTER_SERV /\ RecOK(q)
      /\ q.listen = svc[s].listen /\ q.registered = svc[s].registered
      /\ svc[s].throttle => q.throttle
      /\ r.throttle = q.throttle
      /\ svc'[s] = r
      /\ \A t \in Services : t # s => svc'[t] = svc[t]
      /\ avail' = [avail EXCEPT ![p] = MASTER_STAT_TAKEN]
      /\ child' = [child EXCEPT ![p] = "none"]
      /\ serv' = [serv EXCEPT ![p] = NoService]
      /\ UNCHANGED <<pipe, fault>>
  BY <1>0, ReapStep
<1>2. /\ orphans' = orphans \ {p} /\ kept' = (kept \/ Keeps(s))
      /\ UNCHANGED <<configured, stopping>>
      /\ avail[p] \in Availability /\ kept \in BOOLEAN /\ configured \subseteq Services
      /\ serv \in [Pids -> Services \cup {NoService}]
      /\ child \in [Pids -> Phases] /\ avail \in [Pids -> Availability]
  BY <1>0 DEF ReapOne, BaseInv, TypeOK, ChildTypeOK, ReloadTypeOK
<1>3. \A t \in Services : t # s => Of(t)' = Of(t) /\ p \notin Of(t)
  BY <1>0, <1>1, <1>2, ChildAssumption DEF Of
<1>4. FlagInv'
  <2>1. FlagRec(svc'[s]) \/ Outdated(s)'
    BY <1>0, ReapFlag DEF WatchInv
  <2>2. \A t \in configured : t # s => FlagRec(svc'[t]) \/ Outdated(t)'
    BY <1>1, <1>2, <1>3 DEF WatchInv, FlagInv, Outdated
  <2>3. QED
    BY <1>2, <2>1, <2>2 DEF FlagInv
<1> HIDE DEF q
<1>5. /\ (q.listen => q.registered) => (r.listen => r.registered)
      /\ r.listen => ~r.throttle \/ q.listen
  BY <1>1, <1>2, DeletedRec DEF Recounted, listen_flag
<1> HIDE DEF r
<1>6. KeptInv'
  <2> SUFFICES ASSUME ~kept', NEW t \in Services
               PROVE  IF t = stopping THEN svc'[t].listen => svc'[t].registered ELSE KeptRec(svc'[t])
    BY <1>2 DEF KeptInv
  <2>1. ~kept /\ ~Keeps(s)
    BY <1>2
  <2>2. CASE t # s
    BY <1>1, <2>1, <2>2 DEF WatchInv, KeptInv
  <2>3. CASE t = s /\ t = stopping
    BY <1>1, <1>5, <2>1, <2>3 DEF WatchInv, KeptInv
  <2>4. CASE t = s /\ t # stopping
    <3>1. KeptRec(svc[s])
      BY <2>1, <2>4 DEF WatchInv, KeptInv
    <3>2. r.listen => r.registered
      BY <1>1, <1>5, <3>1 DEF KeptRec
    <3>3. r.listen => ~r.throttle
      BY <1>1, <1>5, <2>1, <3>1 DEF KeptRec, Keeps
    <3>4. QED
      BY <1>1, <2>4, <3>2, <3>3 DEF KeptRec
  <2>5. QED
    BY <2>2, <2>3, <2>4
<1>7. TakenKnown'
  <2>1. child'[p] = "none" /\ \A t \in Pids : t # p =>
             child'[t] = child[t] /\ serv'[t] = serv[t] /\ avail'[t] = avail[t]
    BY <1>1, <1>2
  <2>2. QED
    BY <1>1, <1>2, <2>1 DEF WatchInv, TakenKnown, Running
<1>8. QED
  BY <1>4, <1>6, <1>7 DEF WatchInv

(* A process that changes its phase without a message stays as busy as it   *)
(* was, becomes idle or dies, or is one that nobody listens to.             *)
LEMMA QuietTaken ==
    ASSUME BaseInv, TakenKnown, NEW p \in Pids, NEW phase, Goto(p, phase),
           UNCHANGED <<serv, pipe>>, UNCHANGED <<masterVars, reloadVars>>,
           \/ phase \notin {"serving", "served"}
           \/ child[p] \in {"serving", "served"}
           \/ p \in orphans
    PROVE  TakenKnown'
<1>1. child' = [child EXCEPT ![p] = phase] /\ child \in [Pids -> Phases]
  BY DEF Goto, BaseInv, TypeOK, ChildTypeOK
<1>2. child'[p] = phase /\ \A q \in Pids : q # p => child'[q] = child[q]
  BY <1>1
<1>3. UNCHANGED <<serv, pipe, avail, fault, orphans>>
  BY DEF masterVars, reloadVars
<1>4. QED
  BY <1>2, <1>3 DEF TakenKnown, Running

(* A process that reports itself has the last word, and the messages of the *)
(* others stay the last of their senders.                                   *)
LEMMA NotifyTakenKnown ==
    ASSUME BaseInv, TakenKnown, NEW p \in Pids, NotifyTaken(p) \/ NotifyAvail(p),
           UNCHANGED <<masterVars, reloadVars>>
    PROVE  TakenKnown'
<1> PICK s : s = serv[p]
  OBVIOUS
<1> DEFINE st == IF child[p] = "accepted" THEN MASTER_STAT_TAKEN ELSE MASTER_STAT_AVAIL
           m == [pid |-> p, avail |-> st]
<1>1. UNCHANGED <<serv, avail, fault, orphans>>
  BY DEF NotifyTaken, NotifyAvail, Notify, masterVars, reloadVars
<1> SUFFICES ASSUME Running, NEW q \in Pids \ orphans, child'[q] \in {"serving", "served"}
             PROVE  LastSays(pipe'[serv[q]], q, MASTER_STAT_TAKEN, avail[q])
  BY <1>1 DEF TakenKnown, Running
<1>2. /\ child \in [Pids -> Phases]
      /\ serv \in [Pids -> Services \cup {NoService}]
      /\ pipe \in [Services -> Seq(MASTER_STATUS(Pids))]
      /\ statusOpen
      /\ child[p] # "none" => s \in Services
      /\ child[q] # "none" => serv[q] \in Services
  BY DEF BaseInv, TypeOK, ChildTypeOK, Running
<1>3. /\ child[p] \in {"accepted", "served"}
      /\ child' = [child EXCEPT ![p] = IF child[p] = "accepted" THEN "serving" ELSE "waiting"]
      /\ pipe' = [pipe EXCEPT ![s] = Append(pipe[s], m)]
  BY <1>2 DEF NotifyTaken, NotifyAvail, Notify, master_notify, Goto
<1>4. /\ s \in Services /\ pipe[s] \in Seq(MASTER_STATUS(Pids))
      /\ m \in MASTER_STATUS(Pids) /\ m.pid = p /\ m.avail = st
  BY <1>2, <1>3 DEF MASTER_STATUS, Availability
<1> HIDE DEF m
<1>5. pipe'[s] = Append(pipe[s], m) /\ \A t \in Services : t # s => pipe'[t] = pipe[t]
  BY <1>2, <1>3, <1>4
<1>6. CASE q = p
  <2>1. child[p] = "accepted"
    BY <1>2, <1>3, <1>6
  <2>2. LastSays(Append(pipe[s], m), p, MASTER_STAT_TAKEN, avail[p])
    BY <1>4, <2>1, LastAppend
  <2>3. QED
    BY <1>5, <1>6, <2>2
<1>7. CASE q # p
  <2>1. child[q] \in {"serving", "served"} /\ serv[q] \in Services
    BY <1>2, <1>3, <1>7
  <2>2. LastSays(pipe[serv[q]], q, MASTER_STAT_TAKEN, avail[q])
    BY <2>1 DEF TakenKnown
  <2>3. CASE serv[q] = s
    <3>1. LastSays(Append(pipe[s], m), q, MASTER_STAT_TAKEN, avail[q])
      BY <1>4, <1>7, <2>2, <2>3, LastAppend
    <3>2. QED
      BY <1>5, <2>3, <3>1
  <2>4. CASE serv[q] # s
    BY <1>5, <2>1, <2>2, <2>4
  <2>5. QED
    BY <2>3, <2>4
<1>8. QED
  BY <1>6, <1>7

LEMMA ProcessWatch ==
    ASSUME BaseInv, WatchInv, NEW p \in Pids, UNCHANGED <<masterVars, reloadVars>>,
           ReloadServerStep(p) \/ ServiceReturns(p) \/ ChildDies(p) \/ Terminated(p)
    PROVE  WatchInv'
<1>1. ChildTypeOK /\ TakenKnown
  BY DEF BaseInv, TypeOK, WatchInv
<1>2. serv' = serv
  BY <1>1, ProcessLemma DEF ProcessFrame
<1>3. FlagInv' /\ KeptInv'
  BY <1>2 DEF WatchInv, FlagInv, KeptInv, Outdated, Of, masterVars, reloadVars
<1>4. TakenKnown'
  <2>1. CASE \/ single_server_main(p) \/ child_event_wait(p) \/ single_server_accept_inet(p)
             \/ ServiceReturns(p) \/ ChildDies(p) \/ Terminated(p) \/ OrphanNotifies(p)
    <3>1. UNCHANGED <<serv, pipe>>
      BY <2>1 DEF single_server_main, child_event_wait, single_server_accept_inet, ServiceReturns,
                  ChildDies, Terminated, OrphanNotifies
    <3>2. PICK phase : /\ Goto(p, phase)
                       /\ \/ phase \notin {"serving", "served"}
                          \/ child[p] \in {"serving", "served"}
                          \/ p \in orphans
      BY <2>1 DEF single_server_main, child_event_wait, single_server_accept_inet, ServiceReturns,
                  ChildDies, Terminated, OrphanNotifies
    <3>3. QED
      BY <1>1, <3>1, <3>2, QuietTaken
  <2>2. CASE NotifyTaken(p) \/ NotifyAvail(p)
    BY <1>1, <2>2, NotifyTakenKnown
  <2>3. QED
    BY <2>1, <2>2 DEF ReloadServerStep
<1>5. QED
  BY <1>3, <1>4 DEF WatchInv

LEMMA NextWatch == BaseInv /\ WatchInv /\ [ReloadNext]_allVars => WatchInv'
<1> SUFFICES ASSUME BaseInv, WatchInv, [ReloadNext]_allVars PROVE WatchInv'
  OBVIOUS
<1>0. ASSUME UNCHANGED <<child, serv, pipe, svc, avail, fault, configured, stopping, orphans, kept>>
      PROVE  WatchInv'
  BY <1>0 DEF WatchInv, FlagInv, KeptInv, TakenKnown, Outdated, Of, Running
<1>1. CASE \/ EventWait \/ ReapBegins \/ ReapEnds \/ BeginRefresh \/ EndReading
           \/ UNCHANGED allVars
           \/ \E s \in configured : ReloadConnect(s)
  <2>1. UNCHANGED <<child, serv, pipe, svc, avail, fault, configured, stopping, orphans, kept>>
    BY <1>1 DEF EventWait, event_wait, ReapBegins, ReapEnds, BeginRefresh, EndReading, ReloadConnect,
                Connect, allVars, vars, childVars, masterVars, reloadVars
  <2>2. QED
    BY <1>0, <2>1
<1>2. ASSUME NEW s \in Services, Unthrottle(s) PROVE WatchInv'
  BY <1>2, UnthrottleWatch
<1>3. ASSUME NEW s \in Services, ListenEvent(s) PROVE WatchInv'
  BY <1>3, ListenWatch
<1>4. ASSUME NEW s \in Services, StatusEvent(s) PROVE WatchInv'
  BY <1>4, StatusWatch
<1>5. ASSUME NEW s \in Services, StopBegins(s) PROVE WatchInv'
  BY <1>5, StopBeginsWatch
<1>6. ASSUME NEW s \in Services, StopEnds(s) PROVE WatchInv'
  BY <1>6, StopEndsWatch
<1>7. ASSUME NEW p \in Pids, NEW ok \in BOOLEAN, ReapOne(p, ok) PROVE WatchInv'
  BY <1>7, NextBase, ReapWatch
<1>8. ASSUME NEW s \in Services, NEW limit \in Limits[s], ReadEntry(s, limit) PROVE WatchInv'
  BY <1>8, EntryWatch
<1>9. CASE ProcessStep /\ UNCHANGED <<masterVars, reloadVars>>
  BY <1>9, ProcessWatch DEF ProcessStep
<1>10. ASSUME NEW e \in Events, Panic(e) PROVE WatchInv'
  <2>1. /\ UNCHANGED <<serv, svc, configured, stopping, orphans, kept>>
        /\ fault' = "bad file descriptor"
    BY <1>10 DEF Panic, DispatchPanics, msg_panic, reloadVars
  <2>2. FlagInv' /\ KeptInv'
    BY <2>1 DEF WatchInv, FlagInv, KeptInv, Outdated, Of
  <2>3. TakenKnown'
    BY <2>1 DEF TakenKnown, Running
  <2>4. QED
    BY <2>2, <2>3 DEF WatchInv
<1>11. QED
  BY <1>1, <1>2, <1>3, <1>4, <1>5, <1>6, <1>7, <1>8, <1>9, <1>10 DEF ReloadNext, ManagerStep

THEOREM WatchInvariance == ReloadSpec => []WatchInv
BY InitWatch, NextWatch, BaseInvariance, PTL DEF ReloadSpec

(* When none of the excuses of ReapedIsWatched holds, every process of the  *)
(* service is occupied and its news has been read: the table knows no idle  *)
(* process, the counters say there is room, and the flag follows its rule.  *)
LEMMA WatchedNow ==
    ASSUME BaseInv, WatchInv, InLoop, ~kept, NEW s \in configured,
           ~svc[s].registered, ~svc[s].throttle,
           MASTER_LIMIT_OK(svc[s].max_proc, Cardinality({p \in Of(s) : Busy(p)})),
           ~ \E p \in Of(s) : Listens(p) \/ child[p] = "accepted",
           pipe[s] = <<>>,
           Of(s) \cap (Zombies \cup orphans) = {}
    PROVE  FALSE
<1>1. s \in Services /\ s # stopping /\ svc[s] \in MASTER_SERV /\ child \in [Pids -> Phases]
  BY ChildAssumption DEF BaseInv, TypeOK, ChildTypeOK, ReloadTypeOK, PlaceInv, InLoop
<1>2. ~svc[s].listen
  BY <1>1 DEF WatchInv, KeptInv, KeptRec
<1>3. ~listen_flag(svc[s])
  BY <1>2 DEF WatchInv, FlagInv, FlagRec, Outdated
<1>4. ASSUME NEW p \in Of(s)
      PROVE  Busy(p) /\ p \in table /\ avail[p] = MASTER_STAT_TAKEN
  <2>1. p \in Pids /\ serv[p] = s /\ p \notin orphans /\ child[p] # "dead" /\ child[p] # "none"
        /\ child[p] \in Phases
    BY <1>1, <1>4, ChildAssumption DEF Of, Zombies, BaseInv, TypeOK, ChildTypeOK
  <2>2. child[p] \in {"serving", "served"}
    BY <1>4, <2>1 DEF Phases, Listens
  <2>3. LastSays(<<>>, p, MASTER_STAT_TAKEN, avail[p])
    BY <2>1, <2>2 DEF WatchInv, TakenKnown, InLoop
  <2>4. avail[p] = MASTER_STAT_TAKEN
    BY <2>3 DEF LastSays
  <2>5. QED
    BY <2>1, <2>2, <2>4 DEF Busy, BaseInv, TableInv
<1>5. Children(s) = {p \in Of(s) : Busy(p)} /\ Idle(s) = {}
  BY <1>1, <1>4 DEF Children, Idle, Of, BaseInv, TypeOK, MASTER_STAT_TAKEN, MASTER_STAT_AVAIL
<1>6. svc[s].avail_proc = 0 /\ svc[s].total_proc = Cardinality({p \in Of(s) : Busy(p)})
  BY <1>1, <1>5, FS_EmptySet DEF BaseInv, CountsAgree
<1>7. QED
  BY <1>3, <1>6 DEF listen_flag

(* Sockets stay watched through every interleaving of deaths, reaping,      *)
(* refreshes and gossip, with the excuses ReapedIsWatched names and no      *)
(* other (master_reap_child, master_delete_child, master_restart_service).  *)
THEOREM ReapedIsWatchedHolds == ReloadSpec => []ReapedIsWatched
<1>1. BaseInv /\ WatchInv => ReapedIsWatched
  BY WatchedNow DEF ReapedIsWatched
<1>2. QED
  BY <1>1, BaseInvariance, WatchInvariance, PTL
=============================================================================

------------------------------- MODULE Master -------------------------------
(***************************************************************************)
(* The process manager as src/master/master.c builds it: one thread that   *)
(* runs event_wait() for ever, forks service processes when connections    *)
(* arrive on sockets nobody else watches, and follows the status messages  *)
(* of its children.  It composes the manager with the children it starts   *)
(* (SingleServer), with the clients, and with the event loop as the        *)
(* manager uses it.                                                        *)
(*                                                                         *)
(* event_wait() takes ONE snapshot of the ready descriptors, runs the      *)
(* timers that are due and then the callback of every descriptor of the    *)
(* snapshot, whatever the earlier callbacks changed.  The snapshot is      *)
(* modelled by the sets due and ready; picking their elements in any order *)
(* stands for the order in which the kernel lists them.  A callback is one *)
(* step; children and clients run between callbacks.                       *)
(*                                                                         *)
(* main() never calls master_sigsetup(), master_reap_child() or            *)
(* master_refresh(): those operations are not part of this module.         *)
(***************************************************************************)
EXTENDS SingleServer, MasterServ

CONSTANTS Position,      \* how many entries of master.cf precede that of a service
          MaxProc,       \* the maxproc field of every entry
          MaxForkFails,  \* bound on the forks that fail in one behaviour
          MayBeKilled    \* whether a signal may kill the manager

ASSUME PositionAssumption ==
    /\ Position \in [Services -> Nat]
    /\ \A s, t \in Services : Position[s] = Position[t] => s = t
    /\ \A s \in Services : \A n \in 0..Position[s] : \E t \in Services : Position[t] = n

ASSUME MasterAssumption ==
    /\ MaxProc \in [Services -> Nat]
    /\ MaxForkFails \in Nat
    /\ MayBeKilled \in BOOLEAN

VARIABLES svc,        \* the MASTER_SERV of every service
          fd,         \* its descriptors: listen_fd, status_fd[0], status_fd[1]
          table,      \* the keys of master_child_table
          avail,      \* MASTER_PROC.avail of the processes in the table
          due,        \* services whose expired timer event_wait() must run
          ready,      \* events of the snapshot that are not dispatched yet
          fault,      \* why the manager stopped, "none" while it runs
          forkFails   \* forks that have failed

masterVars == <<svc, fd, table, avail, due, ready, fault, forkFails>>
vars == <<childVars, masterVars>>

Events == {"listen", "status"} \X Services
Ends == {"listen", "status", "report"} \X Services
Faults == {"none", "limit", "available", "throttled", "pointer corruption",
           "bad file descriptor", "killed"}

\* The numbers that main() gets: each entry opens its socket and then the two
\* ends of its pipe.  Number 0 stands for the one that master.cf has while it
\* is read; those below it never change hands and are left out.
Offset == [listen |-> 1, status |-> 2, report |-> 3]
FirstNumbers == [e \in Ends |-> 3 * Position[e[2]] + Offset[e[1]]]

TypeOK ==
    /\ ChildTypeOK
    /\ svc \in [Services -> MASTER_SERV]
    /\ fd \in [Ends -> Int]
    /\ table \in SUBSET Pids
    /\ avail \in [Pids -> Availability]
    /\ due \in SUBSET Services
    /\ ready \in SUBSET Events
    /\ fault \in Faults
    /\ statusOpen = (fault = "none")
    /\ forkFails \in Nat

\* main(): master_config() has read master.cf and started every service.
Init ==
    /\ ChildInit
    /\ svc = [s \in Services |-> master_start_service(get_master_ent(MaxProc[s]))]
    /\ fd = FirstNumbers
    /\ table = {}
    /\ avail = [p \in Pids |-> MASTER_STAT_TAKEN]
    /\ due = {}
    /\ ready = {}
    /\ fault = "none"
    /\ forkFails = 0

Running == fault = "none"
-----------------------------------------------------------------------------
\* msg_panic(): the manager aborts, and with it the read ends of the status
\* channels go away.
msg_panic(reason) ==
    /\ fault' = reason
    /\ statusOpen' = FALSE
    /\ UNCHANGED <<child, serv, pending, pipe, deaths, svc, fd, table, avail, forkFails>>

\* SIGTERM or SIGHUP with no handler installed, or the kernel's OOM killer.
MasterKilled ==
    /\ MayBeKilled
    /\ Running
    /\ msg_panic("killed")
    /\ UNCHANGED <<due, ready>>

ReadyEvents ==
    {<<"listen", s>> : s \in {t \in Services : svc[t].registered /\ pending[t] > 0}}
    \cup {<<"status", s>> : s \in {t \in Services : pipe[t] # <<>>}}

\* epoll_wait() returns, because descriptors are ready or because its time is
\* up, and some of the pending timers have expired by then.
event_wait ==
    /\ Running
    /\ due = {}
    /\ ready = {}
    /\ due' \in SUBSET {s \in Services : svc[s].timer}
    /\ ready' = ReadyEvents
    /\ due' # {} \/ ready' # {}
    /\ UNCHANGED <<childVars, svc, fd, table, avail, fault, forkFails>>

\* The timer is off the queue before its callback runs; the callback's own
\* event_cancel_timer() finds nothing.
master_unthrottle_wrapper(s) ==
    /\ Running
    /\ s \in due
    /\ due' = due \ {s}
    /\ svc' = [svc EXCEPT ![s] = master_unthrottle([svc[s] EXCEPT !.timer = FALSE])]
    /\ UNCHANGED <<childVars, fd, table, avail, ready, fault, forkFails>>

\* The loop over the snapshot takes an event once all due timers have run.
NextEvent(e) ==
    /\ Running
    /\ due = {}
    /\ e \in ready
    /\ ready' = ready \ {e}
    /\ UNCHANGED due

\* Read requests: of a socket while it is enabled, of a status channel from
\* master_status_init() to master_status_cleanup().
Requested(e) == IF e[1] = "listen" THEN svc[e[2]].registered ELSE fd[e] >= 0

\* fd > maxfd: the event loop keeps in maxfd the highest number that has a
\* request.
BadDescriptor(e) == \A f \in Events : Requested(f) => fd[f] < fd[e]

Dispatch(kind, s) == NextEvent(<<kind, s>>) /\ ~BadDescriptor(<<kind, s>>)

\* An earlier callback of the same snapshot has withdrawn the highest request.
DispatchPanics(e) ==
    /\ NextEvent(e)
    /\ BadDescriptor(e)
    /\ msg_panic("bad file descriptor")
-----------------------------------------------------------------------------
\* fork() returns -1: the system is out of resources.  The count stops beyond
\* its bound when there are no pids left.
ForkFails(s) ==
    /\ \/ \A p \in Pids : child[p] # "none"
       \/ forkFails < MaxForkFails
    /\ forkFails' = IF forkFails <= MaxForkFails THEN forkFails + 1 ELSE forkFails
    /\ svc' = [svc EXCEPT ![s] = master_throttle(@)]
    /\ UNCHANGED <<childVars, fd, table, avail, fault>>

\* Faulty variant: total_proc is not incremented.
ForkSucceeds_uncounted(s, p) ==
    /\ child[p] = "none"
    /\ child' = [child EXCEPT ![p] = "started"]
    /\ serv' = [serv EXCEPT ![p] = s]
    /\ table' = table \cup {p}
    /\ avail' = [avail EXCEPT ![p] = MASTER_STAT_AVAIL]
    /\ svc' = [svc EXCEPT ![s] = master_avail_more(@)]
    /\ UNCHANGED <<pending, pipe, statusOpen, deaths, fd, fault, forkFails>>

\* Faulty variant: the process is not linked to its service.
ForkSucceeds_orphan(s, p) ==
    /\ child[p] = "none"
    /\ child' = [child EXCEPT ![p] = "started"]
    /\ table' = table \cup {p}
    /\ avail' = [avail EXCEPT ![p] = MASTER_STAT_AVAIL]
    /\ svc' = [svc EXCEPT ![s] = master_avail_more([svc[s] EXCEPT !.total_proc = @ + 1])]
    /\ UNCHANGED <<serv, pending, pipe, statusOpen, deaths, fd, fault, forkFails>>

\* fork() succeeds: the new process is entered in the table and counted as
\* available.
ForkSucceeds(s, p) ==
    /\ child[p] = "none"
    /\ child' = [child EXCEPT ![p] = "started"]
    /\ serv' = [serv EXCEPT ![p] = s]
    /\ table' = table \cup {p}
    /\ avail' = [avail EXCEPT ![p] = MASTER_STAT_AVAIL]
    /\ svc' = [svc EXCEPT ![s] = master_avail_more([svc[s] EXCEPT !.total_proc = @ + 1])]
    /\ UNCHANGED <<pending, pipe, statusOpen, deaths, fd, fault, forkFails>>

\* The three sanity checks of master_spawn(), in the order of the code.
SpawnCheck(r) ==
    IF ~MASTER_LIMIT_OK(r.max_proc, r.total_proc) THEN "limit"
    ELSE IF r.avail_proc > 0 THEN "available"
    ELSE IF r.throttle THEN "throttled"
    ELSE "none"

master_spawn(s) ==
    LET check == SpawnCheck(svc[s])
    IN  \/ check # "none" /\ msg_panic(check)
        \/ check = "none" /\ ForkFails(s)
        \/ check = "none" /\ \E p \in Pids : ForkSucceeds(s, p)

\* The callback of the listen socket.  It does not look at the event loop's
\* mask: it runs for every event of the snapshot.
master_avail_event(s) ==
    /\ Dispatch("listen", s)
    /\ \/ /\ svc[s].throttle
          /\ svc' = [svc EXCEPT ![s] = event_disable_listen(@)]
          /\ UNCHANGED <<childVars, fd, table, avail, fault, forkFails>>
       \/ /\ ~svc[s].throttle
          /\ master_spawn(s)
-----------------------------------------------------------------------------
\* Faulty variant: the table is not brought up to date.
StatusChanges_unrecorded(s, m) ==
    /\ svc' = [svc EXCEPT ![s] = IF m.avail = MASTER_STAT_AVAIL
                                 THEN master_avail_more(@)
                                 ELSE master_avail_less(@)]
    /\ UNCHANGED avail

\* A status message that differs from what the table says.  (It also makes
\* the checks of master_avail_more() and master_avail_less() hold.)
StatusChanges(s, m) ==
    /\ avail' = [avail EXCEPT ![m.pid] = m.avail]
    /\ svc' = [svc EXCEPT ![s] = IF m.avail = MASTER_STAT_AVAIL
                                 THEN master_avail_more(@)
                                 ELSE master_avail_less(@)]

\* Does the message change what the table says of its sender?
IsNews(m) == m.pid \in table /\ avail[m.pid] # m.avail

\* The callback of a status channel reads one message: from an unknown
\* process (ignored), from a process of another service (panic), or gossip
\* about one of its own, which counts only when it is news.
master_status_event(s) ==
    /\ Dispatch("status", s)
    /\ pipe[s] # <<>>    \* the descriptor is blocking
    /\ pipe' = [pipe EXCEPT ![s] = Tail(@)]
    /\ UNCHANGED <<child, serv, pending, deaths, fd, table, forkFails>>
    /\ LET m == Head(pipe[s])
           corrupt == m.pid \in table /\ serv[m.pid] # s
       IN  /\ fault' = IF corrupt THEN "pointer corruption" ELSE fault
           /\ statusOpen' = ~corrupt
           /\ IF IsNews(m) /\ ~corrupt THEN StatusChanges(s, m) ELSE UNCHANGED <<svc, avail>>
-----------------------------------------------------------------------------
\* One round of the loop over the snapshot.
HandleEvent(e) ==
    IF BadDescriptor(e) THEN DispatchPanics(e)
    ELSE IF e[1] = "listen" THEN master_avail_event(e[2])
    ELSE master_status_event(e[2])

MasterStep ==
    \/ event_wait
    \/ \E s \in Services : master_unthrottle_wrapper(s)
    \/ \E e \in Events : HandleEvent(e)

ChildStep(p) == ServerStep(p) \/ ServiceReturns(p) \/ ChildDies(p)

Next ==
    \/ MasterStep
    \/ MasterKilled
    \/ \E s \in Services : Connect(s) /\ UNCHANGED masterVars
    \/ \E p \in Pids : ChildStep(p) /\ UNCHANGED masterVars

Spec == Init /\ [][Next]_vars

\* Weak fairness for the manager's thread and for every server process: the
\* scheduler runs them.  A timer that is pending expires, so event_wait()
\* cannot for ever return without it.  The last conjunct is about clients:
\* each eventually sends its request or goes away.
Fairness ==
    /\ WF_vars(MasterStep)
    /\ \A s \in Services : SF_vars(event_wait /\ s \in due')
    /\ \A p \in Pids : /\ WF_vars(ServerStep(p) /\ UNCHANGED masterVars)
                       /\ WF_vars(ServiceReturns(p) /\ UNCHANGED masterVars)

FairSpec == Spec /\ Fairness
-----------------------------------------------------------------------------
Children(s) == {p \in table : serv[p] = s}
Idle(s) == {p \in Children(s) : avail[p] = MASTER_STAT_AVAIL}

(* The two counters of a service are the numbers of its entries in          *)
(* master_child_table and of those marked available, through every          *)
(* interleaving of forks and status messages (master_spawn,                 *)
(* master_avail_more, master_avail_less, master_status_event).              *)
CountsAgree ==
    \A s \in Services : /\ svc[s].total_proc = Cardinality(Children(s))
                        /\ svc[s].avail_proc = Cardinality(Idle(s))

(* The processes of a service that really exist never exceed its maxproc,   *)
(* although only the manager's counter is ever compared with it and stale   *)
(* listen events are dispatched (master_spawn, MASTER_LIMIT_OK).            *)
ProcessLimit ==
    \A s \in Services :
        \/ MaxProc[s] = 0
        \/ Cardinality({p \in Pids : Alive(p) /\ serv[p] = s}) <= MaxProc[s]

(* Status messages are gossip that may arrive late, but never the wrong way *)
(* round: once the messages of a living process that are still in the       *)
(* channel have been read, the table says what the process last reported    *)
(* (master_notify, master_status_event).                                    *)
StatusConverges ==
    Running => \A p \in Pids : Alive(p) =>
        LET c == pipe[serv[p]]
        IN  \/ /\ \A i \in 1..Len(c) : c[i].pid # p
               /\ avail[p] = Reported(p)
            \/ \E i \in 1..Len(c) :
                  /\ c[i].pid = p /\ c[i].avail = Reported(p)
                  /\ \A j \in i+1..Len(c) : c[j].pid # p

(* MASTER_FLAG_LISTEN follows the rule of master_avail_listen() whenever    *)
(* the service is not throttled, although master_throttle() changes the     *)
(* rule's inputs without calling it; and no listen request survives without *)
(* the flag, so master_avail_listen() can always withdraw what was enabled. *)
ListenPolicy ==
    \A s \in Services : /\ ~svc[s].throttle => (svc[s].listen <=> listen_flag(svc[s]))
                        /\ svc[s].registered => svc[s].listen

(* The sanity check of master_spawn() on the process limit, the one of      *)
(* master_status_event() and the one of event_wait() on the numbers of its  *)
(* snapshot never fail.  (Nor does master_spawn()'s check on throttling,    *)
(* which master_avail_event() makes first.)                                 *)
SanityChecks ==
    fault \notin {"limit", "throttled", "pointer corruption", "bad file descriptor"}

(* The sanity check of master_spawn() on idle processes never fails either: *)
(* "The master_avail module is supposed to know what it is doing".  It does *)
(* when a service has at most one process; with more, a listen event that   *)
(* epoll_wait() listed together with a status message is dispatched after   *)
(* the message made a process available and withdrew the listen request.    *)
SpawnSane == fault # "available"

Listens(p) == child[p] \in {"started", "waiting", "woken"}
Busy(p) == child[p] \in {"accepted", "serving", "served"}

(* When no process listens on a socket the manager will (master_proto.h,    *)
(* master_avail_listen), up to the delay of the gossip: unless process      *)
(* creation is throttled or all the processes allowed are busy, either the  *)
(* manager watches the socket, or a process does, or a status message that  *)
(* will change the manager's mind is in the channel or about to be written. *)
SocketWatched ==
    Running => \A s \in Services :
        LET mine == {p \in Pids : serv[p] = s}
        IN  \/ svc[s].registered
            \/ svc[s].throttle
            \/ ~MASTER_LIMIT_OK(MaxProc[s], Cardinality({p \in mine : Busy(p)}))
            \/ \E p \in mine : Listens(p) \/ child[p] = "accepted"
            \/ pipe[s] # <<>>

(* ... and that holds as long as no process dies and no fork fails: these   *)
(* are the faults after which a service can stay deaf.                      *)
SocketWatchedSoFar == deaths = 0 /\ forkFails = 0 => SocketWatched

(* A process that tells a manager that is gone about its availability stops *)
(* serving ("Commit suicide when the master process disconnected from us",  *)
(* single_server_wakeup).                                                   *)
CommitsSuicide ==
    [][\A p \in Pids : (NotifyTaken(p) \/ NotifyAvail(p)) /\ ~statusOpen
                            => child'[p] = "dead"]_vars

(* Every connection that waits in a listen socket is followed by an accept: *)
(* the manager starts a process when none is idle, and the idle ones wake   *)
(* up (event_wait, master_avail_event, single_server_accept_inet).  Only    *)
(* the death of a process or a failed fork excuses it.                      *)
ConnectionsAccepted ==
    \A s \in Services :
        pending[s] > 0 ~> \/ \E p \in Pids : serv[p] = s /\ child[p] = "accepted"
                          \/ deaths > 0 \/ forkFails > 0

(* Throttling ends: master_throttle()'s timer releases the service while    *)
(* the manager lives, whatever events compete with it.                      *)
ThrottleReleased ==
    \A s \in Services : svc[s].throttle ~> ~svc[s].throttle \/ ~Running
=============================================================================

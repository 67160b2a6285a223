----------------------------- MODULE MasterReload -----------------------------
(***************************************************************************)
(* Reloading the configuration and reaping children: what master_conf.c,   *)
(* master_service.c and master_spawn.c do beyond the running system of     *)
(* Master.  main() of this version calls neither master_refresh() nor      *)
(* master_reap_child(), so the module takes them as master.h offers them:  *)
(* the manager may call either between two calls of event_wait(), at any   *)
(* time, and nowhere else.                                                 *)
(*                                                                         *)
(* The manager's thread is at one of these places:                         *)
(*   "loop"    in the main loop                                            *)
(*   "reap"    in the loop over waitpid() of master_reap_child()           *)
(*   "config"  in master_refresh(), reading master.cf in master_config()   *)
(*   "stop"    in master_refresh(), deleting the services that disappeared *)
(* master_delete_children() calls master_reap_child(); stopping tells      *)
(* where the call came from.                                               *)
(***************************************************************************)
EXTENDS Master

CONSTANTS Limits,       \* the maxproc values that master.cf may hold for a service
          MaxRefreshes, \* bound on the calls of master_refresh()
          MaxConnects   \* bound on the connections that clients make

ASSUME ReloadAssumption ==
    /\ Limits \in [Services -> SUBSET Nat]
    /\ MaxRefreshes \in Nat
    /\ MaxConnects \in Nat

VARIABLES configured,   \* the services in the list master_head
          doomed,       \* those of them that still bear MASTER_FLAG_MARK
          stopping,     \* the one master_stop_service() works on, or NoService
          place,        \* where the manager's thread is
          orphans,      \* processes whose status channel was closed since the fork
          sigterm,      \* processes that were sent SIGTERM
          used,         \* MASTER_PROC.use_count is not zero
          refreshes,    \* calls of master_refresh()
          connects,     \* connections made
          deleted,      \* history: a service has been stopped
          kept,         \* history: a service was put on hold with its listen
                        \* request left in place
          lowered,      \* history: a refresh has lowered a limit
          mixed         \* history: a pid was used again while a message of its
                        \* former owner was unread

reloadVars == <<configured, doomed, stopping, place, orphans, sigterm, used,
                refreshes, connects, deleted, kept, lowered, mixed>>
allVars == <<vars, reloadVars>>

ReloadInit ==
    /\ Init
    /\ configured = Services
    /\ doomed = {}
    /\ stopping = NoService
    /\ place = "loop"
    /\ orphans = {}
    /\ sigterm = {}
    /\ used = {}
    /\ refreshes = 0
    /\ connects = 0
    /\ deleted = FALSE
    /\ kept = FALSE
    /\ lowered = FALSE
    /\ mixed = FALSE

\* Between two calls of event_wait().
InLoop == Running /\ place = "loop" /\ due = {} /\ ready = {}

Zombies == {p \in Pids : child[p] = "dead"}
Of(s) == {p \in Pids : serv[p] = s}

HasUnread(p) == \E s \in Services : \E i \in 1..Len(pipe[s]) : pipe[s][i].pid = p

\* master_throttle() in a step that leaves MASTER_FLAG_LISTEN set: the next
\* connection will withdraw the request behind the back of the flag.
Keeps(s) == ~svc[s].throttle /\ svc'[s].throttle /\ svc'[s].listen
-----------------------------------------------------------------------------
\* The steps of Master, with what they do to use_count and the histories.
EventWait ==
    /\ place = "loop"
    /\ event_wait
    /\ UNCHANGED reloadVars

Unthrottle(s) == master_unthrottle_wrapper(s) /\ UNCHANGED reloadVars

ListenEvent(s) ==
    /\ master_avail_event(s)
    /\ LET new == table' \ table
       IN  /\ used' = used \ new
           /\ mixed' = (mixed \/ \E p \in new : HasUnread(p))
    /\ kept' = (kept \/ Keeps(s))
    /\ UNCHANGED <<configured, doomed, stopping, place, orphans, sigterm, refreshes, connects, deleted,
                   lowered>>

StatusEvent(s) ==
    /\ master_status_event(s)
    /\ used' = used \cup {p \in table : avail[p] # MASTER_STAT_AVAIL /\ avail'[p] = MASTER_STAT_AVAIL}
    /\ UNCHANGED <<configured, doomed, stopping, place, orphans, sigterm, refreshes, connects, deleted,
                   kept, lowered, mixed>>

Panic(e) == DispatchPanics(e) /\ UNCHANGED reloadVars
-----------------------------------------------------------------------------
\* Faulty variant: a process that dies idle is not subtracted from avail_proc.
master_delete_child_avail(r, status) ==
    LET q == [r EXCEPT !.total_proc = @ - 1]
    IN  IF MASTER_LIMIT_OK(q.max_proc, q.total_proc) /\ q.avail_proc < 1
        THEN master_avail_listen(q) ELSE q

\* Faulty variant: a process that was never idle is not reconsidered.
master_delete_child_idle(r, status) ==
    LET q == [r EXCEPT !.total_proc = @ - 1]
    IN  IF status = MASTER_STAT_AVAIL THEN master_avail_less(q) ELSE q

\* Faulty variant: total_proc is not decremented.
master_delete_child_uncounted(r, status) ==
    IF status = MASTER_STAT_AVAIL THEN master_avail_less(r) ELSE r

\* master_delete_child(): what a process that is gone does to its service.
master_delete_child(r, status) ==
    LET q == [r EXCEPT !.total_proc = @ - 1]
    IN  IF status = MASTER_STAT_AVAIL THEN master_avail_less(q)
        ELSE IF MASTER_LIMIT_OK(q.max_proc, q.total_proc) /\ q.avail_proc < 1
        THEN master_avail_listen(q) ELSE q

\* A process that failed on its first job puts its service on hold.
BadStartup(p, ok) == ~ok /\ p \notin used

\* master_reap_child() is called, by the main loop or to wait for the children
\* of a service that is being stopped.
ReapBegins ==
    /\ \/ InLoop
       \/ Running /\ place = "stop" /\ stopping # NoService /\ svc[stopping].total_proc > 0
    /\ place' = "reap"
    /\ UNCHANGED <<vars, configured, doomed, stopping, orphans, sigterm, used, refreshes, connects,
                   deleted, kept, lowered, mixed>>

\* waitpid() reports a child, whose status is zero or not: the service function
\* chooses its status, and a signal never gives zero.
ReapOne(p, ok) ==
    LET s == serv[p]
        r == IF BadStartup(p, ok) THEN master_throttle(svc[s]) ELSE svc[s]
    IN  /\ Running
        /\ place = "reap"
        /\ p \in Zombies
        /\ IF p \notin table THEN msg_panic("unknown pid") /\ UNCHANGED <<due, ready>>
           ELSE /\ svc' = [svc EXCEPT ![s] = master_delete_child(r, avail[p])]
                /\ table' = table \ {p}
                /\ avail' = [avail EXCEPT ![p] = MASTER_STAT_TAKEN]
                /\ child' = [child EXCEPT ![p] = "none"]
                /\ serv' = [serv EXCEPT ![p] = NoService]
                /\ UNCHANGED <<pending, pipe, statusOpen, deaths, fd, due, ready, fault, forkFails>>
        /\ orphans' = orphans \ {p}
        /\ sigterm' = sigterm \ {p}
        /\ used' = used \ {p}
        /\ kept' = (kept \/ Keeps(s))
        /\ UNCHANGED <<configured, doomed, stopping, place, refreshes, connects, deleted, lowered, mixed>>

ReapEnds ==
    /\ Running
    /\ place = "reap"
    /\ Zombies = {}
    /\ place' = IF stopping = NoService THEN "loop" ELSE "stop"
    /\ UNCHANGED <<vars, configured, doomed, stopping, orphans, sigterm, used, refreshes, connects,
                   deleted, kept, lowered, mixed>>
-----------------------------------------------------------------------------
\* Numbers of descriptors: as many as the services can ever hold.
Numbers == 1..(3 * Cardinality(Services))
Open(f) == {f[e] : e \in Ends} \ {-1}

\* What socket() and pipe() return: the lowest number that is not taken.
IsLowestFree(n, taken) == n \notin taken /\ \A k \in 1..(n - 1) : k \in taken

\* pipe() in master_status_init(), the numbers of f being those in use.
StatusNumbers(f, s, g) ==
    \E r, w \in Numbers :
        /\ IsLowestFree(r, Open(f))
        /\ IsLowestFree(w, Open(f) \cup {r})
        /\ g = [f EXCEPT ![<<"status", s>>] = r, ![<<"report", s>>] = w]

\* master_status_cleanup(): what was in the channel is lost, and the processes
\* of the service keep a channel that nobody reads.
master_status_cleanup(s) ==
    /\ pipe' = [pipe EXCEPT ![s] = <<>>]
    /\ orphans' = orphans \cup Of(s)

StatusClosed(s) == [fd EXCEPT ![<<"status", s>>] = -1, ![<<"report", s>>] = -1]

Lowers(new, old) == new # 0 /\ (old = 0 \/ new < old)

\* master_refresh() marks all services and begins to read master.cf.
BeginRefresh ==
    /\ InLoop
    /\ refreshes < MaxRefreshes
    /\ refreshes' = refreshes + 1
    /\ doomed' = configured
    /\ place' = "config"
    /\ UNCHANGED <<vars, configured, stopping, orphans, sigterm, used, connects, deleted,
                   kept, lowered, mixed>>

\* An entry that is not in the list: master_start_service() opens a socket and
\* a channel.
NewEntry(s, limit) ==
    /\ s \notin configured
    /\ configured' = configured \cup {s}
    /\ svc' = [svc EXCEPT ![s] = master_start_service(get_master_ent(limit))]
    /\ \E l \in Numbers :
          /\ IsLowestFree(l, Open(fd))
          /\ StatusNumbers([fd EXCEPT ![<<"listen", s>>] = l], s, fd')
    /\ UNCHANGED <<pipe, doomed, orphans, lowered>>

\* An entry that is: the mark is cleared and master_restart_service() gives the
\* service another channel.  It does not reconsider the listen request.
OldEntry(s, limit) ==
    /\ s \in doomed
    /\ doomed' = doomed \ {s}
    /\ svc' = [svc EXCEPT ![s].max_proc = limit]
    /\ master_status_cleanup(s)
    /\ StatusNumbers(StatusClosed(s), s, fd')
    /\ lowered' = (lowered \/ Lowers(limit, svc[s].max_proc))
    /\ UNCHANGED configured

\* master_config() takes the next entry of master.cf.  A file names a service
\* at most once, in any place.
ReadEntry(s, limit) ==
    /\ Running
    /\ place = "config"
    /\ NewEntry(s, limit) \/ OldEntry(s, limit)
    /\ UNCHANGED <<child, serv, pending, statusOpen, deaths, table, avail, due, ready, fault, forkFails,
                   stopping, place, sigterm, used, refreshes, connects, deleted, kept, mixed>>

\* The end of the file: the services that still bear the mark disappeared.
EndReading ==
    /\ Running
    /\ place = "config"
    /\ place' = IF doomed = {} THEN "loop" ELSE "stop"
    /\ UNCHANGED <<vars, configured, doomed, stopping, orphans, sigterm, used, refreshes, connects,
                   deleted, kept, lowered, mixed>>

\* master_stop_service(): the status channel is closed, then
\* master_delete_children() throttles the service and kills its processes.
StopBegins(s) ==
    /\ Running
    /\ place = "stop"
    /\ stopping = NoService
    /\ s \in doomed
    /\ stopping' = s
    /\ deleted' = TRUE
    /\ master_status_cleanup(s)
    /\ fd' = StatusClosed(s)
    /\ svc' = [svc EXCEPT ![s] = master_throttle(@)]
    /\ sigterm' = sigterm \cup {p \in table : serv[p] = s}
    /\ UNCHANGED <<child, serv, pending, statusOpen, deaths, table, avail, due, ready, fault,
                   forkFails, configured, doomed, place, used, refreshes, connects, kept, lowered, mixed>>

\* The rest of master_avail_cleanup(): master_unthrottle() may ask for the
\* listen socket again, so the request is withdrawn last.
master_avail_cleanup(r) ==
    LET q == master_unthrottle(r)
    IN  IF q.listen THEN [q EXCEPT !.listen = FALSE, !.registered = FALSE] ELSE q

\* Faulty variant: the children are not waited for.
StopEnds_early(s) ==
    /\ Running
    /\ place = "stop"
    /\ stopping = s
    /\ svc' = [svc EXCEPT ![s] = master_avail_cleanup(@)]
    /\ pending' = [pending EXCEPT ![s] = 0]
    /\ fd' = [fd EXCEPT ![<<"listen", s>>] = -1]
    /\ configured' = configured \ {s}
    /\ doomed' = doomed \ {s}
    /\ stopping' = NoService
    /\ place' = IF doomed' = {} THEN "loop" ELSE "stop"
    /\ UNCHANGED <<child, serv, pipe, statusOpen, deaths, table, avail, due, ready, fault,
                   forkFails, orphans, sigterm, used, refreshes, connects, deleted, kept, lowered, mixed>>

\* No child is left: the listen socket is closed, with the connections that
\* wait in it, and the entry is freed.
StopEnds(s) ==
    /\ Running
    /\ place = "stop"
    /\ stopping = s
    /\ svc[s].total_proc <= 0
    /\ svc' = [svc EXCEPT ![s] = master_avail_cleanup(@)]
    /\ pending' = [pending EXCEPT ![s] = 0]
    /\ fd' = [fd EXCEPT ![<<"listen", s>>] = -1]
    /\ configured' = configured \ {s}
    /\ doomed' = doomed \ {s}
    /\ stopping' = NoService
    /\ place' = IF doomed' = {} THEN "loop" ELSE "stop"
    /\ UNCHANGED <<child, serv, pipe, statusOpen, deaths, table, avail, due, ready, fault,
                   forkFails, orphans, sigterm, used, refreshes, connects, deleted, kept, lowered, mixed>>
-----------------------------------------------------------------------------
\* Only a socket that the manager still holds open can be connected to.
ReloadConnect(s) ==
    /\ connects < MaxConnects
    /\ connects' = connects + 1
    /\ Connect(s)
    /\ UNCHANGED <<masterVars, configured, doomed, stopping, place, orphans, sigterm, used,
                   refreshes, deleted, kept, lowered, mixed>>

\* A process whose channel has no reader: the write fails, which is logged.
OrphanNotifies(p) ==
    /\ p \in orphans
    /\ \/ child[p] = "accepted" /\ Goto(p, "serving")
       \/ child[p] = "served" /\ Goto(p, "waiting")
    /\ UNCHANGED <<serv, pending, pipe, statusOpen, deaths>>

ReloadServerStep(p) ==
    \/ single_server_main(p)
    \/ child_event_wait(p)
    \/ single_server_accept_inet(p)
    \/ p \notin orphans /\ (NotifyTaken(p) \/ NotifyAvail(p))
    \/ OrphanNotifies(p)

\* The default action of SIGTERM.
Terminated(p) ==
    /\ Alive(p)
    /\ p \in sigterm
    /\ Goto(p, "dead")
    /\ UNCHANGED <<serv, pending, pipe, statusOpen, deaths>>

ProcessStep ==
    \E p \in Pids : ReloadServerStep(p) \/ ServiceReturns(p) \/ ChildDies(p) \/ Terminated(p)

ManagerStep ==
    \/ EventWait
    \/ \E s \in Services : \/ Unthrottle(s)
                           \/ ListenEvent(s)
                           \/ StatusEvent(s)
                           \/ StopBegins(s)
                           \/ StopEnds(s)
                           \/ \E limit \in Limits[s] : ReadEntry(s, limit)
    \/ \E e \in Events : Panic(e)
    \/ EndReading
    \/ ReapBegins
    \/ ReapEnds
    \/ \E p \in Pids, ok \in BOOLEAN : ReapOne(p, ok)

ReloadNext ==
    \/ ManagerStep
    \/ BeginRefresh
    \/ \E s \in configured : ReloadConnect(s)
    \/ ProcessStep /\ UNCHANGED <<masterVars, reloadVars>>

ReloadSpec == ReloadInit /\ [][ReloadNext]_allVars

\* The manager's thread runs, and SIGTERM is delivered: no process of the
\* skeleton catches or blocks it.
ReloadFairness ==
    /\ WF_allVars(ManagerStep)
    /\ \A p \in Pids : WF_allVars(Terminated(p) /\ UNCHANGED <<masterVars, reloadVars>>)

FairReload == ReloadSpec /\ ReloadFairness
-----------------------------------------------------------------------------
(* The counters still agree with the table when processes are reaped, their *)
(* services restarted or stopped (master_delete_child, master_refresh), and *)
(* the table with the kernel: master_reap_child() knows every child.        *)
ReloadCounts ==
    /\ CountsAgree
    /\ table = {p \in Pids : child[p] # "none"}

(* The calls of this module panic for four causes.  "at process limit"      *)
(* needs a refresh that lowered a limit: master_restart_service() leaves    *)
(* the listen request as it was.  "pointer corruption" needs a pid that is  *)
(* used again while a message of its former owner is unread.  "bad file     *)
(* descriptor" needs a service deleted earlier: only then can a channel of  *)
(* master_restart_service() get a number below its socket's, and a stale    *)
(* listen event find no request above it.  The fourth is the stale event of *)
(* SpawnSane, also without a refresh.                                       *)
PanicsExplained ==
    /\ fault \notin {"throttled", "unknown pid"}
    /\ fault = "limit" => lowered
    /\ fault = "pointer corruption" => mixed
    /\ fault = "bad file descriptor" => deleted

(* A service that was deleted leaves nothing behind that would touch its    *)
(* freed entry or run without a manager: no process, dead or alive, no      *)
(* timer, no read request on its closed socket, no unread message           *)
(* (master_stop_service, master_delete_children, free_master_ent).          *)
NothingLeft ==
    \A s \in Services \ configured :
        /\ Of(s) = {}
        /\ ~svc[s].timer /\ ~svc[s].registered
        /\ pipe[s] = <<>>
        /\ s \notin doomed /\ stopping # s

(* Reaping mends what a death breaks in Master, and a refresh breaks nothing *)
(* for longer than the old processes live: a socket of a configured service  *)
(* is watched unless creation is throttled, all the processes allowed are    *)
(* busy, news is on the way, a dead process is still to be reaped, a process *)
(* of an older generation lives, or a service was put on hold with its       *)
(* listen request left in place: by a failed fork, or by a bad start while a *)
(* lowered limit keeps master_delete_child() from reconsidering the request  *)
(* (master_reap_child, master_delete_child, master_restart_service).         *)
ReapedIsWatched ==
    InLoop /\ ~kept => \A s \in configured :
        \/ svc[s].registered
        \/ svc[s].throttle
        \/ ~MASTER_LIMIT_OK(svc[s].max_proc, Cardinality({p \in Of(s) : Busy(p)}))
        \/ \E p \in Of(s) : Listens(p) \/ child[p] = "accepted"
        \/ pipe[s] # <<>>
        \/ Of(s) \cap (Zombies \cup orphans) # {}

(* master_delete_children() polls until its children are gone, and they go: *)
(* deleting services ends and the manager returns to its event loop.        *)
DeletingEnds == place # "loop" ~> place = "loop" \/ ~Running
=============================================================================

---------------------------- MODULE SingleServer ----------------------------
(***************************************************************************)
(* The service processes: the single-threaded server skeleton of           *)
(* src/master/single_server.c, which the process manager starts from       *)
(* master_spawn().  All processes of one service share its listen socket   *)
(* (descriptor MASTER_LISTEN_FD) and the write end of its status channel   *)
(* (MASTER_STATUS_FD); the kernel decides who accepts a connection.        *)
(*                                                                         *)
(* A process is in one of these phases:                                    *)
(*   "none"      the pid is not in use                                     *)
(*   "started"   forked; descriptors, execvp and single_server_main's      *)
(*               set-up still to run                                       *)
(*   "waiting"   blocked in event_wait(el, -1)                             *)
(*   "woken"     epoll reported the listen socket, accept not called yet   *)
(*   "accepted"  holds a connection, MASTER_STAT_TAKEN not yet written     *)
(*   "serving"   inside the service function                               *)
(*   "served"    connection closed, MASTER_STAT_AVAIL not yet written      *)
(*   "dead"      terminated, never waited for (a zombie)                   *)
(***************************************************************************)
EXTENDS MasterProto, FiniteSets

CONSTANTS Services,    \* the entries of master.cf
          NoService,   \* the service of a pid that is not in use
          Pids,        \* the process ids the kernel can hand out
          Backlog,     \* connections a listen socket can queue
          PipeCap,     \* messages a status channel can hold
          MaxDeaths    \* bound on the processes that die in one behaviour

ASSUME ChildAssumption ==
    /\ NoService \notin Services
    /\ Backlog \in Nat \ {0}
    /\ PipeCap \in Nat \ {0}
    /\ MaxDeaths \in Nat

VARIABLES child,       \* the phase of every process
          serv,        \* the service whose descriptors a process inherited
          pending,     \* connections waiting in each service's listen socket
          pipe,        \* the unread messages of each status channel
          statusOpen,  \* the manager still holds the read ends of the channels
          deaths       \* processes that have died

childVars == <<child, serv, pending, pipe, statusOpen, deaths>>

Phases == {"none", "started", "waiting", "woken", "accepted", "serving",
           "served", "dead"}

Alive(p) == child[p] \notin {"none", "dead"}

\* What the last message the process managed to write says of it; a process
\* that has written nothing counts as idle, as master_spawn() assumes.
Reported(p) == IF child[p] \in {"serving", "served"}
               THEN MASTER_STAT_TAKEN ELSE MASTER_STAT_AVAIL

ChildTypeOK ==
    /\ child \in [Pids -> Phases]
    /\ serv \in [Pids -> Services \cup {NoService}]
    /\ \A p \in Pids : (serv[p] = NoService) <=> (child[p] = "none")
    /\ pending \in [Services -> Nat]
    /\ pipe \in [Services -> Seq(MASTER_STATUS(Pids))]
    /\ statusOpen \in BOOLEAN
    /\ deaths \in Nat

ChildInit ==
    /\ child = [p \in Pids |-> "none"]
    /\ serv = [p \in Pids |-> NoService]
    /\ pending = [s \in Services |-> 0]
    /\ pipe = [s \in Services |-> <<>>]
    /\ statusOpen = TRUE
    /\ deaths = 0
-----------------------------------------------------------------------------
\* A client connects; the kernel queues the connection up to the backlog.
Connect(s) ==
    /\ pending[s] < Backlog
    /\ pending' = [pending EXCEPT ![s] = @ + 1]
    /\ UNCHANGED <<child, serv, pipe, statusOpen, deaths>>

Goto(p, phase) == child' = [child EXCEPT ![p] = phase]

\* From the fork to the event loop: the child branch of master_spawn()
\* arranges the descriptors and executes the command, single_server_main()
\* parses its arguments and registers the listen socket.
single_server_main(p) ==
    /\ child[p] = "started"
    /\ Goto(p, "waiting")
    /\ UNCHANGED <<serv, pending, pipe, statusOpen, deaths>>

\* event_wait(el, -1) returns: the listen socket is readable.  Every idle
\* process of the service is woken by the same connection.
child_event_wait(p) ==
    /\ child[p] = "waiting"
    /\ pending[serv[p]] > 0
    /\ Goto(p, "woken")
    /\ UNCHANGED <<serv, pending, pipe, statusOpen, deaths>>

\* The accept may find that a sibling took the connection (EAGAIN), and then
\* the process goes back to its event loop.
single_server_accept_inet(p) ==
    /\ child[p] = "woken"
    /\ \/ /\ pending[serv[p]] > 0
          /\ pending' = [pending EXCEPT ![serv[p]] = @ - 1]
          /\ Goto(p, "accepted")
       \/ /\ pending[serv[p]] = 0
          /\ Goto(p, "waiting")
          /\ UNCHANGED pending
    /\ UNCHANGED <<serv, pipe, statusOpen, deaths>>

\* The two notifications of single_server_wakeup().  A failed write is only
\* logged, so the process carries on either way.
Notify(p, status) ==
    /\ CanWrite(pipe[serv[p]], statusOpen, PipeCap)
    /\ pipe' = [pipe EXCEPT ![serv[p]] =
                    master_notify(@, statusOpen, p, status)]
    /\ UNCHANGED <<serv, pending, statusOpen, deaths>>

NotifyTaken(p) ==
    /\ child[p] = "accepted"
    /\ Notify(p, MASTER_STAT_TAKEN)
    /\ Goto(p, "serving")

NotifyAvail(p) ==
    /\ child[p] = "served"
    /\ Notify(p, MASTER_STAT_AVAIL)
    /\ Goto(p, "waiting")

\* The service function returns and the connection is closed: the client sent
\* its request or went away.
ServiceReturns(p) ==
    /\ child[p] = "serving"
    /\ Goto(p, "served")
    /\ UNCHANGED <<serv, pending, pipe, statusOpen, deaths>>

\* The process terminates in whatever phase it is: a descriptor collision, a
\* failed execvp or accept (msg_fatal), a bug in the service or a signal.
ChildDies(p) ==
    /\ Alive(p)
    /\ deaths < MaxDeaths
    /\ Goto(p, "dead")
    /\ deaths' = deaths + 1
    /\ UNCHANGED <<serv, pending, pipe, statusOpen>>

\* One step of the server skeleton of process p.
ServerStep(p) ==
    \/ single_server_main(p)
    \/ child_event_wait(p)
    \/ single_server_accept_inet(p)
    \/ NotifyTaken(p)
    \/ NotifyAvail(p)
=============================================================================

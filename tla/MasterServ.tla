----------------------------- MODULE MasterServ -----------------------------
(***************************************************************************)
(* The part of struct MASTER_SERV (src/master/master.h) that the process   *)
(* manager's control depends on, and the handlers that change it, as       *)
(* functions from the record before a call to the record after it.         *)
(*                                                                         *)
(*   max_proc    bound on the processes of the service; 0: no bound        *)
(*   avail_proc  processes believed idle                                   *)
(*   total_proc  processes that exist                                      *)
(*   throttle    MASTER_FLAG_THROTTLE                                      *)
(*   listen      MASTER_FLAG_LISTEN                                        *)
(*   registered  the listen descriptor has a read request in the event     *)
(*               loop.  Not a member of the struct: this is the mask that  *)
(*               event_enable_rw() and event_disable_rw() keep for it.     *)
(*   timer       an unthrottle timer of the service is pending             *)
(*                                                                         *)
(* MASTER_FLAG_CONDWAKE is left out: the wakeup timers it would start are  *)
(* commented out in the source.                                            *)
(***************************************************************************)
EXTENDS Integers

MASTER_SERV == [max_proc : Nat, avail_proc : Int, total_proc : Int,
                throttle : BOOLEAN, listen : BOOLEAN,
                registered : BOOLEAN, timer : BOOLEAN]

\* Faulty variant: off by one.
MASTER_LIMIT_OK_inclusive(limit, count) == limit = 0 \/ count <= limit

MASTER_LIMIT_OK(limit, count) == limit = 0 \/ count < limit

\* get_master_ent(): a fresh entry, with no processes and nothing enabled.
get_master_ent(limit) ==
    [max_proc |-> limit, avail_proc |-> 0, total_proc |-> 0,
     throttle |-> FALSE, listen |-> FALSE, registered |-> FALSE,
     timer |-> FALSE]

\* Faulty variant: the process limit is not considered.
listen_flag_unlimited(r) == ~r.throttle /\ r.avail_proc <= 0

\* Should the manager itself watch the listen socket?
listen_flag(r) ==
    /\ ~r.throttle
    /\ r.avail_proc <= 0
    /\ MASTER_LIMIT_OK(r.max_proc, r.total_proc)

\* The request is changed only when the flag says it differs from what is
\* wanted.
master_avail_listen(r) ==
    [r EXCEPT !.listen = listen_flag(r),
              !.registered = IF r.listen # listen_flag(r)
                             THEN listen_flag(r) ELSE @]

master_avail_more(r) == master_avail_listen([r EXCEPT !.avail_proc = @ + 1])

\* Faulty variant: the listen request is not reconsidered.
master_avail_less_silent(r) == [r EXCEPT !.avail_proc = @ - 1]

master_avail_less(r) == master_avail_listen([r EXCEPT !.avail_proc = @ - 1])

\* Faulty variant: nothing will end the throttling.
master_throttle_untimed(r) == [r EXCEPT !.throttle = TRUE]

\* The request is not withdrawn here: master_avail_event() does that when the
\* next connection arrives.
master_throttle(r) ==
    IF r.throttle THEN r ELSE [r EXCEPT !.throttle = TRUE, !.timer = TRUE]

\* Faulty variant: the listen request is not reconsidered.
master_unthrottle_silent(r) == [r EXCEPT !.throttle = FALSE, !.timer = FALSE]

master_unthrottle(r) ==
    IF r.throttle
    THEN master_avail_listen([r EXCEPT !.throttle = FALSE, !.timer = FALSE])
    ELSE r

\* Faulty variant: the listen request is forgotten, as in master_restart_service().
master_start_service_silent(r) == r

\* master_start_service(): listen socket, listen request, status channel.
master_start_service(r) == master_avail_listen(r)

\* event_disable_rw() on the listen descriptor, without the flag.
event_disable_listen(r) == [r EXCEPT !.registered = FALSE]
=============================================================================
